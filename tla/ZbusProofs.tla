----------------------------- MODULE ZbusProofs -----------------------------
(***************************************************************************)
(* For any number of tasks and TTYs and any sizes of the rings: what a TTY *)
(* holds belongs to its owner, the cached TTY is owned when it is used,    *)
(* messages lose only their ends, and the round robin passes nobody over   *)
(* twice.                                                                  *)
(*                                                                         *)
(* None of the last three is inductive.  That a cached TTY is owned needs  *)
(* to know that the job of a writer names it (Jobs).  NoHoles needs to     *)
(* know where a message that is half written goes on: on the cached TTY,   *)
(* right behind its last chunk (Halfway).  BoundedSkips needs to know how  *)
(* far the scan still is from a TTY: each frame of another TTY brings it   *)
(* nearer by at least one (Patience).                                      *)
(***************************************************************************)
EXTENDS Zbus, SequenceTheorems, TLAPS

Writing(t) == pc[t] \in {"again", "attach", "write"}

\* The locals of a write.
Jobs ==
  \A t \in Tasks :
    /\ Writing(t) => job[t].chunk >= 1 /\ job[t].chunk <= job[t].chunks
    /\ pc[t] = "attach" => job[t].chunk = 1
    /\ life[t] = 0 => pc[t] = "idle"
    /\ pc[t] = "write" => job[t].tty \in Ttys /\ job[t].tty = legacy[t]

\* A TTY with frames has been passed over for less than a whole round by the
\* time the scan reaches it.
Patience ==
  \A y \in Ttys :
    /\ Sendable(y) => skipped[y] + Offset(y) < MaxTty
    /\ ~Sendable(y) => skipped[y] = 0

\* The last chunk that entered the ring.
EndOf(y) == IF tx[y] = <<>> THEN last[y] ELSE tx[y][Len(tx[y])].chunk

\* NoHoles, ring and last frame sent apart.
Chained ==
  \A y \in Ttys :
    /\ tx[y] # <<>> => tx[y][1].chunk \in {1, last[y] + 1}
    /\ \A i \in 1 .. Len(tx[y]) - 1 : tx[y][i + 1].chunk \in {1, tx[y][i].chunk + 1}

\* The chunk that a message goes on with follows the one it left behind.
Halfway ==
  \A t \in Tasks :
    Writing(t) /\ job[t].chunk > 1 =>
      legacy[t] \in Ttys /\ owner[legacy[t]] = t /\ EndOf(legacy[t]) = job[t].chunk - 1

IInv ==
  /\ TypeOK /\ TtyIsolation /\ CachedTtyIsOwned /\ Jobs
  /\ Patience /\ Chained /\ Halfway

----------------------------------------------------------------------------
LEMMA InitIInv == Init => IInv
<1> SUFFICES ASSUME Init PROVE IInv
  OBVIOUS
<1> USE ZbusAssumption DEF Init, Ttys, NoTty, Nobody, NoJob
<1>1. TypeOK
  BY DEF TypeOK, Bytes
<1>2. TtyIsolation /\ CachedTtyIsOwned
  BY DEF TtyIsolation, CachedTtyIsOwned
<1>3. Jobs /\ Halfway
  BY DEF Jobs, Halfway, Writing
<1>4. Patience
  BY DEF Patience, Sendable, Attached
<1>5. Chained
  BY DEF Chained
<1>6. QED
  BY <1>1, <1>2, <1>3, <1>4, <1>5 DEF IInv

----------------------------------------------------------------------------
(* Facts about single steps *)

\* The part of TypeOK about the TTYs.
TtyTypes ==
  /\ owner \in [Ttys -> Tasks \cup {Nobody}]
  /\ rx_polling \in [Ttys -> BOOLEAN]
  /\ tx \in [Ttys -> Seq(Frames)] /\ \A y \in Ttys : Len(tx[y]) <= TxSize
  /\ rx \in [Ttys -> Seq(Bytes)]  /\ \A y \in Ttys : Len(rx[y]) <= RxSize
  /\ legacy \in [Tasks -> Ttys \cup {NoTty}]
  /\ last \in [Ttys -> 0 .. MaxChunks] /\ skipped \in [Ttys -> 0 .. MaxTty]

LEMMA TypeOKIsParts ==
  TypeOK <=>
    /\ TtyTypes
    /\ rr_cursor \in Ttys /\ tx_remaining \in 0 .. TxChunk
    /\ pc \in [Tasks -> {"idle", "again", "attach", "write", "flush"}]
    /\ job \in [Tasks -> [tty : Ttys \cup {NoTty}, chunk : 0 .. MaxChunks,
                          chunks : 0 .. MaxChunks]]
    /\ starts \in 0 .. MaxStarts /\ life \in [Tasks -> 0 .. starts]
  BY DEF TypeOK, TtyTypes

\* Rings are emptied, and what they hold keeps its type.
LEMMA RenewTypes ==
  ASSUME TtyTypes, NEW Y, Renew(Y)
  PROVE  /\ tx' \in [Ttys -> Seq(Frames)] /\ \A y \in Ttys : Len(tx'[y]) <= TxSize
         /\ rx' \in [Ttys -> Seq(Bytes)]  /\ \A y \in Ttys : Len(rx'[y]) <= RxSize
         /\ last' \in [Ttys -> 0 .. MaxChunks] /\ skipped' \in [Ttys -> 0 .. MaxTty]
<1> USE DEF TtyTypes, Renew
<1>1. <<>> \in Seq(Frames) /\ <<>> \in Seq(Bytes) /\ Len(<<>>) = 0
  OBVIOUS
<1>2. tx' \in [Ttys -> Seq(Frames)] /\ \A y \in Ttys : Len(tx'[y]) <= TxSize
  BY <1>1, ZbusAssumption DEF Emptied
<1>3. rx' \in [Ttys -> Seq(Bytes)]  /\ \A y \in Ttys : Len(rx'[y]) <= RxSize
  BY <1>1, ZbusAssumption DEF Emptied
<1>4. last' \in [Ttys -> 0 .. MaxChunks] /\ skipped' \in [Ttys -> 0 .. MaxTty]
  BY ZbusAssumption DEF Forgotten
<1>5. QED
  BY <1>2, <1>3, <1>4

LEMMA AttachTypes ==
  ASSUME TtyTypes, NEW y \in Ttys, NEW t \in Tasks, NEW polling \in BOOLEAN,
         Attach(y, t, polling)
  PROVE  TtyTypes'
<1>1. /\ owner' \in [Ttys -> Tasks \cup {Nobody}]
      /\ rx_polling' \in [Ttys -> BOOLEAN]
      /\ legacy' \in [Tasks -> Ttys \cup {NoTty}]
  BY DEF TtyTypes, Attach
<1>2. Renew({y})
  BY DEF Attach
<1>3. QED
  BY <1>1, <1>2, RenewTypes DEF TtyTypes

LEMMA StartTypes ==
  ASSUME TypeOK, NEW t \in Tasks, NEW wanted \in Ttys \cup {AnyTty}, Start(t, wanted)
  PROVE  TypeOK'
<1> USE DEF Start
<1>1. TtyTypes'
  <2>1. ASSUME NEW y \in Ttys, Attach(y, t, TRUE)
        PROVE  TtyTypes'
    BY <2>1, AttachTypes, TypeOKIsParts
  <2>2. CASE UNCHANGED ttyVars
    BY <2>2, TypeOKIsParts DEF ttyVars, TtyTypes
  <2>3. QED
    BY <2>1, <2>2 DEF AttachFor, FreeTtys
<1>2. /\ rr_cursor' \in Ttys /\ tx_remaining' \in 0 .. TxChunk
      /\ pc' \in [Tasks -> {"idle", "again", "attach", "write", "flush"}]
      /\ job' \in [Tasks -> [tty : Ttys \cup {NoTty}, chunk : 0 .. MaxChunks,
                            chunks : 0 .. MaxChunks]]
  BY DEF TypeOK, tickVars
<1>3. starts' \in 0 .. MaxStarts /\ life' \in [Tasks -> 0 .. starts']
  BY ZbusAssumption, SMTT(60) DEF TypeOK
<1>4. QED
  BY <1>1, <1>2, <1>3 DEF TypeOK, TtyTypes

LEMMA RemoveTypes ==
  ASSUME TypeOK, NEW t \in Tasks, Remove(t)
  PROVE  TypeOK'
<1> DEFINE mine == {y \in Ttys : owner[y] = t}
<1> USE DEF Remove
<1>1. TtyTypes /\ Renew(mine)
  BY TypeOKIsParts
<1>2. TtyTypes'
  <2>1. /\ owner' \in [Ttys -> Tasks \cup {Nobody}]
        /\ rx_polling' \in [Ttys -> BOOLEAN]
    BY <1>1 DEF TtyTypes
  <2>2. legacy' \in [Tasks -> Ttys \cup {NoTty}]
    BY <1>1 DEF TtyTypes
  <2>3. QED
    BY <1>1, <2>1, <2>2, RenewTypes DEF TtyTypes
<1>3. /\ rr_cursor' \in Ttys /\ tx_remaining' \in 0 .. TxChunk
      /\ starts' \in 0 .. MaxStarts /\ life' \in [Tasks -> 0 .. starts']
  BY DEF TypeOK, tickVars
<1>4. /\ pc' \in [Tasks -> {"idle", "again", "attach", "write", "flush"}]
      /\ job' \in [Tasks -> [tty : Ttys \cup {NoTty}, chunk : 0 .. MaxChunks,
                            chunks : 0 .. MaxChunks]]
  BY ZbusAssumption DEF TypeOK, NoJob
<1>5. QED
  BY <1>2, <1>3, <1>4 DEF TypeOK, TtyTypes

LEMMA DetachTypes ==
  ASSUME TypeOK, NEW t \in Tasks, Detach(t)
  PROVE  TypeOK'
<1> USE DEF Detach
<1>1. TtyTypes'
  <2>1. PICK y \in Ttys :
          /\ owner'      = [owner EXCEPT ![y] = Nobody]
          /\ rx_polling' = [rx_polling EXCEPT ![y] = FALSE]
          /\ legacy'     = [legacy EXCEPT ![t] = IF @ = y THEN NoTty ELSE @]
          /\ Renew({y})
    OBVIOUS
  <2>2. TtyTypes
    BY TypeOKIsParts
  <2>3. /\ owner' \in [Ttys -> Tasks \cup {Nobody}]
        /\ rx_polling' \in [Ttys -> BOOLEAN]
        /\ legacy' \in [Tasks -> Ttys \cup {NoTty}]
    BY <2>1, <2>2 DEF TtyTypes
  <2>4. QED
    BY <2>1, <2>2, <2>3, RenewTypes DEF TtyTypes
<1>2. QED
  BY <1>1 DEF TypeOK, TtyTypes, tickVars, taskVars, lifeVars

\* What a task does next and with which locals.
PcTypes ==
  /\ pc \in [Tasks -> {"idle", "again", "attach", "write", "flush"}]
  /\ job \in [Tasks -> [tty : Ttys \cup {NoTty}, chunk : 0 .. MaxChunks,
                        chunks : 0 .. MaxChunks]]

LEMMA GotoTypes ==
  ASSUME PcTypes, NEW t \in Tasks,
         NEW to \in {"idle", "again", "attach", "write", "flush"},
         NEW j \in [tty : Ttys \cup {NoTty}, chunk : 0 .. MaxChunks, chunks : 0 .. MaxChunks],
         Goto(t, to, j)
  PROVE  PcTypes'
  BY DEF PcTypes, Goto

LEMMA NoJobType ==
  NoJob \in [tty : Ttys \cup {NoTty}, chunk : 0 .. MaxChunks, chunks : 0 .. MaxChunks]
  BY ZbusAssumption DEF NoJob

\* After a chunk, or a refused attempt, the locals of a write stay in range.
LEMMA ChunkTypes ==
  ASSUME PcTypes, NEW t \in Tasks, NextChunk(t) \/ Refused(t)
  PROVE  PcTypes'
<1> DEFINE Job == [tty : Ttys \cup {NoTty}, chunk : 0 .. MaxChunks, chunks : 0 .. MaxChunks]
<1>1. job[t] \in Job
  BY DEF PcTypes
<1>2. [job[t] EXCEPT !.tty = NoTty] \in Job
  BY <1>1
<1>3. ASSUME job[t].chunk < job[t].chunks
      PROVE  [job[t] EXCEPT !.tty = NoTty, !.chunk = @ + 1] \in Job
  <2>1. job[t].chunk + 1 \in 0 .. MaxChunks
    BY <1>1, <1>3, ZbusAssumption
  <2>2. \A c \in 0 .. MaxChunks : [job[t] EXCEPT !.tty = NoTty, !.chunk = c] \in Job
    BY <1>1
  <2>3. QED
    BY <2>1, <2>2
<1>4. QED
  BY <1>2, <1>3, GotoTypes, NoJobType DEF NextChunk, Refused, SameChunk

LEMMA LookupTypes ==
  ASSUME TypeOK, NEW t \in Tasks,
         NEW j \in [tty : Ttys \cup {NoTty}, chunk : 0 .. MaxChunks, chunks : 0 .. MaxChunks],
         Lookup(t, j)
  PROVE  TypeOK'
<1>1. PcTypes
  BY DEF TypeOK, PcTypes
<1>2. PcTypes'
  <2>1. ASSUME legacy[t] \in Ttys
        PROVE  [j EXCEPT !.tty = legacy[t]] \in
                 [tty : Ttys \cup {NoTty}, chunk : 0 .. MaxChunks, chunks : 0 .. MaxChunks]
    BY <2>1
  <2>2. QED
    BY <1>1, <2>1, GotoTypes DEF Lookup
<1>3. QED
  BY <1>2 DEF Lookup, TypeOK, PcTypes, ttyVars, tickVars, lifeVars

LEMMA AttachSelfTypes ==
  ASSUME TypeOK, NEW t \in Tasks, AttachSelf(t)
  PROVE  TypeOK'
<1> USE DEF AttachSelf
<1>1. TtyTypes /\ PcTypes
  BY TypeOKIsParts DEF PcTypes
<1>2. TtyTypes' /\ PcTypes'
  <2>1. ASSUME NEW y \in Ttys, Attach(y, t, FALSE), Goto(t, "write", [job[t] EXCEPT !.tty = y])
        PROVE  TtyTypes' /\ PcTypes'
    <3>1. [job[t] EXCEPT !.tty = y] \in
            [tty : Ttys \cup {NoTty}, chunk : 0 .. MaxChunks, chunks : 0 .. MaxChunks]
      BY <1>1 DEF PcTypes
    <3>2. QED
      BY <1>1, <2>1, <3>1, AttachTypes, GotoTypes
  <2>2. ASSUME Refused(t), UNCHANGED ttyVars
        PROVE  TtyTypes' /\ PcTypes'
    BY <1>1, <2>2, ChunkTypes DEF TtyTypes, ttyVars
  <2>3. QED
    BY <2>1, <2>2
<1>3. QED
  BY <1>2 DEF TypeOK, TtyTypes, PcTypes, tickVars, lifeVars

LEMMA WriteTypes ==
  ASSUME TypeOK, Jobs, NEW t \in Tasks, WriteTty(t)
  PROVE  TypeOK'
<1> USE DEF WriteTty
<1>1. TtyTypes /\ PcTypes
  BY TypeOKIsParts DEF PcTypes
<1>2. PcTypes'
  BY <1>1, ChunkTypes
<1>3. /\ tx' \in [Ttys -> Seq(Frames)]
      /\ \A y \in Ttys : Len(tx'[y]) <= TxSize
  <2>1. CASE UNCHANGED tx
    BY <1>1, <2>1 DEF TtyTypes
  <2>2. CASE /\ Accepts(t, job[t].tty)
             /\ tx' = [tx EXCEPT ![job[t].tty] = Append(@, Frame(t, job[t].chunk))]
    <3>1. Frame(t, job[t].chunk) \in Frames
      <4>1. life[t] \in 0 .. MaxStarts
        BY ZbusAssumption DEF TypeOK
      <4>2. job[t].chunk \in 1 .. MaxChunks
        BY <1>1 DEF Jobs, Writing, Executes, PcTypes
      <4>3. QED
        BY <4>1, <4>2 DEF Frame, Frames
    <3>2. PICK y \in Ttys : y = job[t].tty /\ Len(tx[y]) < TxSize
      BY <2>2 DEF Accepts
    <3>3. tx[y] \in Seq(Frames)
      BY <1>1 DEF TtyTypes
    <3>4. Append(tx[y], Frame(t, job[t].chunk)) \in Seq(Frames)
      BY <3>1, <3>3
    <3>5. Len(Append(tx[y], Frame(t, job[t].chunk))) = Len(tx[y]) + 1
      BY <3>1, <3>3
    <3>6. tx' = [tx EXCEPT ![y] = Append(tx[y], Frame(t, job[t].chunk))]
      BY <2>2, <3>2
    <3>7. Len(tx[y]) + 1 <= TxSize
      BY <3>2, <3>3, ZbusAssumption
    <3>8. QED
      BY <1>1, <3>4, <3>5, <3>6, <3>7 DEF TtyTypes
  <2>3. QED
    BY <2>1, <2>2
<1>4. QED
  BY <1>2, <1>3 DEF TypeOK, PcTypes, tickVars, lifeVars

LEMMA ReadTypes ==
  ASSUME TypeOK, NEW t \in Tasks, NEW n \in RxLens, ReadTty(t, n)
  PROVE  TypeOK'
<1> USE DEF ReadTty
<1>1. PICK y \in Ttys :
        rx' = [rx EXCEPT ![y] =
                 IF Len(rx[y]) <= n THEN <<>> ELSE SubSeq(rx[y], n + 1, Len(rx[y]))]
  OBVIOUS
<1>2. rx[y] \in Seq(Bytes) /\ Len(rx[y]) \in Nat /\ Len(rx[y]) <= RxSize
  BY DEF TypeOK
<1>3. n \in Nat \ {0} /\ RxSize \in Nat
  BY ZbusAssumption
<1>4. ASSUME Len(rx[y]) > n
      PROVE  /\ SubSeq(rx[y], n + 1, Len(rx[y])) \in Seq(Bytes)
             /\ Len(SubSeq(rx[y], n + 1, Len(rx[y]))) = Len(rx[y]) - n
  <2>1. \A i \in n + 1 .. Len(rx[y]) : rx[y][i] \in Bytes
    BY <1>2, <1>3
  <2>2. n + 1 \in Int /\ Len(rx[y]) \in Int
    BY <1>2, <1>3
  <2>3. QED
    BY <1>2, <1>3, <1>4, <2>1, <2>2, SubSeqProperties
<1>5. rx' \in [Ttys -> Seq(Bytes)] /\ \A z \in Ttys : Len(rx'[z]) <= RxSize
  <2>1. CASE Len(rx[y]) <= n
    <3>1. rx' = [rx EXCEPT ![y] = <<>>]
      BY <1>1, <2>1
    <3>2. <<>> \in Seq(Bytes) /\ Len(<<>>) <= RxSize
      BY <1>3
    <3>3. QED
      BY <3>1, <3>2 DEF TypeOK
  <2>2. CASE Len(rx[y]) > n
    <3>0. ~(Len(rx[y]) <= n)
      BY <1>2, <1>3, <2>2
    <3>1. rx' = [rx EXCEPT ![y] = SubSeq(rx[y], n + 1, Len(rx[y]))]
      BY <1>1, <3>0, Zenon
    <3>2. Len(rx[y]) - n <= RxSize
      BY <1>2, <1>3
    <3>3. QED
      BY <1>4, <2>2, <3>1, <3>2 DEF TypeOK
  <2>3. QED
    BY <1>2, <1>3, <2>1, <2>2
<1>6. QED
  BY <1>5 DEF TypeOK, tickVars, taskVars, lifeVars

LEMMA TickTxTypes ==
  ASSUME TypeOK, TickTx
  PROVE  TypeOK'
<1> USE DEF TickTx
<1>1. PICK y \in Ttys :
        /\ NextTty(y)
        /\ tx'   = [tx EXCEPT ![y] = Tail(@)]
        /\ last' = [last EXCEPT ![y] = Head(tx[y]).chunk]
        /\ rr_cursor' = Advance(y)
        /\ skipped' = [z \in Ttys |-> IF z # y /\ Sendable(z) THEN OneMore(skipped[z]) ELSE 0]
  OBVIOUS
<1>2. tx[y] \in Seq(Frames) /\ tx[y] # <<>> /\ Len(tx[y]) <= TxSize
  BY <1>1 DEF NextTty, Sendable, TypeOK
<1>3. Head(tx[y]) \in Frames /\ Tail(tx[y]) \in Seq(Frames) /\ Len(Tail(tx[y])) = Len(tx[y]) - 1
  BY <1>2, HeadTailProperties
<1>4. tx' \in [Ttys -> Seq(Frames)] /\ \A z \in Ttys : Len(tx'[z]) <= TxSize
  <2>1. tx' = [tx EXCEPT ![y] = Tail(tx[y])]
    BY <1>1
  <2>2. Len(Tail(tx[y])) <= TxSize
    BY <1>2, <1>3, ZbusAssumption
  <2>3. QED
    BY <1>3, <2>1, <2>2 DEF TypeOK
<1>5. last' \in [Ttys -> 0 .. MaxChunks]
  <2>1. last' = [last EXCEPT ![y] = Head(tx[y]).chunk]
    BY <1>1
  <2>2. Head(tx[y]).chunk \in 0 .. MaxChunks
    BY <1>3, ZbusAssumption DEF Frames
  <2>3. QED
    BY <2>1, <2>2 DEF TypeOK
<1>6. skipped' \in [Ttys -> 0 .. MaxTty]
  <2>1. ASSUME NEW z \in Ttys
        PROVE  OneMore(skipped[z]) \in 0 .. MaxTty /\ 0 \in 0 .. MaxTty
    <3>1. skipped[z] \in 0 .. MaxTty
      BY DEF TypeOK
    <3>2. QED
      BY <3>1, ZbusAssumption DEF OneMore
  <2>2. skipped' = [z \in Ttys |-> IF z # y /\ Sendable(z) THEN OneMore(skipped[z]) ELSE 0]
    BY <1>1
  <2>3. QED
    BY <2>1, <2>2
<1>7. rr_cursor' \in Ttys /\ tx_remaining' \in 0 .. TxChunk
  BY <1>1, ZbusAssumption DEF TypeOK, Advance, Ttys
<1>8. QED
  BY <1>4, <1>5, <1>6, <1>7 DEF TypeOK, taskVars, lifeVars

\* What a frame from the host leaves in the ring of TTY y.
LEMMA EnqueuedProperties ==
  ASSUME TypeOK, NEW y \in Ttys, Attached(y), NEW n \in RxLens
  PROVE  /\ Enqueued(y, n) \in Seq(Bytes)
         /\ Len(Enqueued(y, n)) <= RxSize
         /\ \A i \in 1 .. Len(Enqueued(y, n)) :
              Enqueued(y, n)[i] = IF i <= Len(rx[y]) THEN rx[y][i] ELSE Byte(y)
<1> DEFINE room == RxSize - Len(rx[y])
           k    == IF n <= room THEN n ELSE room
           more == [i \in 1 .. k |-> Byte(y)]
<1>1. rx[y] \in Seq(Bytes) /\ Len(rx[y]) \in Nat /\ Len(rx[y]) <= RxSize /\ RxSize \in Nat
  BY ZbusAssumption DEF TypeOK
<1>2. n \in Nat
  BY ZbusAssumption
<1>3. k \in Nat /\ Len(rx[y]) + k <= RxSize
  <2>1. ASSUME NEW len \in Nat, NEW size \in Nat, NEW m \in Nat, len <= size
        PROVE  LET j == IF m <= size - len THEN m ELSE size - len
               IN  j \in Nat /\ len + j <= size
    BY <2>1
  <2>2. QED
    BY <1>1, <1>2, <2>1
<1>4. Byte(y) \in Bytes
  <2>1. owner[y] \in Tasks
    BY DEF TypeOK, Attached
  <2>2. life[owner[y]] \in 0 .. starts /\ starts \in 0 .. MaxStarts
    BY <2>1 DEF TypeOK
  <2>3. QED
    BY <2>2, ZbusAssumption DEF Byte, Bytes
<1>5. more \in Seq(Bytes) /\ Len(more) = k /\ \A i \in 1 .. k : more[i] = Byte(y)
  <2> HIDE DEF k
  <2>1. QED
    BY <1>3, <1>4
<1>6. Enqueued(y, n) = rx[y] \o more
  BY DEF Enqueued
<1> HIDE DEF more, k
<1>7. /\ rx[y] \o more \in Seq(Bytes)
      /\ Len(rx[y] \o more) = Len(rx[y]) + k
      /\ \A i \in 1 .. Len(rx[y]) + k :
           (rx[y] \o more)[i] = IF i <= Len(rx[y]) THEN rx[y][i] ELSE more[i - Len(rx[y])]
  BY <1>1, <1>5, ConcatProperties, ZenonT(60)
<1>8. ASSUME NEW i \in 1 .. Len(rx[y]) + k
      PROVE  (rx[y] \o more)[i] = IF i <= Len(rx[y]) THEN rx[y][i] ELSE Byte(y)
  BY <1>1, <1>3, <1>5, <1>7
<1>9. QED
  BY <1>3, <1>6, <1>7, <1>8

LEMMA TickRxTypes ==
  ASSUME TypeOK, TickRx
  PROVE  TypeOK'
<1> USE DEF TickRx
<1>1. rx' \in [Ttys -> Seq(Bytes)] /\ \A z \in Ttys : Len(rx'[z]) <= RxSize
  <2>1. CASE UNCHANGED rx
    BY <2>1 DEF TypeOK
  <2>2. ASSUME NEW y \in Ttys, NEW n \in RxLens, Attached(y),
               rx' = [rx EXCEPT ![y] = Enqueued(y, n)]
        PROVE  rx' \in [Ttys -> Seq(Bytes)] /\ \A z \in Ttys : Len(rx'[z]) <= RxSize
    BY <2>2, EnqueuedProperties DEF TypeOK
  <2>3. QED
    BY <2>1, <2>2
<1>2. tx_remaining' \in 0 .. TxChunk
  BY ZbusAssumption
<1>3. QED
  BY <1>1, <1>2 DEF TypeOK, taskVars, lifeVars

LEMMA NextTypes ==
  ASSUME TypeOK, Jobs, [Next]_vars
  PROVE  TypeOK'
<1>1. ASSUME NEW t \in Tasks, NEW n \in 1 .. MaxChunks, BeginWrite(t, n)
      PROVE  TypeOK'
  <2>1. [tty |-> NoTty, chunk |-> 1, chunks |-> n] \in
          [tty : Ttys \cup {NoTty}, chunk : 0 .. MaxChunks, chunks : 0 .. MaxChunks]
    BY ZbusAssumption
  <2>2. QED
    BY <1>1, <2>1, LookupTypes DEF BeginWrite
<1>2. ASSUME NEW t \in Tasks, ContinueWrite(t)
      PROVE  TypeOK'
  BY <1>2, LookupTypes DEF ContinueWrite, TypeOK
<1>3. ASSUME NEW t \in Tasks, BeginFlush(t) \/ EndFlush(t)
      PROVE  TypeOK'
  <2>1. PcTypes'
    BY <1>3, GotoTypes, NoJobType DEF BeginFlush, EndFlush, TypeOK, PcTypes
  <2>2. QED
    BY <1>3, <2>1 DEF BeginFlush, EndFlush, TypeOK, PcTypes, ttyVars, tickVars, lifeVars
<1>4. ASSUME NEW t \in Tasks, NEW enabled \in BOOLEAN, SetRxPolling(t, enabled)
      PROVE  TypeOK'
  BY <1>4 DEF SetRxPolling, TypeOK, tickVars, taskVars, lifeVars
<1>5. CASE UNCHANGED vars
  BY <1>5 DEF vars, TypeOK, ttyVars, tickVars, taskVars, lifeVars
<1>6. CASE Tick
  BY <1>6, TickTxTypes, TickRxTypes DEF Tick
<1>7. ASSUME NEW t \in Tasks, TaskStep(t)
      PROVE  TypeOK'
  <2>1. CASE \E n \in 1 .. MaxChunks : BeginWrite(t, n)
    BY <1>1, <2>1
  <2>2. CASE \E n \in RxLens : ReadTty(t, n)
    BY <2>2, ReadTypes
  <2>3. CASE \E enabled \in BOOLEAN : SetRxPolling(t, enabled)
    BY <1>4, <2>3
  <2>4. CASE ContinueWrite(t) \/ BeginFlush(t) \/ EndFlush(t)
    BY <1>2, <1>3, <2>4
  <2>5. CASE AttachSelf(t) \/ WriteTty(t) \/ Detach(t)
    BY <2>5, DetachTypes, AttachSelfTypes, WriteTypes
  <2>6. QED
    BY <1>7, <2>1, <2>2, <2>3, <2>4, <2>5 DEF TaskStep
<1>8. ASSUME NEW t \in Tasks, Remove(t) \/ \E wanted \in Ttys \cup {AnyTty} : Start(t, wanted)
      PROVE  TypeOK'
  BY <1>8, StartTypes, RemoveTypes
<1>9. QED
  BY <1>5, <1>6, <1>7, <1>8 DEF Next

----------------------------------------------------------------------------
(* Isolation *)

\* TtyIsolation of one TTY.
Isolated(y) ==
  LET holder == IF owner[y] \in Tasks THEN life[owner[y]] ELSE 0
  IN  /\ owner[y] \in Tasks => holder # 0
      /\ \A i \in 1 .. Len(tx[y]) : holder # 0 /\ tx[y][i].life = holder
      /\ \A i \in 1 .. Len(rx[y]) : holder # 0 /\ rx[y][i] = holder

LEMMA IsolationByTty ==
  /\ TtyIsolation <=> \A y \in Ttys : Isolated(y)
  /\ TtyIsolation' <=> \A y \in Ttys : Isolated(y)'
  BY DEF TtyIsolation, Isolated

\* A TTY that a step leaves alone, with the life of its owner.
LEMMA Untouched ==
  ASSUME NEW y \in Ttys, Isolated(y),
         owner'[y] = owner[y], tx'[y] = tx[y], rx'[y] = rx[y],
         owner[y] \in Tasks => life'[owner[y]] = life[owner[y]]
  PROVE  Isolated(y)'
  BY DEF Isolated

\* A TTY whose rings a step empties.
LEMMA Cleared ==
  ASSUME NEW y \in Ttys, tx'[y] = <<>>, rx'[y] = <<>>,
         owner'[y] \in Tasks => life'[owner'[y]] # 0
  PROVE  Isolated(y)'
  BY DEF Isolated

LEMMA StartIsolation ==
  ASSUME TypeOK, TtyIsolation, NEW t \in Tasks, NEW wanted \in Ttys \cup {AnyTty},
         Start(t, wanted)
  PROVE  TtyIsolation'
<1>1. life[t] = 0 /\ life'[t] # 0 /\ \A u \in Tasks : u # t => life'[u] = life[u]
  BY ZbusAssumption DEF TypeOK, Start
<1>2. \A z \in Ttys : Isolated(z) /\ owner[z] # t
  BY <1>1, IsolationByTty DEF Isolated
<1>3. CASE UNCHANGED ttyVars
  BY <1>1, <1>2, <1>3, Untouched, IsolationByTty DEF ttyVars
<1>4. ASSUME NEW y \in Ttys, Attach(y, t, TRUE)
      PROVE  TtyIsolation'
  <2>1. /\ owner'[y] = t /\ tx'[y] = <<>> /\ rx'[y] = <<>>
        /\ \A z \in Ttys : z # y => owner'[z] = owner[z] /\ tx'[z] = tx[z] /\ rx'[z] = rx[z]
    BY <1>4 DEF Attach, Renew, Emptied, TypeOK
  <2>2. Isolated(y)'
    BY <1>1, <2>1, Cleared
  <2>3. ASSUME NEW z \in Ttys, z # y
        PROVE  Isolated(z)'
    BY <1>1, <1>2, <2>1, <2>3, Untouched
  <2>4. QED
    BY <2>2, <2>3, IsolationByTty
<1>5. QED
  BY <1>3, <1>4 DEF Start, AttachFor, FreeTtys

LEMMA RemoveIsolation ==
  ASSUME TypeOK, TtyIsolation, NEW t \in Tasks, Remove(t)
  PROVE  TtyIsolation'
<1> DEFINE mine == {y \in Ttys : owner[y] = t}
<1>1. /\ \A u \in Tasks : u # t => life'[u] = life[u]
      /\ owner' = [y \in Ttys |-> IF y \in mine THEN Nobody ELSE owner[y]]
      /\ Renew(mine)
  BY DEF Remove, TypeOK
<1>2. ASSUME NEW y \in Ttys, owner[y] = t
      PROVE  Isolated(y)'
  <2>1. owner'[y] = Nobody /\ tx'[y] = <<>> /\ rx'[y] = <<>>
    BY <1>1, <1>2 DEF Renew, Emptied
  <2>2. Nobody \notin Tasks
    BY ZbusAssumption DEF Nobody
  <2>3. QED
    BY <2>1, <2>2, Cleared
<1>3. ASSUME NEW y \in Ttys, owner[y] # t
      PROVE  Isolated(y)'
  <2>1. owner'[y] = owner[y] /\ tx'[y] = tx[y] /\ rx'[y] = rx[y]
    BY <1>1, <1>3 DEF Renew, Emptied
  <2>2. owner[y] \in Tasks => life'[owner[y]] = life[owner[y]]
    BY <1>1, <1>3
  <2>3. Isolated(y)
    BY IsolationByTty
  <2>4. QED
    BY <2>1, <2>2, <2>3, Untouched
<1>4. QED
  BY <1>2, <1>3, IsolationByTty

LEMMA DetachIsolation ==
  ASSUME TypeOK, TtyIsolation, NEW t \in Tasks, Detach(t)
  PROVE  TtyIsolation'
<1>1. PICK y \in Ttys : owner' = [owner EXCEPT ![y] = Nobody] /\ Renew({y})
  BY DEF Detach
<1>2. life' = life
  BY DEF Detach, taskVars, lifeVars
<1>3. Isolated(y)'
  <2>1. owner'[y] = Nobody /\ tx'[y] = <<>> /\ rx'[y] = <<>>
    BY <1>1 DEF Renew, Emptied, TypeOK
  <2>2. Nobody \notin Tasks
    BY ZbusAssumption DEF Nobody
  <2>3. QED
    BY <2>1, <2>2, Cleared
<1>4. ASSUME NEW z \in Ttys, z # y
      PROVE  Isolated(z)'
  <2>1. owner'[z] = owner[z] /\ tx'[z] = tx[z] /\ rx'[z] = rx[z]
    BY <1>1, <1>4 DEF Renew, Emptied, TypeOK
  <2>2. QED
    BY <1>2, <2>1, Untouched, IsolationByTty
<1>5. QED
  BY <1>3, <1>4, IsolationByTty

LEMMA AttachSelfIsolation ==
  ASSUME TypeOK, TtyIsolation, NEW t \in Tasks, AttachSelf(t)
  PROVE  TtyIsolation'
<1>1. life' = life /\ life[t] # 0
  BY DEF AttachSelf, Executes, lifeVars
<1>2. CASE UNCHANGED ttyVars
  BY <1>1, <1>2, Untouched, IsolationByTty DEF ttyVars
<1>3. ASSUME NEW y \in Ttys, Attach(y, t, FALSE)
      PROVE  TtyIsolation'
  <2>1. /\ owner'[y] = t /\ tx'[y] = <<>> /\ rx'[y] = <<>>
        /\ \A z \in Ttys : z # y => owner'[z] = owner[z] /\ tx'[z] = tx[z] /\ rx'[z] = rx[z]
    BY <1>3 DEF Attach, Renew, Emptied, TypeOK
  <2>2. Isolated(y)'
    BY <1>1, <2>1, Cleared
  <2>3. ASSUME NEW z \in Ttys, z # y
        PROVE  Isolated(z)'
    BY <1>1, <2>1, <2>3, Untouched, IsolationByTty
  <2>4. QED
    BY <2>2, <2>3, IsolationByTty
<1>4. QED
  BY <1>2, <1>3 DEF AttachSelf

LEMMA WriteIsolation ==
  ASSUME TypeOK, Jobs, TtyIsolation, NEW t \in Tasks, WriteTty(t)
  PROVE  TtyIsolation'
<1>1. UNCHANGED <<owner, rx, life>> /\ life[t] # 0
  BY DEF WriteTty, Executes, lifeVars
<1>2. CASE UNCHANGED tx
  BY <1>1, <1>2, Untouched, IsolationByTty
<1>3. ASSUME NEW y \in Ttys, owner[y] = t,
             tx' = [tx EXCEPT ![y] = Append(@, Frame(t, job[t].chunk))]
      PROVE  TtyIsolation'
  <2>1. tx[y] \in Seq(Frames) /\ tx'[y] = Append(tx[y], Frame(t, job[t].chunk))
    BY <1>3 DEF TypeOK
  <2>2. /\ Len(tx'[y]) = Len(tx[y]) + 1
        /\ \A i \in 1 .. Len(tx[y]) : tx'[y][i] = tx[y][i]
        /\ tx'[y][Len(tx[y]) + 1].life = life[t]
    BY <2>1 DEF Frame
  <2>3. \A i \in 1 .. Len(tx[y]) + 1 : i \in 1 .. Len(tx[y]) \/ i = Len(tx[y]) + 1
    BY <2>1
  <2>4. Isolated(y)'
    BY <1>1, <1>3, <2>2, <2>3, IsolationByTty DEF Isolated
  <2>5. ASSUME NEW z \in Ttys, z # y
        PROVE  Isolated(z)'
    <3>1. tx'[z] = tx[z]
      BY <1>3, <2>5 DEF TypeOK
    <3>2. QED
      BY <1>1, <3>1, Untouched, IsolationByTty
  <2>6. QED
    BY <2>4, <2>5, IsolationByTty
<1>4. QED
  BY <1>2, <1>3 DEF WriteTty, Accepts

LEMMA ReadIsolation ==
  ASSUME TypeOK, TtyIsolation, NEW t \in Tasks, NEW n \in RxLens, ReadTty(t, n)
  PROVE  TtyIsolation'
<1>1. PICK y \in Ttys :
        rx' = [rx EXCEPT ![y] =
                 IF Len(rx[y]) <= n THEN <<>> ELSE SubSeq(rx[y], n + 1, Len(rx[y]))]
  BY DEF ReadTty
<1>2. UNCHANGED <<owner, tx, life>>
  BY DEF ReadTty, taskVars, lifeVars
<1>3. rx[y] \in Seq(Bytes) /\ Len(rx[y]) \in Nat /\ n \in Nat
  BY ZbusAssumption DEF TypeOK
<1>4. \A i \in 1 .. Len(rx'[y]) : \E j \in 1 .. Len(rx[y]) : rx'[y][i] = rx[y][j]
  <2>1. CASE Len(rx[y]) <= n
    <3>1. rx'[y] = <<>>
      BY <1>1, <2>1 DEF TypeOK
    <3>2. QED
      BY <3>1
  <2>2. CASE ~(Len(rx[y]) <= n)
    <3>1. rx'[y] = SubSeq(rx[y], n + 1, Len(rx[y]))
      BY <1>1, <2>2 DEF TypeOK
    <3>2. \A i \in n + 1 .. Len(rx[y]) : rx[y][i] \in Bytes
      BY <1>3
    <3>3. n + 1 \in Int /\ Len(rx[y]) \in Int
      BY <1>3
    <3>4. /\ Len(rx'[y]) = IF n + 1 <= Len(rx[y]) THEN Len(rx[y]) - (n + 1) + 1 ELSE 0
          /\ \A i \in 1 .. Len(rx[y]) - (n + 1) + 1 : rx'[y][i] = rx[y][(n + 1) + i - 1]
      BY <3>1, <3>2, <3>3, SubSeqProperties
    <3>5. Len(rx'[y]) = Len(rx[y]) - n
      BY <1>3, <2>2, <3>4
    <3>6. ASSUME NEW i \in 1 .. Len(rx'[y])
          PROVE  (n + 1) + i - 1 \in 1 .. Len(rx[y]) /\ rx'[y][i] = rx[y][(n + 1) + i - 1]
      BY <1>3, <2>2, <3>4, <3>5
    <3>7. QED
      BY <3>6
  <2>3. QED
    BY <2>1, <2>2
<1>5. Isolated(y)'
  BY <1>2, <1>4, IsolationByTty DEF Isolated
<1>6. ASSUME NEW z \in Ttys, z # y
      PROVE  Isolated(z)'
  <2>1. rx'[z] = rx[z]
    BY <1>1, <1>6 DEF TypeOK
  <2>2. QED
    BY <1>2, <2>1, Untouched, IsolationByTty
<1>7. QED
  BY <1>5, <1>6, IsolationByTty

LEMMA TickTxIsolation ==
  ASSUME TypeOK, TtyIsolation, TickTx
  PROVE  TtyIsolation'
<1>1. PICK y \in Ttys : NextTty(y) /\ tx' = [tx EXCEPT ![y] = Tail(@)]
  BY DEF TickTx
<1>2. UNCHANGED <<owner, rx, life>>
  BY DEF TickTx, taskVars, lifeVars
<1>3. tx[y] \in Seq(Frames) /\ tx[y] # <<>> /\ tx'[y] = Tail(tx[y])
  BY <1>1 DEF NextTty, Sendable, TypeOK
<1>4. /\ Len(tx[y]) \in Nat /\ Len(tx'[y]) = Len(tx[y]) - 1
      /\ \A i \in 1 .. Len(tx'[y]) : tx'[y][i] = tx[y][i + 1]
  BY <1>3, HeadTailProperties
<1>5. \A i \in 1 .. Len(tx'[y]) : i + 1 \in 1 .. Len(tx[y])
  BY <1>4
<1>6. Isolated(y)'
  BY <1>2, <1>4, <1>5, IsolationByTty, SMTT(60) DEF Isolated
<1>7. ASSUME NEW z \in Ttys, z # y
      PROVE  Isolated(z)'
  <2>1. tx'[z] = tx[z]
    BY <1>1, <1>7 DEF TypeOK
  <2>2. QED
    BY <1>2, <2>1, Untouched, IsolationByTty
<1>8. QED
  BY <1>6, <1>7, IsolationByTty

LEMMA TickRxIsolation ==
  ASSUME TypeOK, TtyIsolation, TickRx
  PROVE  TtyIsolation'
<1>1. UNCHANGED <<owner, tx, life>>
  BY DEF TickRx, taskVars, lifeVars
<1>2. CASE UNCHANGED rx
  BY <1>1, <1>2, Untouched, IsolationByTty
<1>3. ASSUME NEW y \in Ttys, NEW n \in RxLens, Attached(y),
             rx' = [rx EXCEPT ![y] = Enqueued(y, n)]
      PROVE  TtyIsolation'
  <2>1. rx'[y] = Enqueued(y, n)
    BY <1>3 DEF TypeOK
  <2>2. owner[y] \in Tasks /\ Byte(y) = life[owner[y]] /\ Isolated(y)
    BY <1>3, IsolationByTty DEF TypeOK, Attached, Byte
  <2>3. Len(rx[y]) \in Nat /\ Len(Enqueued(y, n)) \in Nat
    BY <1>3, EnqueuedProperties, SMTT(60) DEF TypeOK
  <2>4. ASSUME NEW i \in 1 .. Len(Enqueued(y, n))
        PROVE  Enqueued(y, n)[i] = life[owner[y]]
    <3>1. Enqueued(y, n)[i] = IF i <= Len(rx[y]) THEN rx[y][i] ELSE Byte(y)
      BY <1>3, EnqueuedProperties
    <3>2. i <= Len(rx[y]) => i \in 1 .. Len(rx[y])
      BY <2>3
    <3>3. QED
      BY <2>2, <3>1, <3>2 DEF Isolated
  <2>5. Isolated(y)'
    BY <1>1, <2>1, <2>2, <2>4 DEF Isolated
  <2>6. ASSUME NEW z \in Ttys, z # y
        PROVE  Isolated(z)'
    <3>1. rx'[z] = rx[z]
      BY <1>3, <2>6 DEF TypeOK
    <3>2. QED
      BY <1>1, <3>1, Untouched, IsolationByTty
  <2>7. QED
    BY <2>5, <2>6, IsolationByTty
<1>4. QED
  BY <1>2, <1>3 DEF TickRx

LEMMA NextIsolation ==
  ASSUME TypeOK, Jobs, TtyIsolation, [Next]_vars
  PROVE  TtyIsolation'
\* Most steps of the tasks touch neither owners nor rings.
<1>1. CASE UNCHANGED <<owner, tx, rx, life>>
  BY <1>1, Untouched, IsolationByTty
<1>2. ASSUME NEW t \in Tasks, TaskStep(t)
      PROVE  TtyIsolation'
  <2>1. CASE \E n \in 1 .. MaxChunks : BeginWrite(t, n)
    BY <1>1, <2>1 DEF BeginWrite, Lookup, ttyVars, lifeVars
  <2>2. CASE \E n \in RxLens : ReadTty(t, n)
    BY <2>2, ReadIsolation
  <2>3. CASE \E enabled \in BOOLEAN : SetRxPolling(t, enabled)
    BY <1>1, <2>3 DEF SetRxPolling, taskVars, lifeVars
  <2>4. CASE ContinueWrite(t) \/ BeginFlush(t) \/ EndFlush(t)
    BY <1>1, <2>4 DEF ContinueWrite, Lookup, BeginFlush, EndFlush, ttyVars, lifeVars
  <2>5. CASE AttachSelf(t) \/ WriteTty(t) \/ Detach(t)
    BY <2>5, DetachIsolation, AttachSelfIsolation, WriteIsolation
  <2>6. QED
    BY <1>2, <2>1, <2>2, <2>3, <2>4, <2>5 DEF TaskStep
<1>3. ASSUME NEW t \in Tasks, Remove(t) \/ \E wanted \in Ttys \cup {AnyTty} : Start(t, wanted)
      PROVE  TtyIsolation'
  BY <1>3, StartIsolation, RemoveIsolation
<1>4. CASE Tick
  BY <1>4, TickTxIsolation, TickRxIsolation DEF Tick
<1>5. CASE UNCHANGED vars
  BY <1>1, <1>5 DEF vars, ttyVars, taskVars, lifeVars
<1>6. QED
  BY <1>2, <1>3, <1>4, <1>5 DEF Next

----------------------------------------------------------------------------
(* Tasks and the TTYs they use *)

\* CachedTtyIsOwned, Jobs and Halfway of one task.
Settled(t) ==
  /\ legacy[t] \in Ttys => owner[legacy[t]] = t
  /\ Writing(t) => job[t].chunk >= 1 /\ job[t].chunk <= job[t].chunks
  /\ pc[t] = "attach" => job[t].chunk = 1
  /\ life[t] = 0 => pc[t] = "idle"
  /\ pc[t] = "write" => job[t].tty \in Ttys /\ job[t].tty = legacy[t]
  /\ Writing(t) /\ job[t].chunk > 1 =>
       legacy[t] \in Ttys /\ EndOf(legacy[t]) = job[t].chunk - 1

LEMMA SettledByTask ==
  /\ CachedTtyIsOwned /\ Jobs /\ Halfway <=> \A t \in Tasks : Settled(t)
  /\ (CachedTtyIsOwned /\ Jobs /\ Halfway)' <=> \A t \in Tasks : Settled(t)'
  BY DEF CachedTtyIsOwned, Jobs, Halfway, Settled

\* A task that a step leaves alone, with the TTY it uses.
LEMMA Bystander ==
  ASSUME NEW u \in Tasks, Settled(u),
         legacy'[u] = legacy[u], pc'[u] = pc[u], job'[u] = job[u],
         life'[u] = 0 => life[u] = 0 \/ pc[u] = "idle",
         \A y \in Ttys : owner[y] = u => owner'[y] = u /\ EndOf(y)' = EndOf(y)
  PROVE  Settled(u)'
  BY DEF Settled, Writing

LEMMA EndUntouched ==
  ASSUME NEW y \in Ttys, tx'[y] = tx[y], last'[y] = last[y]
  PROVE  EndOf(y)' = EndOf(y)
  BY DEF EndOf

\* What attaching y does to the other TTYs and to the other tasks.
LEMMA AttachSettled ==
  ASSUME TypeOK, \A u \in Tasks : Settled(u),
         NEW y \in Ttys, NEW t \in Tasks, NEW polling \in BOOLEAN,
         ~Attached(y), Attach(y, t, polling),
         NEW u \in Tasks, u # t, pc'[u] = pc[u], job'[u] = job[u], life'[u] = life[u]
  PROVE  Settled(u)'
<1>1. legacy'[u] = legacy[u]
  BY DEF Attach, TypeOK
<1>2. u # Nobody
  BY ZbusAssumption DEF Nobody
<1>3. ASSUME NEW z \in Ttys, owner[z] = u
      PROVE  owner'[z] = u /\ EndOf(z)' = EndOf(z)
  <2>1. z # y
    BY <1>2, <1>3 DEF Attached
  <2>2. owner'[z] = owner[z] /\ tx'[z] = tx[z] /\ last'[z] = last[z]
    BY <2>1 DEF Attach, Renew, Emptied, Forgotten, TypeOK
  <2>3. QED
    BY <1>3, <2>2, EndUntouched
<1>4. QED
  BY <1>1, <1>3, Bystander

LEMMA StartSettled ==
  ASSUME TypeOK, \A u \in Tasks : Settled(u),
         NEW t \in Tasks, NEW wanted \in Ttys \cup {AnyTty}, Start(t, wanted)
  PROVE  \A u \in Tasks : Settled(u)'
<1>1. UNCHANGED <<pc, job>> /\ pc[t] = "idle" /\ life[t] = 0
  BY DEF Start, Settled
<1>2. \A u \in Tasks : u # t => life'[u] = life[u]
  BY DEF Start, TypeOK
<1>3. life'[t] # 0
  BY ZbusAssumption DEF Start, TypeOK
<1>4. CASE UNCHANGED ttyVars
  BY <1>1, <1>2, <1>3, <1>4, Bystander, EndUntouched DEF ttyVars
<1>5. ASSUME NEW y \in Ttys, ~Attached(y), Attach(y, t, TRUE)
      PROVE  \A u \in Tasks : Settled(u)'
  <2>1. legacy'[t] = y /\ owner'[y] = t
    BY <1>5 DEF Attach, TypeOK
  <2>2. Settled(t)'
    BY <1>1, <2>1 DEF Settled, Writing
  <2>3. QED
    BY <1>1, <1>2, <1>5, <2>2, AttachSettled
<1>6. QED
  BY <1>4, <1>5 DEF Start, AttachFor, FirstFree, FreeTtys

LEMMA RemoveSettled ==
  ASSUME TypeOK, \A u \in Tasks : Settled(u), NEW t \in Tasks, Remove(t)
  PROVE  \A u \in Tasks : Settled(u)'
<1> DEFINE mine == {y \in Ttys : owner[y] = t}
<1>1. Settled(t)'
  <2>1. legacy'[t] = NoTty /\ pc'[t] = "idle"
    BY DEF Remove, TypeOK
  <2>2. NoTty \notin Ttys
    BY ZbusAssumption DEF NoTty, Ttys
  <2>3. QED
    BY <2>1, <2>2 DEF Settled, Writing
<1>2. ASSUME NEW u \in Tasks, u # t
      PROVE  Settled(u)'
  <2>1. legacy'[u] = legacy[u] /\ pc'[u] = pc[u] /\ job'[u] = job[u] /\ life'[u] = life[u]
    BY <1>2 DEF Remove, TypeOK
  <2>2. ASSUME NEW y \in Ttys, owner[y] = u
        PROVE  owner'[y] = u /\ EndOf(y)' = EndOf(y)
    <3>1. y \notin mine
      BY <1>2, <2>2
    <3>2. Renew(mine) /\ owner' = [z \in Ttys |-> IF z \in mine THEN Nobody ELSE owner[z]]
      BY DEF Remove
    <3>3. owner'[y] = u /\ tx'[y] = tx[y] /\ last'[y] = last[y]
      BY <2>2, <3>1, <3>2 DEF Renew, Emptied, Forgotten
    <3>4. QED
      BY <3>3, EndUntouched
  <2>3. QED
    BY <2>1, <2>2, Bystander
<1>3. QED
  BY <1>1, <1>2

LEMMA DetachSettled ==
  ASSUME TypeOK, \A u \in Tasks : Settled(u), NEW t \in Tasks, Detach(t)
  PROVE  \A u \in Tasks : Settled(u)'
<1>1. PICK y \in Ttys :
        /\ owner[y] = t
        /\ owner' = [owner EXCEPT ![y] = Nobody]
        /\ legacy' = [legacy EXCEPT ![t] = IF @ = y THEN NoTty ELSE @]
        /\ Renew({y})
  BY DEF Detach
<1>2. pc[t] = "idle" /\ UNCHANGED <<pc, job, life>>
  BY DEF Detach, Executes, taskVars, lifeVars
<1>3. \A z \in Ttys : z # y => owner'[z] = owner[z] /\ tx'[z] = tx[z] /\ last'[z] = last[z]
  BY <1>1 DEF Renew, Emptied, Forgotten, TypeOK
<1>4. Settled(t)'
  <2>1. legacy'[t] = IF legacy[t] = y THEN NoTty ELSE legacy[t]
    BY <1>1 DEF TypeOK
  <2>2. NoTty \notin Ttys
    BY ZbusAssumption DEF NoTty, Ttys
  <2>3. legacy'[t] \in Ttys => owner'[legacy'[t]] = t
    BY <1>3, <2>1, <2>2 DEF Settled
  <2>4. QED
    BY <1>2, <2>3 DEF Settled, Writing
<1>5. ASSUME NEW u \in Tasks, u # t
      PROVE  Settled(u)'
  <2>1. legacy'[u] = legacy[u]
    BY <1>1, <1>5 DEF TypeOK
  <2>2. ASSUME NEW z \in Ttys, owner[z] = u
        PROVE  owner'[z] = u /\ EndOf(z)' = EndOf(z)
    BY <1>1, <1>3, <1>5, <2>2, EndUntouched
  <2>3. QED
    BY <1>2, <2>1, <2>2, Bystander
<1>6. QED
  BY <1>4, <1>5

\* A step of t that leaves the TTYs alone concerns only t itself.
LEMMA OwnStep ==
  ASSUME TypeOK, \A u \in Tasks : Settled(u), NEW t \in Tasks,
         UNCHANGED <<owner, tx, legacy, last, life>>,
         \A u \in Tasks : u # t => pc'[u] = pc[u] /\ job'[u] = job[u],
         Settled(t)'
  PROVE  \A u \in Tasks : Settled(u)'
  BY Bystander, EndUntouched

LEMMA GotoOthers ==
  ASSUME TypeOK, NEW t \in Tasks, NEW to, NEW j, Goto(t, to, j)
  PROVE  /\ pc'[t] = to /\ job'[t] = j
         /\ \A u \in Tasks : u # t => pc'[u] = pc[u] /\ job'[u] = job[u]
  BY DEF Goto, TypeOK

LEMMA LookupSettled ==
  ASSUME TypeOK, \A u \in Tasks : Settled(u), NEW t \in Tasks,
         NEW j \in [tty : Ttys \cup {NoTty}, chunk : 0 .. MaxChunks, chunks : 0 .. MaxChunks],
         j.chunk >= 1, j.chunk <= j.chunks, life[t] # 0,
         j.chunk > 1 => legacy[t] \in Ttys /\ EndOf(legacy[t]) = j.chunk - 1,
         Lookup(t, j)
  PROVE  \A u \in Tasks : Settled(u)'
<1>1. UNCHANGED <<owner, tx, legacy, last, life>>
  BY DEF Lookup, ttyVars, lifeVars
<1>2. CASE legacy[t] \in Ttys /\ owner[legacy[t]] = t
  <2>1. Goto(t, "write", [j EXCEPT !.tty = legacy[t]])
    BY <1>2 DEF Lookup
  <2>2. /\ pc'[t] = "write" /\ job'[t] = [j EXCEPT !.tty = legacy[t]]
        /\ \A u \in Tasks : u # t => pc'[u] = pc[u] /\ job'[u] = job[u]
    BY <2>1, GotoOthers
  <2>3. job'[t].tty = legacy[t] /\ job'[t].chunk = j.chunk /\ job'[t].chunks = j.chunks
    BY <2>2
  <2>4. EndOf(legacy[t])' = EndOf(legacy[t])
    BY <1>1 DEF EndOf
  <2>5. Settled(t)'
    BY <1>1, <1>2, <2>2, <2>3, <2>4 DEF Settled, Writing
  <2>6. QED
    BY <1>1, <2>2, <2>5, OwnStep
<1>3. CASE ~(legacy[t] \in Ttys /\ owner[legacy[t]] = t)
  <2>1. Goto(t, "attach", j)
    BY <1>3 DEF Lookup
  <2>2. /\ pc'[t] = "attach" /\ job'[t] = j
        /\ \A u \in Tasks : u # t => pc'[u] = pc[u] /\ job'[u] = job[u]
    BY <2>1, GotoOthers
  <2>3. legacy[t] \notin Ttys /\ j.chunk = 1
    BY <1>3 DEF Settled
  <2>4. Settled(t)'
    BY <1>1, <2>2, <2>3 DEF Settled, Writing
  <2>5. QED
    BY <1>1, <2>2, <2>4, OwnStep
<1>4. QED
  BY <1>2, <1>3

\* The locals after an attempt that failed.
LEMMA RefusedSettled ==
  ASSUME TypeOK, NEW t \in Tasks, Settled(t), Writing(t), life[t] # 0, Refused(t),
         UNCHANGED <<owner, tx, legacy, last, life>>
  PROVE  /\ Settled(t)'
         /\ \A u \in Tasks : u # t => pc'[u] = pc[u] /\ job'[u] = job[u]
<1>1. EndOf(legacy[t])' = EndOf(legacy[t])
  BY DEF EndOf
<1>2. CASE Goto(t, "idle", NoJob)
  BY <1>2, GotoOthers DEF Settled, Writing
<1>3. CASE Goto(t, "again", [job[t] EXCEPT !.tty = NoTty])
  <2>1. /\ pc'[t] = "again" /\ job'[t] = [job[t] EXCEPT !.tty = NoTty]
        /\ \A u \in Tasks : u # t => pc'[u] = pc[u] /\ job'[u] = job[u]
    BY <1>3, GotoOthers
  <2>2. job'[t].chunk = job[t].chunk /\ job'[t].chunks = job[t].chunks
    BY <2>1 DEF TypeOK
  <2>3. QED
    BY <1>1, <2>1, <2>2 DEF Settled, Writing
<1>4. QED
  BY <1>2, <1>3 DEF Refused, SameChunk

LEMMA AttachSelfSettled ==
  ASSUME TypeOK, \A u \in Tasks : Settled(u), NEW t \in Tasks, AttachSelf(t)
  PROVE  \A u \in Tasks : Settled(u)'
<1>1. pc[t] = "attach" /\ life[t] # 0 /\ life' = life /\ job[t].chunk = 1 /\ job[t].chunk <= job[t].chunks
  BY DEF AttachSelf, Executes, lifeVars, Settled, Writing
<1>2. CASE Refused(t) /\ UNCHANGED ttyVars
  BY <1>1, <1>2, RefusedSettled, OwnStep DEF Writing, ttyVars
<1>3. ASSUME NEW y \in Ttys, ~Attached(y), Attach(y, t, FALSE),
             Goto(t, "write", [job[t] EXCEPT !.tty = y])
      PROVE  \A u \in Tasks : Settled(u)'
  <2>1. /\ pc'[t] = "write" /\ job'[t] = [job[t] EXCEPT !.tty = y]
        /\ \A u \in Tasks : u # t => pc'[u] = pc[u] /\ job'[u] = job[u]
    BY <1>3, GotoOthers
  <2>2. job'[t].tty = y /\ job'[t].chunk = job[t].chunk /\ job'[t].chunks = job[t].chunks
    BY <2>1 DEF TypeOK
  <2>3. legacy'[t] = y /\ owner'[y] = t
    BY <1>3 DEF Attach, TypeOK
  <2>4. Settled(t)'
    BY <1>1, <2>1, <2>2, <2>3 DEF Settled, Writing
  <2>5. QED
    BY <1>1, <1>3, <2>1, <2>4, AttachSettled
<1>4. QED
  BY <1>2, <1>3 DEF AttachSelf, FirstFree, FreeTtys

LEMMA WriteSettled ==
  ASSUME TypeOK, \A u \in Tasks : Settled(u), NEW t \in Tasks, WriteTty(t)
  PROVE  \A u \in Tasks : Settled(u)'
<1>1. /\ pc[t] = "write" /\ life[t] # 0
      /\ UNCHANGED <<owner, legacy, last, life>>
  BY DEF WriteTty, Executes, lifeVars
<1>2. CASE Refused(t) /\ UNCHANGED tx
  BY <1>1, <1>2, RefusedSettled, OwnStep DEF Writing
<1>3. ASSUME NEW y \in Ttys, y = job[t].tty, owner[y] = t, NextChunk(t),
             tx' = [tx EXCEPT ![y] = Append(@, Frame(t, job[t].chunk))]
      PROVE  \A u \in Tasks : Settled(u)'
  <2>1. legacy[t] = y /\ job[t].chunk >= 1
    BY <1>1, <1>3 DEF Settled, Writing
  <2>2. EndOf(y)' = job[t].chunk
    <3>1. tx[y] \in Seq(Frames) /\ tx'[y] = Append(tx[y], Frame(t, job[t].chunk))
      BY <1>3 DEF TypeOK
    <3>0. Frame(t, job[t].chunk) \in Frames
      <4>1. life[t] \in 0 .. MaxStarts /\ job[t].chunk \in 1 .. MaxChunks
        BY <2>1, ZbusAssumption, SMTT(60) DEF TypeOK
      <4>2. QED
        BY <4>1 DEF Frame, Frames
    <3>2. tx'[y] # <<>> /\ Len(tx'[y]) = Len(tx[y]) + 1
      BY <3>0, <3>1, AppendProperties
    <3>3. tx'[y][Len(tx'[y])] = Frame(t, job[t].chunk)
      BY <3>0, <3>1, <3>2, AppendProperties
    <3>4. QED
      BY <3>2, <3>3 DEF EndOf, Frame
  <2>3. Settled(t)' /\ \A u \in Tasks : u # t => pc'[u] = pc[u] /\ job'[u] = job[u]
    <3>1. CASE job[t].chunk < job[t].chunks
      <4>1. Goto(t, "again", [job[t] EXCEPT !.tty = NoTty, !.chunk = @ + 1])
        BY <1>3, <3>1 DEF NextChunk
      <4>2. /\ pc'[t] = "again"
            /\ job'[t] = [job[t] EXCEPT !.tty = NoTty, !.chunk = @ + 1]
            /\ \A u \in Tasks : u # t => pc'[u] = pc[u] /\ job'[u] = job[u]
        BY <4>1, GotoOthers
      <4>3. /\ job[t].chunk \in Int /\ job[t].chunks \in Int
            /\ job'[t].chunk = job[t].chunk + 1 /\ job'[t].chunks = job[t].chunks
        BY <4>2, ZbusAssumption, SMTT(60) DEF TypeOK
      <4>4. QED
        BY <1>1, <1>3, <2>1, <2>2, <3>1, <4>2, <4>3 DEF Settled, Writing
    <3>2. CASE ~(job[t].chunk < job[t].chunks)
      <4>1. Goto(t, "idle", NoJob)
        BY <1>3, <3>2 DEF NextChunk
      <4>2. /\ pc'[t] = "idle"
            /\ \A u \in Tasks : u # t => pc'[u] = pc[u] /\ job'[u] = job[u]
        BY <4>1, GotoOthers
      <4>3. QED
        BY <1>1, <1>3, <4>2 DEF Settled, Writing
    <3>3. QED
      BY <3>1, <3>2
  <2>4. ASSUME NEW u \in Tasks, u # t
        PROVE  Settled(u)'
    <3>1. ASSUME NEW z \in Ttys, owner[z] = u
          PROVE  owner'[z] = u /\ EndOf(z)' = EndOf(z)
      <4>1. z # y
        BY <1>3, <2>4, <3>1
      <4>2. tx'[z] = tx[z]
        BY <1>3, <4>1 DEF TypeOK
      <4>3. QED
        BY <1>1, <3>1, <4>2, EndUntouched
    <3>2. QED
      BY <1>1, <2>3, <2>4, <3>1, Bystander
  <2>5. QED
    BY <2>3, <2>4
<1>4. QED
  BY <1>2, <1>3 DEF WriteTty, Accepts

LEMMA TickTxSettled ==
  ASSUME TypeOK, \A u \in Tasks : Settled(u), TickTx
  PROVE  \A u \in Tasks : Settled(u)'
<1>1. PICK y \in Ttys :
        /\ NextTty(y)
        /\ tx'   = [tx EXCEPT ![y] = Tail(tx[y])]
        /\ last' = [last EXCEPT ![y] = Head(tx[y]).chunk]
  BY DEF TickTx
<1>2. UNCHANGED <<owner, legacy, pc, job, life>>
  BY DEF TickTx, taskVars, lifeVars
<1>3. /\ tx[y] \in Seq(Frames) /\ tx[y] # <<>>
      /\ tx'[y] = Tail(tx[y]) /\ last'[y] = tx[y][1].chunk
  BY <1>1 DEF NextTty, Sendable, TypeOK
<1>4. EndOf(y)' = EndOf(y)
  <2>1. /\ Len(tx[y]) \in Nat \ {0} /\ Len(tx'[y]) = Len(tx[y]) - 1 /\ tx'[y] \in Seq(Frames)
        /\ \A i \in 1 .. Len(tx'[y]) : tx'[y][i] = tx[y][i + 1]
    BY <1>3, HeadTailProperties, EmptySeq
  <2>2. CASE Len(tx[y]) = 1
    <3>1. tx'[y] = <<>>
      BY <2>1, <2>2, EmptySeq
    <3>2. QED
      BY <1>3, <2>2, <3>1 DEF EndOf
  <2>3. CASE Len(tx[y]) # 1
    <3>0. \A n \in Nat \ {0} : n # 1 => n - 1 \in 1 .. n - 1 /\ (n - 1) + 1 = n
      OBVIOUS
    <3>1. Len(tx'[y]) \in 1 .. Len(tx'[y]) /\ Len(tx'[y]) + 1 = Len(tx[y])
      BY <2>1, <2>3, <3>0
    <3>2. tx'[y] # <<>>
      BY <3>1
    <3>3. tx'[y][Len(tx'[y])] = tx[y][Len(tx[y])]
      BY <2>1, <3>1
    <3>4. QED
      BY <1>3, <3>2, <3>3 DEF EndOf
  <2>4. QED
    BY <2>2, <2>3
<1>5. ASSUME NEW z \in Ttys
      PROVE  EndOf(z)' = EndOf(z)
  <2>1. z # y => tx'[z] = tx[z] /\ last'[z] = last[z]
    BY <1>1 DEF TypeOK
  <2>2. QED
    BY <1>4, <2>1, EndUntouched
<1>6. QED
  BY <1>2, <1>5, Bystander

LEMMA NextSettled ==
  ASSUME TypeOK, CachedTtyIsOwned, Jobs, Halfway, [Next]_vars
  PROVE  (CachedTtyIsOwned /\ Jobs /\ Halfway)'
<1> SUFFICES \A u \in Tasks : Settled(u)'
  BY SettledByTask
<1>1. \A u \in Tasks : Settled(u)
  BY SettledByTask
<1>2. CASE UNCHANGED <<owner, tx, legacy, last, life, pc, job>>
  BY <1>1, <1>2, Bystander, EndUntouched
<1>3. ASSUME NEW t \in Tasks, NEW n \in 1 .. MaxChunks, BeginWrite(t, n)
      PROVE  \A u \in Tasks : Settled(u)'
  <2>1. /\ [tty |-> NoTty, chunk |-> 1, chunks |-> n] \in
             [tty : Ttys \cup {NoTty}, chunk : 0 .. MaxChunks, chunks : 0 .. MaxChunks]
        /\ 1 <= n
    BY ZbusAssumption
  <2>2. life[t] # 0
    BY <1>3 DEF BeginWrite, Executes
  <2>3. QED
    BY <1>1, <1>3, <2>1, <2>2, LookupSettled DEF BeginWrite
<1>4. ASSUME NEW t \in Tasks, ContinueWrite(t)
      PROVE  \A u \in Tasks : Settled(u)'
  <2>1. job[t] \in [tty : Ttys \cup {NoTty}, chunk : 0 .. MaxChunks, chunks : 0 .. MaxChunks]
    BY DEF TypeOK
  <2>2. life[t] # 0 /\ pc[t] = "again"
    BY <1>4 DEF ContinueWrite, Executes
  <2>3. QED
    BY <1>1, <1>4, <2>1, <2>2, LookupSettled DEF ContinueWrite, Settled, Writing
<1>5. ASSUME NEW t \in Tasks, BeginFlush(t) \/ EndFlush(t)
      PROVE  \A u \in Tasks : Settled(u)'
  <2>1. UNCHANGED <<owner, tx, legacy, last, life>>
    BY <1>5 DEF BeginFlush, EndFlush, ttyVars, lifeVars
  <2>2. /\ pc'[t] \in {"idle", "flush"} /\ life[t] # 0
        /\ \A u \in Tasks : u # t => pc'[u] = pc[u] /\ job'[u] = job[u]
    BY <1>5, GotoOthers DEF BeginFlush, EndFlush, Executes
  <2>3. Settled(t)'
    BY <1>1, <2>1, <2>2 DEF Settled, Writing
  <2>4. QED
    BY <1>1, <2>1, <2>2, <2>3, OwnStep
<1>6. ASSUME NEW t \in Tasks, TaskStep(t)
      PROVE  \A u \in Tasks : Settled(u)'
  <2>1. CASE \E n \in 1 .. MaxChunks : BeginWrite(t, n)
    BY <1>3, <2>1
  <2>2. CASE \E n \in RxLens : ReadTty(t, n)
    BY <1>2, <2>2 DEF ReadTty, taskVars, lifeVars
  <2>3. CASE \E enabled \in BOOLEAN : SetRxPolling(t, enabled)
    BY <1>2, <2>3 DEF SetRxPolling, taskVars, lifeVars
  <2>4. CASE ContinueWrite(t) \/ BeginFlush(t) \/ EndFlush(t)
    BY <1>4, <1>5, <2>4
  <2>5. CASE AttachSelf(t) \/ WriteTty(t) \/ Detach(t)
    BY <1>1, <2>5, DetachSettled, AttachSelfSettled, WriteSettled
  <2>6. QED
    BY <1>6, <2>1, <2>2, <2>3, <2>4, <2>5 DEF TaskStep
<1>7. ASSUME NEW t \in Tasks, Remove(t) \/ \E wanted \in Ttys \cup {AnyTty} : Start(t, wanted)
      PROVE  \A u \in Tasks : Settled(u)'
  BY <1>1, <1>7, StartSettled, RemoveSettled
<1>8. CASE Tick
  <2>1. CASE TickRx
    BY <1>2, <2>1 DEF TickRx, taskVars, lifeVars
  <2>2. QED
    BY <1>1, <1>8, <2>1, TickTxSettled DEF Tick
<1>9. CASE UNCHANGED vars
  BY <1>2, <1>9 DEF vars, ttyVars, taskVars, lifeVars
<1>10. QED
  BY <1>6, <1>7, <1>8, <1>9 DEF Next

----------------------------------------------------------------------------
(* Messages without holes, and the round robin *)

\* Chained and Patience of one TTY.
Chain(y) ==
  /\ tx[y] # <<>> => tx[y][1].chunk \in {1, last[y] + 1}
  /\ \A i \in 1 .. Len(tx[y]) - 1 : tx[y][i + 1].chunk \in {1, tx[y][i].chunk + 1}

Patient(y) ==
  /\ Sendable(y) => skipped[y] + Offset(y) < MaxTty
  /\ ~Sendable(y) => skipped[y] = 0

Orderly(y) == Chain(y) /\ Patient(y)

LEMMA OrderlyByTty ==
  /\ Chained /\ Patience <=> \A y \in Ttys : Orderly(y)
  /\ (Chained /\ Patience)' <=> \A y \in Ttys : Orderly(y)'
  BY DEF Chained, Patience, Chain, Patient, Orderly

LEMMA OrderlyKept ==
  ASSUME NEW y \in Ttys, Orderly(y),
         tx'[y] = tx[y], last'[y] = last[y], skipped'[y] = skipped[y],
         owner'[y] # Nobody <=> owner[y] # Nobody, rr_cursor' = rr_cursor
  PROVE  Orderly(y)'
  BY DEF Orderly, Chain, Patient, Sendable, Offset, Attached

LEMMA OrderlyEmptied ==
  ASSUME NEW y \in Ttys, tx'[y] = <<>>, skipped'[y] = 0
  PROVE  Orderly(y)'
  BY DEF Orderly, Chain, Patient, Sendable

\* A change of owner of the TTYs in Y.
LEMMA RenewOrderly ==
  ASSUME TypeOK, \A y \in Ttys : Orderly(y), NEW Y, Renew(Y),
         \A y \in Ttys \ Y : owner'[y] = owner[y], rr_cursor' = rr_cursor
  PROVE  \A y \in Ttys : Orderly(y)'
<1>1. ASSUME NEW y \in Ttys, y \in Y
      PROVE  Orderly(y)'
  BY <1>1, OrderlyEmptied DEF Renew, Emptied, Forgotten
<1>2. ASSUME NEW y \in Ttys, y \notin Y
      PROVE  Orderly(y)'
  BY <1>2, OrderlyKept DEF Renew, Emptied, Forgotten
<1>3. QED
  BY <1>1, <1>2

LEMMA OffsetInRange ==
  /\ \A y \in Ttys : rr_cursor \in Ttys => Offset(y) \in 0 .. MaxTty - 1
  /\ \A y \in Ttys : rr_cursor' \in Ttys => Offset(y)' \in 0 .. MaxTty - 1
  BY ZbusAssumption DEF Offset, Ttys

LEMMA WriteOrderly ==
  ASSUME TypeOK, \A u \in Tasks : Settled(u), \A y \in Ttys : Orderly(y),
         NEW t \in Tasks, WriteTty(t)
  PROVE  \A y \in Ttys : Orderly(y)'
<1>1. /\ pc[t] = "write" /\ life[t] # 0
      /\ UNCHANGED <<owner, last, skipped, rr_cursor>>
  BY DEF WriteTty, Executes, tickVars
<1>2. CASE UNCHANGED tx
  BY <1>1, <1>2, OrderlyKept
<1>3. ASSUME NEW y \in Ttys, y = job[t].tty, owner[y] = t,
             tx' = [tx EXCEPT ![y] = Append(@, Frame(t, job[t].chunk))]
      PROVE  \A z \in Ttys : Orderly(z)'
  <2>1. /\ legacy[t] = y /\ job[t].chunk >= 1
        /\ job[t].chunk > 1 => EndOf(y) = job[t].chunk - 1
    BY <1>1, <1>3 DEF Settled, Writing
  <2>2. life[t] \in 0 .. MaxStarts /\ job[t].chunk \in 1 .. MaxChunks
    BY <2>1, ZbusAssumption, SMTT(60) DEF TypeOK
  <2>3. Frame(t, job[t].chunk) \in Frames
    BY <2>2 DEF Frame, Frames
  <2>4. tx[y] \in Seq(Frames) /\ Len(tx[y]) \in Nat
    BY DEF TypeOK
  <2>5. tx'[y] = Append(tx[y], Frame(t, job[t].chunk))
    BY <1>3 DEF TypeOK
  <2>6. /\ tx'[y] # <<>> /\ Len(tx'[y]) = Len(tx[y]) + 1
        /\ \A i \in 1 .. Len(tx[y]) : tx'[y][i] = tx[y][i]
        /\ tx'[y][Len(tx[y]) + 1].chunk = job[t].chunk
    BY <2>3, <2>4, <2>5, AppendProperties DEF Frame
  <2>7. job[t].chunk \in {1, EndOf(y) + 1}
    <3>1. ASSUME NEW c \in Int, NEW e, c >= 1, c > 1 => e = c - 1
          PROVE  c \in {1, e + 1}
      BY <3>1
    <3>2. QED
      BY <2>1, <2>2, <3>1
  <2>8. Chain(y)'
    <3>1. CASE tx[y] = <<>>
      <4>1. Len(tx[y]) = 0
        BY <3>1
      <4>2. tx'[y][1].chunk = job[t].chunk /\ EndOf(y) = last[y] /\ Len(tx'[y]) = 1
        BY <2>6, <3>1, <4>1 DEF EndOf
      <4>3. QED
        BY <1>1, <2>7, <4>2 DEF Chain
    <3>2. CASE tx[y] # <<>>
      <4>1. Len(tx[y]) \in Nat \ {0} /\ EndOf(y) = tx[y][Len(tx[y])].chunk
        BY <2>4, <3>2, EmptySeq DEF EndOf
      <4>2. tx'[y][1] = tx[y][1] /\ tx[y][1].chunk \in {1, last[y] + 1}
        BY <2>6, <3>2, <4>1 DEF Orderly, Chain
      <4>3. ASSUME NEW i \in 1 .. Len(tx'[y]) - 1
            PROVE  tx'[y][i + 1].chunk \in {1, tx'[y][i].chunk + 1}
        <5>1. CASE i = Len(tx[y])
          BY <2>6, <2>7, <4>1, <5>1
        <5>2. CASE i # Len(tx[y])
          <6>1. i \in 1 .. Len(tx[y]) - 1 /\ i \in 1 .. Len(tx[y]) /\ i + 1 \in 1 .. Len(tx[y])
            BY <2>4, <2>6, <5>2
          <6>2. QED
            BY <2>6, <6>1 DEF Orderly, Chain
        <5>3. QED
          BY <5>1, <5>2
      <4>4. QED
        BY <1>1, <4>2, <4>3 DEF Chain
    <3>3. QED
      BY <3>1, <3>2
  <2>9. Patient(y)'
    <3>1. CASE tx[y] = <<>>
      <4>1. skipped[y] = 0
        BY <3>1 DEF Orderly, Patient, Sendable
      <4>2. Offset(y)' = Offset(y)
        BY <1>1 DEF Offset
      <4>3. Sendable(y)'
        <5>1. t # Nobody
          BY ZbusAssumption DEF Nobody
        <5>2. QED
          BY <1>1, <1>3, <2>6, <5>1 DEF Sendable, Attached
      <4>4. 0 + Offset(y) < MaxTty
        <5>1. rr_cursor \in Ttys
          BY DEF TypeOK
        <5>2. QED
          BY <5>1, OffsetInRange, ZbusAssumption
      <4>5. QED
        BY <1>1, <4>1, <4>2, <4>3, <4>4 DEF Patient
    <3>2. CASE tx[y] # <<>>
      BY <1>1, <2>6, <3>2 DEF Orderly, Patient, Sendable, Attached, Offset
    <3>3. QED
      BY <3>1, <3>2
  <2>10. ASSUME NEW z \in Ttys, z # y
         PROVE  Orderly(z)'
    <3>1. tx'[z] = tx[z]
      BY <1>3, <2>10 DEF TypeOK
    <3>2. QED
      BY <1>1, <3>1, OrderlyKept
  <2>11. QED
    BY <2>8, <2>9, <2>10 DEF Orderly
<1>4. QED
  BY <1>2, <1>3 DEF WriteTty, Accepts

\* Moving the cursor behind y brings every other TTY with frames nearer by
\* more than the one frame it was passed over for.
LEMMA NearerAfter ==
  ASSUME TypeOK, NEW y \in Ttys, NEW z \in Ttys, z # y, Offset(y) <= Offset(z),
         rr_cursor' = Advance(y)
  PROVE  Offset(z)' <= Offset(z) - 1
  BY ZbusAssumption, SMTT(60) DEF TypeOK, Offset, Advance, Ttys

LEMMA TickTxOrderly ==
  ASSUME TypeOK, \A y \in Ttys : Orderly(y), TickTx
  PROVE  \A y \in Ttys : Orderly(y)'
<1>1. PICK y \in Ttys :
        /\ NextTty(y)
        /\ tx'   = [tx EXCEPT ![y] = Tail(tx[y])]
        /\ last' = [last EXCEPT ![y] = Head(tx[y]).chunk]
        /\ rr_cursor' = Advance(y)
        /\ skipped' = [z \in Ttys |-> IF z # y /\ Sendable(z) THEN OneMore(skipped[z]) ELSE 0]
  BY DEF TickTx
<1>2. owner' = owner
  BY DEF TickTx
<1>3. /\ tx[y] \in Seq(Frames) /\ tx[y] # <<>>
      /\ tx'[y] = Tail(tx[y]) /\ last'[y] = tx[y][1].chunk
  BY <1>1 DEF NextTty, Sendable, TypeOK
<1>4. /\ Len(tx[y]) \in Nat \ {0} /\ Len(tx'[y]) = Len(tx[y]) - 1 /\ tx'[y] \in Seq(Frames)
      /\ \A i \in 1 .. Len(tx'[y]) : tx'[y][i] = tx[y][i + 1]
  BY <1>3, HeadTailProperties, EmptySeq
<1>5. Chain(y)'
  <2>1. Chain(y)
    BY DEF Orderly
  <2>2. ASSUME tx'[y] # <<>>
        PROVE  tx'[y][1].chunk \in {1, last'[y] + 1}
    <3>1. Len(tx'[y]) \in Nat \ {0}
      BY <1>4, <2>2, EmptySeq
    <3>0. \A n \in Nat \ {0} : 1 \in 1 .. n
      OBVIOUS
    <3>2. 1 \in 1 .. Len(tx'[y]) /\ 1 \in 1 .. Len(tx[y]) - 1
      BY <1>4, <3>0, <3>1
    <3>3. tx'[y][1] = tx[y][1 + 1]
      BY <1>4, <3>2
    <3>4. QED
      BY <1>3, <2>1, <3>2, <3>3 DEF Chain
  <2>3. ASSUME NEW i \in 1 .. Len(tx'[y]) - 1
        PROVE  tx'[y][i + 1].chunk \in {1, tx'[y][i].chunk + 1}
    <3>1. i \in 1 .. Len(tx'[y]) /\ i + 1 \in 1 .. Len(tx'[y]) /\ i + 1 \in 1 .. Len(tx[y]) - 1
      BY <1>4
    <3>2. tx'[y][i] = tx[y][i + 1] /\ tx'[y][i + 1] = tx[y][(i + 1) + 1]
      BY <1>4, <3>1
    <3>3. QED
      BY <2>1, <3>1, <3>2 DEF Chain
  <2>4. QED
    BY <2>2, <2>3 DEF Chain
<1>6. Patient(y)'
  <2>1. skipped'[y] = 0
    BY <1>1
  <2>2. rr_cursor' \in Ttys
    BY <1>1, ZbusAssumption DEF Advance, Ttys
  <2>3. Offset(y)' \in 0 .. MaxTty - 1
    BY <2>2, OffsetInRange
  <2>4. 0 + Offset(y)' < MaxTty
    BY <2>3, ZbusAssumption
  <2>5. QED
    BY <2>1, <2>4 DEF Patient
<1>7. ASSUME NEW z \in Ttys, z # y
      PROVE  Orderly(z)'
  <2>1. tx'[z] = tx[z] /\ last'[z] = last[z]
    BY <1>1, <1>7 DEF TypeOK
  <2>2. Sendable(z)' <=> Sendable(z)
    BY <1>2, <2>1 DEF Sendable, Attached
  <2>3. Patient(z)'
    <3>1. CASE ~Sendable(z)
      BY <1>1, <2>2, <3>1 DEF Patient
    <3>2. CASE Sendable(z)
      <4>1. Offset(y) <= Offset(z) /\ skipped[z] + Offset(z) < MaxTty
        BY <1>1, <3>2 DEF NextTty, Orderly, Patient
      <4>2. Offset(z)' <= Offset(z) - 1 /\ Offset(z) \in Int /\ Offset(z)' \in Int
        <5>1. rr_cursor \in Ttys /\ rr_cursor' \in Ttys /\ rr_cursor' = Advance(y)
          BY <1>1, ZbusAssumption DEF TypeOK, Advance, Ttys
        <5>2. Offset(z) \in 0 .. MaxTty - 1 /\ Offset(z)' \in 0 .. MaxTty - 1
          BY <5>1, OffsetInRange
        <5>3. Offset(z)' <= Offset(z) - 1
          BY <1>7, <4>1, <5>1, NearerAfter
        <5>4. QED
          BY <5>2, <5>3
      <4>3. skipped'[z] = OneMore(skipped[z]) /\ skipped[z] \in Nat
        BY <1>1, <1>7, <3>2, ZbusAssumption DEF TypeOK
      <4>4. skipped'[z] \in Nat /\ skipped'[z] <= skipped[z] + 1
        BY <4>3, ZbusAssumption DEF OneMore
      <4>5. skipped'[z] + Offset(z)' < MaxTty
        BY <4>1, <4>2, <4>3, <4>4, ZbusAssumption
      <4>6. QED
        BY <2>2, <3>2, <4>5 DEF Patient
    <3>3. QED
      BY <3>1, <3>2
  <2>4. Chain(z)'
    BY <2>1 DEF Orderly, Chain
  <2>5. QED
    BY <2>3, <2>4 DEF Orderly
<1>8. QED
  BY <1>5, <1>6, <1>7 DEF Orderly

LEMMA NextOrderly ==
  ASSUME TypeOK, \A u \in Tasks : Settled(u), Chained, Patience, [Next]_vars
  PROVE  (Chained /\ Patience)'
<1> SUFFICES \A y \in Ttys : Orderly(y)'
  BY OrderlyByTty
<1>1. \A y \in Ttys : Orderly(y)
  BY OrderlyByTty
<1>2. CASE UNCHANGED <<owner, tx, last, skipped, rr_cursor>>
  BY <1>1, <1>2, OrderlyKept
<1>3. ASSUME NEW t \in Tasks, NEW y \in Ttys, NEW polling, Attach(y, t, polling),
             rr_cursor' = rr_cursor
      PROVE  \A z \in Ttys : Orderly(z)'
  <2>1. Renew({y}) /\ \A z \in Ttys \ {y} : owner'[z] = owner[z]
    BY <1>3 DEF Attach, TypeOK
  <2>2. QED
    BY <1>1, <1>3, <2>1, RenewOrderly
<1>4. ASSUME NEW t \in Tasks, Remove(t)
      PROVE  \A y \in Ttys : Orderly(y)'
  <2> DEFINE mine == {y \in Ttys : owner[y] = t}
  <2>1. /\ Renew(mine) /\ rr_cursor' = rr_cursor
        /\ owner' = [y \in Ttys |-> IF y \in mine THEN Nobody ELSE owner[y]]
    BY <1>4 DEF Remove, tickVars
  <2> HIDE DEF mine
  <2>2. \A y \in Ttys \ mine : owner'[y] = owner[y]
    BY <2>1
  <2>3. QED
    BY <1>1, <2>1, <2>2, RenewOrderly
<1>5. ASSUME NEW t \in Tasks, Detach(t)
      PROVE  \A y \in Ttys : Orderly(y)'
  <2>1. PICK y \in Ttys : owner' = [owner EXCEPT ![y] = Nobody] /\ Renew({y})
    BY <1>5 DEF Detach
  <2>2. rr_cursor' = rr_cursor /\ \A z \in Ttys \ {y} : owner'[z] = owner[z]
    BY <1>5, <2>1 DEF Detach, tickVars, TypeOK
  <2>3. QED
    BY <1>1, <2>1, <2>2, RenewOrderly
<1>6. ASSUME NEW t \in Tasks, AttachSelf(t)
      PROVE  \A y \in Ttys : Orderly(y)'
  <2>1. rr_cursor' = rr_cursor
    BY <1>6 DEF AttachSelf, tickVars
  <2>2. CASE UNCHANGED ttyVars
    BY <1>2, <2>1, <2>2 DEF ttyVars
  <2>3. QED
    BY <1>3, <1>6, <2>1, <2>2 DEF AttachSelf
<1>7. ASSUME NEW t \in Tasks, NEW wanted \in Ttys \cup {AnyTty}, Start(t, wanted)
      PROVE  \A y \in Ttys : Orderly(y)'
  <2>1. rr_cursor' = rr_cursor
    BY <1>7 DEF Start, tickVars
  <2>2. CASE UNCHANGED ttyVars
    BY <1>2, <2>1, <2>2 DEF ttyVars
  <2>3. QED
    BY <1>3, <1>7, <2>1, <2>2 DEF Start, AttachFor, FreeTtys
<1>8. ASSUME NEW t \in Tasks, TaskStep(t)
      PROVE  \A y \in Ttys : Orderly(y)'
  <2>1. CASE \E n \in 1 .. MaxChunks : BeginWrite(t, n)
    BY <1>2, <2>1 DEF BeginWrite, Lookup, ttyVars, tickVars
  <2>2. CASE \E n \in RxLens : ReadTty(t, n)
    BY <1>2, <2>2 DEF ReadTty, tickVars
  <2>3. CASE \E enabled \in BOOLEAN : SetRxPolling(t, enabled)
    BY <1>2, <2>3 DEF SetRxPolling, tickVars
  <2>4. CASE ContinueWrite(t) \/ BeginFlush(t) \/ EndFlush(t)
    BY <1>2, <2>4 DEF ContinueWrite, Lookup, BeginFlush, EndFlush, ttyVars, tickVars
  <2>5. CASE AttachSelf(t) \/ WriteTty(t) \/ Detach(t)
    BY <1>1, <1>5, <1>6, <2>5, WriteOrderly
  <2>6. QED
    BY <1>8, <2>1, <2>2, <2>3, <2>4, <2>5 DEF TaskStep
<1>9. CASE Tick
  <2>1. CASE TickRx
    BY <1>2, <2>1 DEF TickRx
  <2>2. QED
    BY <1>1, <1>9, <2>1, TickTxOrderly DEF Tick
<1>10. CASE UNCHANGED vars
  BY <1>2, <1>10 DEF vars, ttyVars, tickVars
<1>11. QED
  BY <1>4, <1>7, <1>8, <1>9, <1>10 DEF Next

----------------------------------------------------------------------------
THEOREM ZbusInvariance == Spec => []IInv
<1>1. IInv /\ [Next]_vars => IInv'
  <2> SUFFICES ASSUME IInv, [Next]_vars PROVE IInv'
    OBVIOUS
  <2> USE DEF IInv
  <2>1. TypeOK' /\ TtyIsolation'
    BY NextTypes, NextIsolation
  <2>2. (CachedTtyIsOwned /\ Jobs /\ Halfway)'
    BY NextSettled
  <2>3. (Chained /\ Patience)'
    BY SettledByTask, NextOrderly
  <2>4. QED
    BY <2>1, <2>2, <2>3
<1>2. QED
  BY <1>1, InitIInv, PTL DEF Spec

\* Task isolation (zbus.c:99-138, 614-632), for any number of tasks and TTYs:
\* no byte or frame outlives the tenant of a TTY it belongs to.
THEOREM TtysAreIsolated == Spec => []TtyIsolation
  BY ZbusInvariance, PTL DEF IInv

\* The cached TTY is owned where it is used, although it is looked up with
\* interrupts enabled (zbus.c:450-472, 653-690).
THEOREM CachedTtysAreOwned == Spec => []CachedTtyIsOwned
  BY ZbusInvariance, PTL DEF IInv

\* A message loses only its end, however long, however full the rings and
\* however many attempts each chunk gets (pipe.c:38-64, xsh.c:161-183).
THEOREM MessagesHaveNoHoles == Spec => []NoHoles
<1>1. IInv => NoHoles
  <2> SUFFICES ASSUME IInv, NEW y \in Ttys
               PROVE  LET chunks == <<last[y]>> \o [i \in 1 .. Len(tx[y]) |-> tx[y][i].chunk]
                      IN  \A i \in 1 .. Len(chunks) - 1 : chunks[i + 1] \in {1, chunks[i] + 1}
    BY DEF NoHoles
  <2> DEFINE sent   == <<last[y]>>
             stored == [i \in 1 .. Len(tx[y]) |-> tx[y][i].chunk]
             chunks == sent \o stored
  <2>1. tx[y] \in Seq(Frames) /\ Len(tx[y]) \in Nat /\ last[y] \in Nat
    BY ZbusAssumption DEF IInv, TypeOK
  <2>2. \A i \in 1 .. Len(tx[y]) : tx[y][i].chunk \in Nat
    <3>1. ASSUME NEW i \in 1 .. Len(tx[y])
          PROVE  tx[y][i].chunk \in Nat
      <4>1. tx[y][i] \in Frames
        BY <2>1, ElementOfSeq
      <4>2. QED
        BY <4>1, ZbusAssumption DEF Frames
    <3>2. QED
      BY <3>1
  <2>3. /\ sent \in Seq(Nat) /\ Len(sent) = 1 /\ sent[1] = last[y]
        /\ stored \in Seq(Nat) /\ Len(stored) = Len(tx[y])
    BY <2>1, <2>2
  <2>4. \A i \in 1 .. Len(tx[y]) : stored[i] = tx[y][i].chunk
    OBVIOUS
  <2> HIDE DEF sent, stored
  <2>5. /\ Len(chunks) = 1 + Len(tx[y])
        /\ \A i \in 1 .. 1 + Len(tx[y]) :
             chunks[i] = IF i <= 1 THEN sent[i] ELSE stored[i - 1]
    <3>1. /\ Len(sent \o stored) = Len(sent) + Len(stored)
          /\ \A i \in 1 .. Len(sent) + Len(stored) :
               (sent \o stored)[i] = IF i <= Len(sent) THEN sent[i] ELSE stored[i - Len(sent)]
      <4>1. sent \in Seq(Nat) /\ stored \in Seq(Nat)
        BY <2>3
      <4>2. QED
        BY <4>1, ConcatProperties, Zenon
    <3>2. QED
      BY <2>3, <3>1
  <2>6. ASSUME NEW i \in 1 .. Len(chunks) - 1
        PROVE  chunks[i + 1] \in {1, chunks[i] + 1}
    <3>1. i \in 1 .. Len(tx[y]) /\ i + 1 \in 1 .. 1 + Len(tx[y]) /\ i \in 1 .. 1 + Len(tx[y])
      BY <2>1, <2>5
    <3>2. chunks[i + 1] = tx[y][i].chunk
      BY <2>4, <2>5, <3>1
    <3>3. CASE i = 1
      <4>1. tx[y] # <<>>
        BY <3>1, <3>3
      <4>2. chunks[1] = last[y]
        BY <2>3, <2>5, <3>1, <3>3
      <4>3. QED
        BY <3>2, <3>3, <4>1, <4>2 DEF IInv, Chained
    <3>4. CASE i # 1
      <4>1. i - 1 \in 1 .. Len(tx[y]) - 1 /\ i - 1 \in 1 .. Len(tx[y]) /\ (i - 1) + 1 = i
        BY <2>1, <3>1, <3>4
      <4>2. chunks[i] = tx[y][i - 1].chunk
        BY <2>4, <2>5, <3>1, <3>4, <4>1
      <4>3. QED
        BY <3>2, <4>1, <4>2 DEF IInv, Chained
    <3>5. QED
      BY <3>3, <3>4
  <2>7. QED
    BY <2>6 DEF sent, stored
<1>2. QED
  BY <1>1, ZbusInvariance, PTL

\* Round robin (zbus.c:113-118, 790-822): with any number of TTYs, one with
\* frames sees at most one frame of each other go before its own.
THEOREM SkipsAreBounded == Spec => []BoundedSkips
<1>1. IInv => BoundedSkips
  <2> SUFFICES ASSUME IInv, NEW y \in Ttys PROVE skipped[y] < MaxTty
    BY DEF BoundedSkips
  <2>1. skipped[y] \in Int /\ MaxTty \in Nat \ {0}
    BY ZbusAssumption DEF IInv, TypeOK
  <2>2. Offset(y) \in 0 .. MaxTty - 1
    BY OffsetInRange DEF IInv, TypeOK
  <2>3. QED
    BY <2>1, <2>2 DEF IInv, Patience
<1>2. QED
  BY <1>1, ZbusInvariance, PTL
=============================================================================
