---------------------------- MODULE ZlinkProofs ----------------------------
(***************************************************************************)
(* The frame exchange of zlink, for every set of TTYs, sequence modulus,   *)
(* frame budget and interleaving of commands, ticks and polls.             *)
(*                                                                         *)
(* That nothing is lost on the link is inductive once the frames of the    *)
(* fifo are known to be in order (Accounted).  What a loss takes is about  *)
(* sequence numbers: a frame's number is that of its place in the queue    *)
(* (Numbered), and the one the MSX remembers for a TTY is that of the last *)
(* frame it delivered there (RemembersLast).  A whole frame is there while *)
(* the MSX reads because the answer to its POLL is (AnswerIsThere).        *)
(***************************************************************************)
EXTENDS Zlink, SequenceTheorems, TLAPS

\* Where the DATA frames of s are, and what they are.
DataAt(s) == {i \in 1 .. Len(s) : s[i].type = "DATA"}
DataOf(s) == {s[i].data : i \in DataAt(s)}
Rising(s) == \A i, j \in DataAt(s) : i < j => s[i].data.id < s[j].data.id

Messages == [type : {"EMPTY", "ACK", "DATA"}, data : Frames]
Entries  == [frame : Frames, dup : BOOLEAN]

Accounted ==
  /\ Len(log) + Len(pending) <= queued
  /\ \A i \in 1 .. Len(log) : log[i].frame.id = i
  /\ {f.id : f \in DataOf(fifo)} = Len(log) + 1 .. queued - Len(pending)
  /\ Rising(fifo)
  /\ \A i \in 1 .. Len(pending) : pending[i].id = queued - Len(pending) + i

SeqOf(id) == (id - 1) % SeqMod

Numbered ==
  /\ next_data_seq = queued % SeqMod
  /\ \A i \in 1 .. Len(log) : log[i].frame.seq = SeqOf(log[i].frame.id)
  /\ \A f \in DataOf(fifo) : f.seq = SeqOf(f.id)
  /\ \A i \in 1 .. Len(pending) : pending[i].seq = SeqOf(pending[i].id)

\* The i-th frame of the log l is the last one delivered to TTY y.
LastDelivered(l, i, y) ==
  /\ l[i].frame.tty = y /\ ~l[i].dup
  /\ \A k \in i + 1 .. Len(l) : l[k].frame.tty = y => l[k].dup

RemembersLast ==
  \A y \in Ttys : last_seq[y] # NoSeq =>
    \E i \in 1 .. Len(log) : LastDelivered(log, i, y) /\ last_seq[y] = log[i].frame.seq

AnswerIsThere == budget > 0 => \E i \in 1 .. Len(fifo) : fifo[i].type # "ACK"

IInv == TypeOK /\ Accounted /\ Numbered /\ RemembersLast /\ LossNeedsWrap /\ AnswerIsThere

----------------------------------------------------------------------------
(* Arithmetic of the sequence counter. *)

LEMMA Division ==
  ASSUME NEW n \in Nat
  PROVE  /\ n = SeqMod * (n \div SeqMod) + (n % SeqMod)
         /\ n % SeqMod \in 0 .. SeqMod - 1 /\ n \div SeqMod \in Nat
  BY ZlinkAssumption

LEMMA RemainderOf ==
  ASSUME NEW q \in Int, NEW r \in 0 .. SeqMod - 1
  PROVE  (SeqMod * q + r) % SeqMod = r
  BY ZlinkAssumption

\* The counter runs with the frames.
LEMMA CounterTurns ==
  ASSUME NEW n \in Nat
  PROVE  NextSeq(n % SeqMod) = (n + 1) % SeqMod
<1> DEFINE q == n \div SeqMod
           r == n % SeqMod
<1>1. n = SeqMod * q + r /\ r \in 0 .. SeqMod - 1 /\ q \in Nat
  BY Division
<1> HIDE DEF q, r
<1>2. CASE r + 1 < SeqMod
  <2>1. r + 1 \in 0 .. SeqMod - 1
    BY <1>1, <1>2, ZlinkAssumption
  <2>2. (SeqMod * q + (r + 1)) % SeqMod = r + 1
    BY <1>1, <2>1, RemainderOf
  <2>3. (SeqMod * 0 + (r + 1)) % SeqMod = r + 1
    BY <2>1, RemainderOf
  <2>4. SeqMod * q + (r + 1) = n + 1 /\ SeqMod * 0 + (r + 1) = r + 1
    BY <1>1, ZlinkAssumption
  <2>5. QED
    BY <2>2, <2>3, <2>4 DEF NextSeq, r
<1>3. CASE r + 1 = SeqMod
  <2>1. 0 \in 0 .. SeqMod - 1 /\ q + 1 \in Int /\ 1 \in Int
    BY <1>1, ZlinkAssumption
  <2>2. (SeqMod * (q + 1) + 0) % SeqMod = 0 /\ (SeqMod * 1 + 0) % SeqMod = 0
    BY <2>1, RemainderOf
  <2>3. SeqMod * (q + 1) + 0 = n + 1 /\ SeqMod * 1 + 0 = r + 1
    BY <1>1, <1>3, ZlinkAssumption
  <2>4. QED
    BY <2>2, <2>3 DEF NextSeq, r
<1>4. QED
  BY <1>1, <1>2, <1>3, ZlinkAssumption

\* Two frames with the same number are a whole number of turns apart.
LEMMA SameNumber ==
  ASSUME NEW a \in Nat \ {0}, NEW b \in Nat \ {0}, SeqOf(a) = SeqOf(b)
  PROVE  (a - b) % SeqMod = 0
<1> DEFINE p == (a - 1) \div SeqMod
           q == (b - 1) \div SeqMod
           r == (a - 1) % SeqMod
<1>1. a - 1 \in Nat /\ b - 1 \in Nat
  OBVIOUS
<1>2. a - 1 = SeqMod * p + r /\ p \in Nat /\ r \in 0 .. SeqMod - 1
  BY <1>1, Division
<1>3. b - 1 = SeqMod * q + r /\ q \in Nat
  BY <1>1, Division DEF SeqOf
<1> HIDE DEF p, q, r
<1>4. a - b = SeqMod * (p - q) + 0
  BY <1>2, <1>3, ZlinkAssumption
<1>5. p - q \in Int /\ 0 \in 0 .. SeqMod - 1
  BY <1>2, <1>3, ZlinkAssumption
<1>6. (SeqMod * (p - q) + 0) % SeqMod = 0
  BY <1>5, RemainderOf
<1>7. QED
  BY <1>4, <1>6

----------------------------------------------------------------------------
(* The DATA frames of a fifo that loses its head or gets an answer. *)

LEMMA TailPlaces ==
  ASSUME NEW s \in Seq(Messages), s # <<>>
  PROVE  /\ Tail(s) \in Seq(Messages) /\ Len(Tail(s)) = Len(s) - 1
         /\ \A i \in 1 .. Len(s) - 1 : Tail(s)[i] = s[i + 1]
         /\ Head(s) = s[1] /\ Len(s) >= 1
  OBVIOUS

LEMMA AfterHead ==
  ASSUME NEW s \in Seq(Messages), s # <<>>, Rising(s)
  PROVE  /\ Rising(Tail(s))
         /\ Head(s).type # "DATA" => DataOf(Tail(s)) = DataOf(s)
         /\ Head(s).type = "DATA" =>
              /\ DataOf(s) = DataOf(Tail(s)) \cup {Head(s).data}
              /\ \A f \in DataOf(Tail(s)) : Head(s).data.id < f.id
<1>1. \A i : i \in DataAt(Tail(s)) <=> i \in 1 .. Len(s) - 1 /\ i + 1 \in DataAt(s)
  BY TailPlaces DEF DataAt
<1>2. \A i \in DataAt(Tail(s)) : i + 1 \in DataAt(s) /\ Tail(s)[i] = s[i + 1] /\ i \in Nat /\ i >= 1
  BY <1>1, TailPlaces
<1>3. Rising(Tail(s))
  <2> SUFFICES ASSUME NEW i \in DataAt(Tail(s)), NEW j \in DataAt(Tail(s)), i < j
               PROVE  Tail(s)[i].data.id < Tail(s)[j].data.id
    BY DEF Rising
  <2>1. i + 1 \in DataAt(s) /\ j + 1 \in DataAt(s) /\ i + 1 < j + 1
    BY <1>2
  <2>2. s[i + 1].data.id < s[j + 1].data.id
    BY <2>1 DEF Rising
  <2>3. QED
    BY <1>2, <2>2
<1>4. \A i \in DataAt(s) : i = 1 \/ (i - 1 \in DataAt(Tail(s)) /\ Tail(s)[i - 1] = s[i])
  <2> SUFFICES ASSUME NEW i \in DataAt(s), i # 1
               PROVE  i - 1 \in DataAt(Tail(s)) /\ Tail(s)[i - 1] = s[i]
    OBVIOUS
  <2>1. i \in Nat /\ i - 1 \in 1 .. Len(s) - 1 /\ (i - 1) + 1 = i
    BY TailPlaces DEF DataAt
  <2>2. QED
    BY <1>1, <2>1, TailPlaces
<1>5. 1 \in DataAt(s) <=> Head(s).type = "DATA"
  BY TailPlaces DEF DataAt
<1>6. \A f : f \in DataOf(Tail(s)) => f \in DataOf(s)
  BY <1>2 DEF DataOf
<1>7. ASSUME Head(s).type # "DATA"
      PROVE  DataOf(Tail(s)) = DataOf(s)
  <2>1. \A f : f \in DataOf(s) => f \in DataOf(Tail(s))
    BY <1>4, <1>5, <1>7 DEF DataOf
  <2>2. QED
    BY <1>6, <2>1
<1>8. ASSUME Head(s).type = "DATA"
      PROVE  /\ DataOf(s) = DataOf(Tail(s)) \cup {Head(s).data}
             /\ \A f \in DataOf(Tail(s)) : Head(s).data.id < f.id
  <2>1. \A f : f \in DataOf(s) => f \in DataOf(Tail(s)) \cup {Head(s).data}
    <3> SUFFICES ASSUME NEW i \in DataAt(s)
                 PROVE  s[i].data \in DataOf(Tail(s)) \cup {Head(s).data}
      BY DEF DataOf
    <3>1. CASE i = 1
      BY <3>1, TailPlaces
    <3>2. CASE i # 1
      BY <1>4, <3>2 DEF DataOf
    <3>3. QED
      BY <3>1, <3>2
  <2>2. Head(s).data \in DataOf(s)
    BY <1>5, <1>8, TailPlaces DEF DataOf
  <2>3. \A f \in DataOf(Tail(s)) : Head(s).data.id < f.id
    <3> SUFFICES ASSUME NEW i \in DataAt(Tail(s))
                 PROVE  Head(s).data.id < Tail(s)[i].data.id
      BY DEF DataOf
    <3>1. 1 \in DataAt(s) /\ i + 1 \in DataAt(s) /\ 1 < i + 1
      BY <1>2, <1>5, <1>8
    <3>2. QED
      BY <1>2, <3>1, TailPlaces DEF Rising
  <2>4. QED
    BY <1>6, <2>1, <2>2, <2>3
<1>9. QED
  BY <1>3, <1>7, <1>8

LEMMA JoinedPlaces ==
  ASSUME NEW s \in Seq(Messages), NEW t \in Seq(Messages)
  PROVE  /\ s \o t \in Seq(Messages) /\ Len(s \o t) = Len(s) + Len(t)
         /\ \A i \in 1 .. Len(s) : (s \o t)[i] = s[i]
         /\ \A i \in 1 .. Len(t) : (s \o t)[Len(s) + i] = t[i]
  OBVIOUS

\* Whatever is put behind comes last.
LEMMA AfterJoin ==
  ASSUME NEW s \in Seq(Messages), NEW t \in Seq(Messages), Rising(s), Rising(t),
         \A f \in DataOf(s), g \in DataOf(t) : f.id < g.id
  PROVE  Rising(s \o t) /\ DataOf(s \o t) = DataOf(s) \cup DataOf(t)
<1>1. \A i \in DataAt(s \o t) :
        \/ i \in DataAt(s) /\ (s \o t)[i] = s[i] /\ i <= Len(s)
        \/ i - Len(s) \in DataAt(t) /\ (s \o t)[i] = t[i - Len(s)] /\ i > Len(s)
  <2> SUFFICES ASSUME NEW i \in DataAt(s \o t)
               PROVE  \/ i \in DataAt(s) /\ (s \o t)[i] = s[i] /\ i <= Len(s)
                      \/ i - Len(s) \in DataAt(t) /\ (s \o t)[i] = t[i - Len(s)] /\ i > Len(s)
    OBVIOUS
  <2>1. i \in 1 .. Len(s) + Len(t) /\ (s \o t)[i].type = "DATA"
    BY JoinedPlaces DEF DataAt
  <2>2. CASE i <= Len(s)
    BY <2>1, <2>2, JoinedPlaces DEF DataAt
  <2>3. CASE i > Len(s)
    <3>1. i - Len(s) \in 1 .. Len(t) /\ Len(s) + (i - Len(s)) = i
      BY <2>1, <2>3
    <3>2. QED
      BY <2>1, <2>3, <3>1, JoinedPlaces DEF DataAt
  <2>4. QED
    BY <2>1, <2>2, <2>3
<1>2. \A i \in DataAt(s) : i \in DataAt(s \o t) /\ (s \o t)[i] = s[i]
  BY JoinedPlaces DEF DataAt
<1>3. \A i \in DataAt(t) : Len(s) + i \in DataAt(s \o t) /\ (s \o t)[Len(s) + i] = t[i]
  BY JoinedPlaces DEF DataAt
<1>4. DataOf(s \o t) = DataOf(s) \cup DataOf(t)
  <2>1. \A f : f \in DataOf(s \o t) => f \in DataOf(s) \cup DataOf(t)
    <3> SUFFICES ASSUME NEW i \in DataAt(s \o t)
                 PROVE  (s \o t)[i].data \in DataOf(s) \cup DataOf(t)
      BY DEF DataOf
    <3>1. QED
      BY <1>1 DEF DataOf
  <2>2. \A f : f \in DataOf(s) => f \in DataOf(s \o t)
    BY <1>2 DEF DataOf
  <2>3. \A f : f \in DataOf(t) => f \in DataOf(s \o t)
    BY <1>3 DEF DataOf
  <2>4. QED
    BY <2>1, <2>2, <2>3
<1>5. Rising(s \o t)
  <2> DEFINE u == s \o t
             m == Len(s)
  <2> SUFFICES ASSUME NEW i \in DataAt(u), NEW j \in DataAt(u), i < j
               PROVE  u[i].data.id < u[j].data.id
    BY DEF Rising
  <2>1. i \in Int /\ j \in Int /\ m \in Int
    BY DEF DataAt
  <2>2. \/ i \in DataAt(s) /\ u[i] = s[i] /\ i <= m
        \/ i - m \in DataAt(t) /\ u[i] = t[i - m] /\ i > m
    BY <1>1
  <2>3. \/ j \in DataAt(s) /\ u[j] = s[j] /\ j <= m
        \/ j - m \in DataAt(t) /\ u[j] = t[j - m] /\ j > m
    BY <1>1
  <2> HIDE DEF m, u
  <2>4. CASE j <= m
    <3>1. i \in DataAt(s) /\ j \in DataAt(s) /\ u[i] = s[i] /\ u[j] = s[j]
      BY <2>1, <2>2, <2>3, <2>4
    <3>2. QED
      BY <3>1 DEF Rising
  <2>5. CASE i <= m /\ j > m
    <3>1. u[i] = s[i] /\ u[j] = t[j - m] /\ i \in DataAt(s) /\ j - m \in DataAt(t)
      BY <2>1, <2>2, <2>3, <2>5
    <3>2. s[i].data \in DataOf(s) /\ t[j - m].data \in DataOf(t)
      BY <3>1 DEF DataOf
    <3>3. QED
      BY <3>1, <3>2
  <2>6. CASE i > m /\ j > m
    <3>1. /\ u[i] = t[i - m] /\ u[j] = t[j - m]
          /\ i - m \in DataAt(t) /\ j - m \in DataAt(t) /\ i - m < j - m
      BY <2>1, <2>2, <2>3, <2>6
    <3>2. t[i - m].data.id < t[j - m].data.id
      BY <3>1 DEF Rising
    <3>3. QED
      BY <3>1, <3>2
  <2>7. QED
    BY <2>1, <2>4, <2>5, <2>6
<1>6. QED
  BY <1>4, <1>5

----------------------------------------------------------------------------
(* What is put behind the fifo. *)

LEMMA FramesOfNoData ==
  ASSUME NEW s \in Seq(Messages), \A i \in 1 .. Len(s) : s[i].type # "DATA"
  PROVE  DataOf(s) = {} /\ Rising(s)
<1>1. DataAt(s) = {}
  BY DEF DataAt
<1>2. QED
  BY <1>1 DEF DataOf, Rising

LEMMA NoFrameIsFrame == NoFrame \in Frames
  BY ZlinkAssumption DEF NoFrame, Frames, SeqNos

LEMMA AcksAreNoData ==
  ASSUME NEW n \in Nat
  PROVE  /\ Acks(n) \in Seq(Messages) /\ Len(Acks(n)) = n
         /\ DataOf(Acks(n)) = {} /\ Rising(Acks(n))
<1>1. Ack \in Messages /\ Ack.type = "ACK"
  BY NoFrameIsFrame DEF Ack, Messages
<1>2. Acks(n) \in Seq(Messages) /\ Len(Acks(n)) = n
  BY <1>1 DEF Acks
<1>3. \A i \in 1 .. Len(Acks(n)) : Acks(n)[i].type # "DATA"
  BY <1>1, <1>2 DEF Acks
<1>4. QED
  BY <1>2, <1>3, FramesOfNoData

LEMMA BehindFifo ==
  ASSUME NEW s \in Seq(Messages), Rising(s), NEW n \in Nat
  PROVE  /\ s \o Acks(n) \in Seq(Messages)
         /\ Rising(s \o Acks(n)) /\ DataOf(s \o Acks(n)) = DataOf(s)
<1>1. /\ Acks(n) \in Seq(Messages) /\ DataOf(Acks(n)) = {} /\ Rising(Acks(n))
  BY AcksAreNoData
<1>2. Rising(s \o Acks(n)) /\ DataOf(s \o Acks(n)) = DataOf(s) \cup DataOf(Acks(n))
  BY <1>1, AfterJoin
<1>3. QED
  BY <1>1, <1>2, JoinedPlaces

LEMMA ReplyIsOneFrame ==
  ASSUME NEW p \in Seq(Frames)
  PROVE  /\ PollReply(p) \in Seq(Messages) /\ Len(PollReply(p)) = 1
         /\ PollReply(p)[1].type # "ACK"
         /\ Rising(PollReply(p))
         /\ DataOf(PollReply(p)) = IF p = <<>> THEN {} ELSE {Head(p)}
<1>1. CASE p = <<>>
  <2>1. Empty \in Messages /\ Empty.type = "EMPTY"
    BY NoFrameIsFrame DEF Empty, Messages
  <2>2. PollReply(p) = <<Empty>>
    BY <1>1 DEF PollReply
  <2>3. PollReply(p) \in Seq(Messages) /\ Len(PollReply(p)) = 1 /\ PollReply(p)[1] = Empty
    BY <2>1, <2>2
  <2>4. DataOf(PollReply(p)) = {} /\ Rising(PollReply(p))
    BY <2>1, <2>3, FramesOfNoData
  <2>5. QED
    BY <1>1, <2>1, <2>3, <2>4
<1>2. CASE p # <<>>
  <2> DEFINE d == Data(Head(p))
  <2>1. Head(p) \in Frames
    BY <1>2
  <2>2. d \in Messages /\ d.type = "DATA" /\ d.data = Head(p)
    BY <2>1 DEF Data, Messages
  <2>3. PollReply(p) = <<d>>
    BY <1>2 DEF PollReply
  <2> HIDE DEF d
  <2>4. PollReply(p) \in Seq(Messages) /\ Len(PollReply(p)) = 1 /\ PollReply(p)[1] = d
    BY <2>2, <2>3
  <2>5. DataAt(PollReply(p)) = {1}
    BY <2>2, <2>4 DEF DataAt
  <2>6. DataOf(PollReply(p)) = {Head(p)} /\ Rising(PollReply(p))
    BY <2>2, <2>4, <2>5 DEF DataOf, Rising
  <2>7. QED
    BY <1>2, <2>2, <2>4, <2>6
<1>3. QED
  BY <1>1, <1>2

----------------------------------------------------------------------------
(* Types *)

LEMMA ZlinkInitHolds == Init => IInv
<1> SUFFICES ASSUME Init PROVE IInv
  OBVIOUS
<1>1. DataOf(fifo) = {} /\ Rising(fifo)
  <2>1. fifo \in Seq(Messages) /\ Len(fifo) = 0
    BY DEF Init
  <2>2. \A i \in 1 .. Len(fifo) : fifo[i].type # "DATA"
    BY <2>1
  <2>3. QED
    BY <2>1, <2>2, FramesOfNoData
<1> USE ZlinkAssumption DEF Init
<1>2. TypeOK
  BY DEF TypeOK, SeqNos, NoSeq
<1>3. Accounted
  BY <1>1 DEF Accounted
<1>4. Numbered
  <2>1. 0 % SeqMod = 0
    BY DEF Init
  <2>2. QED
    BY <1>1, <2>1 DEF Numbered
<1>5. RemembersLast /\ LossNeedsWrap /\ AnswerIsThere
  BY DEF RemembersLast, LossNeedsWrap, AnswerIsThere
<1>6. QED
  BY <1>2, <1>3, <1>4, <1>5 DEF IInv

LEMMA ZlinkTypes ==
  TypeOK => /\ fifo \in Seq(Messages) /\ log \in Seq(Entries) /\ pending \in Seq(Frames)
            /\ queued \in Nat /\ Len(log) \in Nat /\ Len(pending) \in Nat
  BY ZlinkAssumption DEF TypeOK, Messages, Entries

LEMMA ZlinkTypeNext ==
  ASSUME TypeOK, [Next]_vars
  PROVE  TypeOK'
<1>1. fifo \in Seq(Messages) /\ log \in Seq(Entries) /\ pending \in Seq(Frames)
  BY ZlinkTypes
<1>2. ASSUME fifo' \in Seq(Messages), log' \in Seq(Entries), pending' \in Seq(Frames),
             next_data_seq' \in SeqNos, last_seq' \in [Ttys -> SeqNos \cup {NoSeq}],
             budget' \in 0 .. FrameBudget, queued' \in 0 .. MaxFrames, sent' \in 0 .. MaxSent
      PROVE  TypeOK'
  BY <1>2 DEF TypeOK, Messages, Entries
<1>3. /\ next_data_seq \in SeqNos /\ last_seq \in [Ttys -> SeqNos \cup {NoSeq}]
      /\ budget \in 0 .. FrameBudget /\ queued \in 0 .. MaxFrames /\ sent \in 0 .. MaxSent
  BY DEF TypeOK
<1>4. ASSUME NEW y \in Ttys, QueueData(y)
      PROVE  TypeOK'
  <2>1. [tty |-> y, seq |-> next_data_seq, id |-> queued + 1] \in Frames
    BY <1>3, <1>4, ZlinkAssumption DEF QueueData, Frames
  <2>2. pending' \in Seq(Frames)
    BY <1>1, <1>4, <2>1 DEF QueueData
  <2>3. next_data_seq' \in SeqNos
    BY <1>3, <1>4, ZlinkAssumption DEF QueueData, NextSeq, SeqNos
  <2>4. queued' \in 0 .. MaxFrames
    BY <1>3, <1>4, ZlinkAssumption DEF QueueData
  <2>5. QED
    BY <1>1, <1>2, <1>3, <1>4, <2>2, <2>3, <2>4 DEF QueueData
<1>5. ASSUME NEW n \in 0 .. TxChunk, SendAndPoll(n)
      PROVE  TypeOK'
  <2>1. n \in Nat
    BY ZlinkAssumption
  <2>2. /\ Acks(n) \in Seq(Messages) /\ PollReply(pending) \in Seq(Messages)
    BY <1>1, <2>1, AcksAreNoData, ReplyIsOneFrame
  <2>3. fifo' \in Seq(Messages)
    BY <1>1, <1>5, <2>2 DEF SendAndPoll
  <2>4. pending' \in Seq(Frames)
    BY <1>1, <1>5 DEF SendAndPoll, AfterPoll
  <2>5. budget' \in 0 .. FrameBudget /\ sent' \in 0 .. MaxSent
    BY <1>3, <1>5, <2>1, ZlinkAssumption DEF SendAndPoll
  <2>6. QED
    BY <1>1, <1>2, <1>3, <1>5, <2>3, <2>4, <2>5 DEF SendAndPoll
<1>6. ASSUME ReadAck \/ ReadEmpty
      PROVE  TypeOK'
  <2>1. fifo # <<>> /\ fifo' = Tail(fifo)
    BY <1>6 DEF ReadAck, ReadEmpty, NextIs
  <2>2. fifo' \in Seq(Messages)
    BY <1>1, <2>1, TailPlaces
  <2>3. budget' \in 0 .. FrameBudget
    BY <1>3, <1>6, ZlinkAssumption DEF ReadAck, ReadEmpty, NextIs
  <2>4. QED
    BY <1>1, <1>2, <1>3, <1>6, <2>2, <2>3 DEF ReadAck, ReadEmpty
<1>7. ASSUME ReadDuplicate \/ ReadData
      PROVE  TypeOK'
  <2> DEFINE f == Head(fifo).data
  <2>1. f \in Frames /\ f.tty \in Ttys /\ f.seq \in SeqNos
    <3>1. fifo # <<>>
      BY <1>7 DEF ReadDuplicate, ReadData, NextIs
    <3>2. Head(fifo) \in Messages
      BY <1>1, <3>1
    <3>3. QED
      BY <3>2 DEF Messages, Frames
  <2>2. [frame |-> f, dup |-> TRUE] \in Entries /\ [frame |-> f, dup |-> FALSE] \in Entries
    BY <2>1 DEF Entries
  <2>3. log' \in Seq(Entries)
    <3>1. \E e \in Entries : log' = Append(log, e)
      BY <1>7, <2>2 DEF ReadDuplicate, ReadData
    <3>2. QED
      BY <1>1, <3>1
  <2>4. fifo' \in Seq(Messages)
    <3>1. Tail(fifo) \in Seq(Messages)
      BY <1>1, <1>7, TailPlaces DEF ReadDuplicate, ReadData, NextIs
    <3>2. fifo' = Tail(fifo) \/ \E n \in 1 .. MaxReplies : fifo' = Tail(fifo) \o Acks(n)
      BY <1>7 DEF ReadDuplicate, ReadData
    <3>3. ASSUME NEW n \in 1 .. MaxReplies
          PROVE  Tail(fifo) \o Acks(n) \in Seq(Messages)
      <4>1. Acks(n) \in Seq(Messages)
        BY AcksAreNoData, ZlinkAssumption
      <4>2. QED
        BY <3>1, <4>1, JoinedPlaces
    <3>4. QED
      BY <3>1, <3>2, <3>3
  <2>5. last_seq' \in [Ttys -> SeqNos \cup {NoSeq}]
    BY <1>3, <1>7, <2>1 DEF ReadDuplicate, ReadData
  <2>6. budget' \in 0 .. FrameBudget /\ UNCHANGED <<pending, next_data_seq, queued, sent>>
    BY <1>7, ZlinkAssumption DEF ReadDuplicate, ReadData
  <2>7. QED
    BY <1>1, <1>2, <1>3, <2>3, <2>4, <2>5, <2>6
<1>8. CASE UNCHANGED vars
  BY <1>8 DEF vars, TypeOK
<1>9. QED
  BY <1>4, <1>5, <1>6, <1>7, <1>8 DEF Next, Poll

----------------------------------------------------------------------------
(* The host queues, and the MSX polls. *)

LEMMA QueueKeepsOrder ==
  ASSUME IInv, NEW y \in Ttys, QueueData(y)
  PROVE  Accounted' /\ Numbered'
<1> DEFINE f == [tty |-> y, seq |-> next_data_seq, id |-> queued + 1]
<1> USE DEF IInv
<1>1. /\ pending \in Seq(Frames) /\ queued \in Nat /\ Len(log) \in Nat /\ Len(pending) \in Nat
  BY ZlinkTypes
<1>2. /\ pending' = Append(pending, f) /\ queued' = queued + 1
      /\ next_data_seq' = NextSeq(next_data_seq) /\ UNCHANGED <<fifo, log>>
  BY DEF QueueData
<1>3. f.id = queued + 1 /\ f.seq = next_data_seq
  OBVIOUS
<1> HIDE DEF f
<1>4. /\ Len(pending') = Len(pending) + 1
      /\ \A i \in 1 .. Len(pending) : pending'[i] = pending[i]
      /\ pending'[Len(pending) + 1] = f
  BY <1>1, <1>2
<1>5. queued' - Len(pending') = queued - Len(pending)
  BY <1>1, <1>2, <1>4
<1>6. Accounted'
  <2>1. \A i \in 1 .. Len(pending') : pending'[i].id = queued' - Len(pending') + i
    <3> SUFFICES ASSUME NEW i \in 1 .. Len(pending) + 1
                 PROVE  pending'[i].id = queued - Len(pending) + i
      BY <1>4, <1>5
    <3>1. CASE i \in 1 .. Len(pending)
      BY <1>4, <3>1 DEF Accounted
    <3>2. CASE i = Len(pending) + 1
      BY <1>1, <1>3, <1>4, <3>2
    <3>3. QED
      BY <1>1, <3>1, <3>2
  <2>2. Len(log') + Len(pending') <= queued'
    BY <1>1, <1>2, <1>4 DEF Accounted
  <2>3. QED
    BY <1>2, <1>5, <2>1, <2>2 DEF Accounted
<1>7. Numbered'
  <2>1. next_data_seq' = queued' % SeqMod
    BY <1>1, <1>2, CounterTurns DEF Numbered
  <2>2. \A i \in 1 .. Len(pending') : pending'[i].seq = SeqOf(pending'[i].id)
    <3> SUFFICES ASSUME NEW i \in 1 .. Len(pending) + 1
                 PROVE  pending'[i].seq = SeqOf(pending'[i].id)
      BY <1>4
    <3>1. CASE i \in 1 .. Len(pending)
      BY <1>4, <3>1 DEF Numbered
    <3>2. CASE i = Len(pending) + 1
      <4>1. (queued + 1) - 1 = queued
        BY <1>1
      <4>2. SeqOf(queued + 1) = queued % SeqMod
        BY <4>1 DEF SeqOf
      <4>3. QED
        BY <1>3, <1>4, <3>2, <4>2 DEF Numbered
    <3>3. QED
      BY <1>1, <3>1, <3>2
  <2>3. QED
    BY <1>2, <2>1, <2>2 DEF Numbered
<1>8. QED
  BY <1>6, <1>7

LEMMA PollKeepsOrder ==
  ASSUME IInv, NEW n \in 0 .. TxChunk, SendAndPoll(n)
  PROVE  Accounted' /\ Numbered' /\ AnswerIsThere'
<1> DEFINE s == fifo \o Acks(n)
           r == PollReply(pending)
<1> USE DEF IInv
<1>1. /\ fifo \in Seq(Messages) /\ pending \in Seq(Frames)
      /\ queued \in Nat /\ Len(log) \in Nat /\ Len(pending) \in Nat /\ n \in Nat
  BY ZlinkTypes, ZlinkAssumption
<1>2. /\ fifo' = s \o r /\ pending' = AfterPoll(pending)
      /\ UNCHANGED <<queued, log, next_data_seq>>
  BY DEF SendAndPoll
<1>3. s \in Seq(Messages) /\ Rising(s) /\ DataOf(s) = DataOf(fifo)
  BY <1>1, BehindFifo DEF Accounted
<1>4. /\ r \in Seq(Messages) /\ Len(r) = 1 /\ r[1].type # "ACK" /\ Rising(r)
      /\ DataOf(r) = IF pending = <<>> THEN {} ELSE {Head(pending)}
  BY <1>1, ReplyIsOneFrame
<1> HIDE DEF s, r
<1>5. AnswerIsThere'
  <2>1. Len(fifo') = Len(s) + 1 /\ fifo'[Len(s) + 1] = r[1] /\ Len(s) \in Nat
    <3>1. Len(s \o r) = Len(s) + Len(r) /\ \A i \in 1 .. Len(r) : (s \o r)[Len(s) + i] = r[i]
      BY <1>3, <1>4, JoinedPlaces
    <3>2. 1 \in 1 .. Len(r)
      BY <1>4
    <3>3. (s \o r)[Len(s) + 1] = r[1]
      BY <3>1, <3>2
    <3>4. Len(s) \in Nat
      BY <1>3
    <3>5. QED
      BY <1>2, <1>4, <3>1, <3>3, <3>4
  <2>2. Len(s) + 1 \in 1 .. Len(fifo')
    BY <2>1
  <2>3. QED
    BY <1>4, <2>1, <2>2 DEF AnswerIsThere
<1>6. CASE pending = <<>>
  <2>1. pending' = pending
    BY <1>2, <1>6 DEF AfterPoll
  <2>2. Rising(fifo') /\ DataOf(fifo') = DataOf(fifo)
    <3>1. \A g \in DataOf(s), h \in DataOf(r) : g.id < h.id
      BY <1>4, <1>6
    <3>2. Rising(s \o r) /\ DataOf(s \o r) = DataOf(s) \cup DataOf(r)
      BY <1>3, <1>4, <3>1, AfterJoin
    <3>3. QED
      BY <1>2, <1>3, <1>4, <1>6, <3>2
  <2>3. QED
    BY <1>2, <1>5, <2>1, <2>2 DEF Accounted, Numbered
<1>7. CASE pending # <<>>
  <2> DEFINE f == Head(pending)
             off == queued - Len(pending)
  <2>1. /\ pending' = Tail(pending) /\ Len(pending') = Len(pending) - 1 /\ Len(pending) >= 1
        /\ \A i \in 1 .. Len(pending) - 1 : pending'[i] = pending[i + 1]
        /\ f = pending[1]
    BY <1>1, <1>2, <1>7 DEF AfterPoll
  <2>2. f.id = off + 1 /\ f.seq = SeqOf(f.id) /\ off \in Int
    <3>1. 1 \in 1 .. Len(pending)
      BY <1>1, <2>1
    <3>2. QED
      BY <1>1, <2>1, <3>1 DEF Accounted, Numbered
  <2>3. queued' - Len(pending') = off + 1
    <3>1. queued' = queued /\ Len(pending') = Len(pending) - 1
      BY <1>2, <2>1
    <3>2. queued \in Int /\ Len(pending) \in Int
      BY <1>1
    <3>3. QED
      BY <3>1, <3>2
  <2>4. \A g \in DataOf(fifo) : g.id < f.id
    <3> SUFFICES ASSUME NEW g \in DataOf(fifo) PROVE g.id < f.id
      OBVIOUS
    <3>1. g.id \in Len(log) + 1 .. off
      BY DEF Accounted
    <3>2. QED
      BY <1>1, <2>2, <3>1
  <2> HIDE DEF f, off
  <2>5. DataOf(r) = {f}
    BY <1>4, <1>7 DEF f
  <2>6. Rising(fifo') /\ DataOf(fifo') = DataOf(fifo) \cup {f}
    <3>1. \A g \in DataOf(s), h \in DataOf(r) : g.id < h.id
      BY <1>3, <2>4, <2>5
    <3>2. Rising(s \o r) /\ DataOf(s \o r) = DataOf(s) \cup DataOf(r)
      BY <1>3, <1>4, <3>1, AfterJoin
    <3>3. QED
      BY <1>2, <1>3, <2>5, <3>2
  <2>7. {g.id : g \in DataOf(fifo')} = Len(log) + 1 .. off + 1
    <3>1. {g.id : g \in DataOf(fifo)} = Len(log) + 1 .. off
      BY DEF Accounted, off
    <3>2. {g.id : g \in DataOf(fifo')} = {g.id : g \in DataOf(fifo)} \cup {off + 1}
      <4>1. {g.id : g \in DataOf(fifo) \cup {f}} = {g.id : g \in DataOf(fifo)} \cup {f.id}
        BY Zenon
      <4>2. QED
        BY <2>2, <2>6, <4>1
    <3>3. Len(log) <= off
      BY <1>1 DEF Accounted, off
    <3>4. (Len(log) + 1 .. off) \cup {off + 1} = Len(log) + 1 .. off + 1
      BY <1>1, <2>2, <3>3
    <3>5. QED
      BY <3>1, <3>2, <3>4
  <2>8. \A i \in 1 .. Len(pending') :
           i + 1 \in 1 .. Len(pending) /\ pending'[i] = pending[i + 1]
    BY <1>1, <2>1
  <2>9. Accounted'
    <3>1. \A i \in 1 .. Len(pending') : pending'[i].id = (off + 1) + i
      <4> SUFFICES ASSUME NEW i \in 1 .. Len(pending') PROVE pending'[i].id = (off + 1) + i
        OBVIOUS
      <4>1. pending'[i].id = off + (i + 1)
        BY <2>8 DEF Accounted, off
      <4>2. QED
        BY <2>2, <4>1
    <3>2. Len(log) + Len(pending') <= queued
      BY <1>1, <2>1 DEF Accounted
    <3>3. QED
      BY <1>2, <2>3, <2>6, <2>7, <3>1, <3>2 DEF Accounted
  <2>10. Numbered'
    <3>1. \A g \in DataOf(fifo') : g.seq = SeqOf(g.id)
      BY <2>2, <2>6 DEF Numbered
    <3>2. \A i \in 1 .. Len(pending') : pending'[i].seq = SeqOf(pending'[i].id)
      BY <2>8 DEF Numbered
    <3>3. QED
      BY <1>2, <3>1, <3>2 DEF Numbered
  <2>11. QED
    BY <1>5, <2>9, <2>10
<1>8. QED
  BY <1>6, <1>7

----------------------------------------------------------------------------
(* The MSX reads. *)

\* Something else than DATA is at the head.
LEMMA ReadOtherKeeps ==
  ASSUME IInv, ReadAck \/ ReadEmpty
  PROVE  Accounted' /\ Numbered' /\ AnswerIsThere'
<1> USE DEF IInv
<1>1. fifo \in Seq(Messages) /\ Rising(fifo)
  BY ZlinkTypes DEF Accounted
<1>2. /\ fifo # <<>> /\ fifo' = Tail(fifo) /\ Head(fifo).type # "DATA"
      /\ UNCHANGED <<pending, next_data_seq, queued, log>>
  BY DEF ReadAck, ReadEmpty, NextIs
<1>3. Rising(fifo') /\ DataOf(fifo') = DataOf(fifo)
  BY <1>1, <1>2, AfterHead
<1>4. Accounted' /\ Numbered'
  BY <1>2, <1>3 DEF Accounted, Numbered
<1>5. AnswerIsThere'
  <2>1. CASE ReadEmpty
    BY <2>1 DEF ReadEmpty, AnswerIsThere
  <2>2. CASE ReadAck
    <3>1. Head(fifo).type = "ACK" /\ budget > 0
      BY <2>2 DEF ReadAck, NextIs
    <3>2. PICK i \in 1 .. Len(fifo) : fifo[i].type # "ACK"
      BY <3>1 DEF AnswerIsThere
    <3>3. i # 1
      BY <1>1, <1>2, <3>1, <3>2, TailPlaces
    <3>4. /\ i - 1 \in 1 .. Len(fifo) - 1 /\ (i - 1) + 1 = i
      BY <1>1, <3>2, <3>3
    <3>5. i - 1 \in 1 .. Len(fifo') /\ fifo'[i - 1] = fifo[i]
      BY <1>1, <1>2, <3>4, TailPlaces
    <3>6. QED
      BY <3>2, <3>5 DEF AnswerIsThere
  <2>3. QED
    BY <2>1, <2>2
<1>6. QED
  BY <1>4, <1>5

\* A DATA frame is at the head: it is the next one in the order queued.
LEMMA NextFrame ==
  ASSUME IInv, NextIs("DATA")
  PROVE  /\ Head(fifo).data \in DataOf(fifo)
         /\ Head(fifo).data.id = Len(log) + 1
         /\ Head(fifo).data.seq = SeqOf(Len(log) + 1)
         /\ Rising(Tail(fifo))
         /\ \A g \in DataOf(Tail(fifo)) : g \in DataOf(fifo)
         /\ {g.id : g \in DataOf(Tail(fifo))} = Len(log) + 2 .. queued - Len(pending)
<1> DEFINE f == Head(fifo).data
           off == queued - Len(pending)
<1> USE DEF IInv
<1>1. /\ fifo \in Seq(Messages) /\ Rising(fifo) /\ fifo # <<>> /\ Head(fifo).type = "DATA"
      /\ queued \in Nat /\ Len(log) \in Nat /\ Len(pending) \in Nat
  BY ZlinkTypes DEF Accounted, NextIs
<1>2. /\ Rising(Tail(fifo)) /\ DataOf(fifo) = DataOf(Tail(fifo)) \cup {f}
      /\ \A g \in DataOf(Tail(fifo)) : f.id < g.id
  BY <1>1, AfterHead
<1>3. {g.id : g \in DataOf(fifo)} = Len(log) + 1 .. off
  BY DEF Accounted
<1>4. f \in DataOf(fifo) /\ f.seq = SeqOf(f.id)
  BY <1>2 DEF Numbered
<1>5. off \in Int
  BY <1>1
<1> HIDE DEF f, off
<1>6. f.id \in Len(log) + 1 .. off
  BY <1>3, <1>4
<1>7. Len(log) + 1 \in {g.id : g \in DataOf(fifo)}
  <2>1. Len(log) + 1 \in Len(log) + 1 .. off
    BY <1>1, <1>5, <1>6
  <2>2. QED
    BY <1>3, <2>1
<1>8. f.id = Len(log) + 1
  <2>1. PICK g \in DataOf(fifo) : g.id = Len(log) + 1
    BY <1>7
  <2>2. CASE g = f
    BY <2>1, <2>2
  <2>3. CASE g # f
    BY <1>1, <1>2, <1>5, <1>6, <2>1, <2>3
  <2>4. QED
    BY <2>2, <2>3
<1>9. {g.id : g \in DataOf(Tail(fifo))} = Len(log) + 2 .. off
  <2>1. \A g \in DataOf(Tail(fifo)) : g.id \in Len(log) + 2 .. off
    <3> SUFFICES ASSUME NEW g \in DataOf(Tail(fifo)) PROVE g.id \in Len(log) + 2 .. off
      OBVIOUS
    <3>1. g.id \in Len(log) + 1 .. off /\ Len(log) + 1 < g.id
      BY <1>2, <1>3, <1>8
    <3>2. QED
      BY <1>1, <1>5, <3>1
  <2>2. \A k \in Len(log) + 2 .. off : \E g \in DataOf(Tail(fifo)) : g.id = k
    <3> SUFFICES ASSUME NEW k \in Len(log) + 2 .. off
                 PROVE  \E g \in DataOf(Tail(fifo)) : g.id = k
      OBVIOUS
    <3>1. k \in Len(log) + 1 .. off /\ k # Len(log) + 1
      BY <1>1, <1>5
    <3>2. PICK g \in DataOf(fifo) : g.id = k
      BY <1>3, <3>1
    <3>3. QED
      BY <1>2, <1>8, <3>1, <3>2
  <2>3. QED
    BY <2>1, <2>2
<1>10. QED
  BY <1>2, <1>4, <1>8, <1>9 DEF f, off

\* It is put into the log as the entry e, and leaves the fifo.
LEMMA ReadDataKeepsOrder ==
  ASSUME IInv, NextIs("DATA"), NEW e \in Entries, e.frame = Head(fifo).data,
         log' = Append(log, e), UNCHANGED <<pending, next_data_seq, queued>>,
         Rising(fifo'), DataOf(fifo') = DataOf(Tail(fifo))
  PROVE  Accounted' /\ Numbered'
<1> USE DEF IInv
<1>1. /\ log \in Seq(Entries) /\ Len(log) \in Nat /\ queued \in Nat /\ Len(pending) \in Nat
  BY ZlinkTypes
<1>2. /\ Len(log') = Len(log) + 1 /\ log'[Len(log) + 1] = e
      /\ \A i \in 1 .. Len(log) : log'[i] = log[i]
  BY <1>1
<1>3. \A i \in 1 .. Len(log') : i \in 1 .. Len(log) \/ i = Len(log) + 1
  BY <1>1, <1>2
<1>4. Accounted'
  <2>1. \A i \in 1 .. Len(log') : log'[i].frame.id = i
    BY <1>2, <1>3, NextFrame DEF Accounted
  <2>2. {g.id : g \in DataOf(fifo')} = Len(log') + 1 .. queued' - Len(pending')
    <3>1. Len(log') + 1 = Len(log) + 2
      BY <1>1, <1>2
    <3>2. QED
      BY <3>1, NextFrame
  <2>3. Len(log') + Len(pending') <= queued'
    <3>1. Head(fifo).data.id \in Len(log) + 1 .. queued - Len(pending)
      BY NextFrame DEF Accounted
    <3>2. QED
      BY <1>1, <1>2, <3>1
  <2>4. QED
    BY <2>1, <2>2, <2>3 DEF Accounted
<1>5. Numbered'
  <2>1. \A i \in 1 .. Len(log') : log'[i].frame.seq = SeqOf(log'[i].frame.id)
    BY <1>2, <1>3, NextFrame DEF Numbered
  <2>2. \A g \in DataOf(fifo') : g.seq = SeqOf(g.id)
    BY NextFrame DEF Numbered
  <2>3. QED
    BY <2>1, <2>2 DEF Numbered
<1>6. QED
  BY <1>4, <1>5

\* Entries that were there keep what LossNeedsWrap says of them.
LossAt(l, i) ==
  \E j \in 1 .. i - 1 :
    /\ l[j].frame.tty = l[i].frame.tty /\ ~l[j].dup
    /\ \A k \in j + 1 .. i - 1 : l[k].frame.tty = l[i].frame.tty => l[k].dup
    /\ (i - j) % SeqMod = 0

LEMMA LossStays ==
  ASSUME TypeOK, LossNeedsWrap, NEW e \in Entries, log' = Append(log, e),
         e.dup => LossAt(log', Len(log) + 1)
  PROVE  LossNeedsWrap'
<1>1. log \in Seq(Entries) /\ Len(log) \in Nat
  BY ZlinkTypes
<1>2. /\ Len(log') = Len(log) + 1 /\ log'[Len(log) + 1] = e
      /\ \A i \in 1 .. Len(log) : log'[i] = log[i]
  BY <1>1
<1>3. ASSUME NEW i \in 1 .. Len(log), log[i].dup
      PROVE  LossAt(log', i)
  <2>1. PICK j \in 1 .. i - 1 :
          /\ log[j].frame.tty = log[i].frame.tty /\ ~log[j].dup
          /\ \A k \in j + 1 .. i - 1 : log[k].frame.tty = log[i].frame.tty => log[k].dup
          /\ (i - j) % SeqMod = 0
    BY <1>3 DEF LossNeedsWrap
  <2>2. /\ j \in 1 .. Len(log) /\ \A k \in j + 1 .. i - 1 : k \in 1 .. Len(log)
    BY <1>1
  <2>3. QED
    BY <1>2, <2>1, <2>2 DEF LossAt
<1>4. \A i \in 1 .. Len(log') : log'[i].dup => LossAt(log', i)
  <2> SUFFICES ASSUME NEW i \in 1 .. Len(log'), log'[i].dup
               PROVE  LossAt(log', i)
    OBVIOUS
  <2>1. CASE i \in 1 .. Len(log)
    BY <1>2, <1>3, <2>1
  <2>2. CASE i = Len(log) + 1
    BY <1>2, <2>2
  <2>3. QED
    BY <1>1, <1>2, <2>1, <2>2
<1>5. QED
  BY <1>4 DEF LossNeedsWrap, LossAt

\* A frame whose number is the remembered one is turns of the counter
\* younger than the last one delivered to its TTY.
LEMMA DuplicateIsTurnsOld ==
  ASSUME IInv, ReadDuplicate
  PROVE  LossNeedsWrap' /\ RemembersLast'
<1> DEFINE f == Head(fifo).data
           e == [frame |-> f, dup |-> TRUE]
           n == Len(log)
<1> USE DEF IInv
<1>1. /\ log \in Seq(Entries) /\ n \in Nat /\ fifo \in Seq(Messages) /\ fifo # <<>>
      /\ last_seq \in [Ttys -> SeqNos \cup {NoSeq}]
  BY ZlinkTypes DEF ReadDuplicate, NextIs, TypeOK
<1>2. NextIs("DATA") /\ last_seq[f.tty] = f.seq /\ log' = Append(log, e) /\ last_seq' = last_seq
  BY DEF ReadDuplicate, Duplicate
<1>3. f \in Frames /\ f.tty \in Ttys /\ f.seq \in SeqNos
  <2>1. Head(fifo) \in Messages
    BY <1>1
  <2>2. QED
    BY <2>1 DEF Messages, Frames
<1>4. e \in Entries /\ e.frame = f /\ e.dup
  BY <1>3 DEF Entries
<1>5. f.seq = SeqOf(n + 1)
  BY <1>2, NextFrame
<1> HIDE DEF e, f, n
<1>6. /\ Len(log') = n + 1 /\ log'[n + 1] = e
      /\ \A i \in 1 .. n : log'[i] = log[i]
  BY <1>1, <1>2, <1>4 DEF n
<1>7. f.seq # NoSeq
  BY <1>3, ZlinkAssumption DEF SeqNos, NoSeq
<1>8. PICK j \in 1 .. n : LastDelivered(log, j, f.tty) /\ f.seq = log[j].frame.seq
  BY <1>2, <1>3, <1>7 DEF RemembersLast, n
<1>9. ((n + 1) - j) % SeqMod = 0
  <2>1. log[j].frame.seq = SeqOf(j)
    BY <1>8 DEF Numbered, Accounted, n
  <2>2. SeqOf(n + 1) = SeqOf(j)
    BY <1>5, <1>8, <2>1
  <2>3. n + 1 \in Nat \ {0} /\ j \in Nat \ {0}
    BY <1>1
  <2>4. QED
    BY <2>2, <2>3, SameNumber
<1>10. LossAt(log', n + 1)
  <2>1. j \in 1 .. (n + 1) - 1
    BY <1>1
  <2>2. log'[j].frame.tty = log'[n + 1].frame.tty /\ ~log'[j].dup
    BY <1>4, <1>6, <1>8 DEF LastDelivered
  <2>3. \A k \in j + 1 .. (n + 1) - 1 :
           log'[k].frame.tty = log'[n + 1].frame.tty => log'[k].dup
    <3>1. \A k \in j + 1 .. (n + 1) - 1 : k \in j + 1 .. n /\ k \in 1 .. n
      BY <1>1
    <3>2. \A k \in j + 1 .. n : log[k].frame.tty = f.tty => log[k].dup
      BY <1>8 DEF LastDelivered, n
    <3>3. QED
      BY <1>4, <1>6, <3>1, <3>2
  <2>4. QED
    BY <1>9, <2>1, <2>2, <2>3 DEF LossAt
<1>11. LossNeedsWrap'
  <2>1. LossAt(log', Len(log) + 1)
    BY <1>10 DEF n
  <2>2. QED
    BY <1>2, <1>4, <2>1, LossStays
<1>12. RemembersLast'
  <2> SUFFICES ASSUME NEW y \in Ttys, last_seq[y] # NoSeq
               PROVE  \E i \in 1 .. Len(log') :
                        LastDelivered(log', i, y) /\ last_seq[y] = log'[i].frame.seq
    BY <1>2 DEF RemembersLast
  <2>1. PICK i \in 1 .. n : LastDelivered(log, i, y) /\ last_seq[y] = log[i].frame.seq
    BY DEF RemembersLast, n
  <2>2. \A k \in i + 1 .. n + 1 : k \in i + 1 .. n \/ k = n + 1
    BY <1>1
  <2>3. \A k \in i + 1 .. n : k \in 1 .. n
    BY <1>1
  <2>4. \A k \in i + 1 .. n + 1 : log'[k].frame.tty = y => log'[k].dup
    BY <1>4, <1>6, <2>1, <2>2, <2>3 DEF LastDelivered, n
  <2>5. LastDelivered(log', i, y)
    BY <1>6, <2>1, <2>4 DEF LastDelivered
  <2>6. i \in 1 .. Len(log')
    BY <1>1, <1>6
  <2>7. QED
    BY <1>6, <2>1, <2>5, <2>6
<1>13. QED
  BY <1>11, <1>12

LEMMA DeliveryIsRemembered ==
  ASSUME IInv, ReadData
  PROVE  LossNeedsWrap' /\ RemembersLast'
<1> DEFINE f == Head(fifo).data
           e == [frame |-> f, dup |-> FALSE]
           n == Len(log)
<1> USE DEF IInv
<1>1. /\ log \in Seq(Entries) /\ n \in Nat /\ fifo \in Seq(Messages) /\ fifo # <<>>
      /\ last_seq \in [Ttys -> SeqNos \cup {NoSeq}]
  BY ZlinkTypes DEF ReadData, NextIs, TypeOK
<1>2. log' = Append(log, e) /\ last_seq' = [last_seq EXCEPT ![f.tty] = f.seq]
  BY DEF ReadData
<1>3. f \in Frames /\ f.tty \in Ttys
  <2>1. Head(fifo) \in Messages
    BY <1>1
  <2>2. QED
    BY <2>1 DEF Messages, Frames
<1>4. e \in Entries /\ e.frame = f /\ ~e.dup
  BY <1>3 DEF Entries
<1> HIDE DEF e, f, n
<1>5. /\ Len(log') = n + 1 /\ log'[n + 1] = e
      /\ \A i \in 1 .. n : log'[i] = log[i]
  BY <1>1, <1>2, <1>4 DEF n
<1>6. LossNeedsWrap'
  BY <1>2, <1>4, LossStays
<1>7. RemembersLast'
  <2> SUFFICES ASSUME NEW y \in Ttys, last_seq'[y] # NoSeq
               PROVE  \E i \in 1 .. Len(log') :
                        LastDelivered(log', i, y) /\ last_seq'[y] = log'[i].frame.seq
    BY DEF RemembersLast
  <2>1. CASE y = f.tty
    <3>1. last_seq'[y] = log'[n + 1].frame.seq
      BY <1>1, <1>2, <1>3, <1>4, <1>5, <2>1
    <3>2. n + 1 \in 1 .. Len(log') /\ ~\E k : k \in (n + 1) + 1 .. n + 1
      BY <1>1, <1>5
    <3>3. LastDelivered(log', n + 1, y)
      BY <1>4, <1>5, <2>1, <3>2 DEF LastDelivered
    <3>4. QED
      BY <3>1, <3>2, <3>3
  <2>2. CASE y # f.tty
    <3>1. last_seq'[y] = last_seq[y]
      BY <1>1, <1>2, <2>2
    <3>2. PICK i \in 1 .. n : LastDelivered(log, i, y) /\ last_seq[y] = log[i].frame.seq
      BY <3>1 DEF RemembersLast, n
    <3>3. \A k \in i + 1 .. n + 1 : (k \in i + 1 .. n /\ k \in 1 .. n) \/ k = n + 1
      BY <1>1
    <3>4. \A k \in i + 1 .. n + 1 : log'[k].frame.tty = y => log'[k].dup
      BY <1>4, <1>5, <2>2, <3>2, <3>3 DEF LastDelivered, n
    <3>5. LastDelivered(log', i, y)
      BY <1>5, <3>2, <3>4 DEF LastDelivered
    <3>6. i \in 1 .. Len(log')
      BY <1>1, <1>5
    <3>7. QED
      BY <1>5, <3>1, <3>2, <3>5, <3>6
  <2>3. QED
    BY <2>1, <2>2
<1>8. QED
  BY <1>6, <1>7

----------------------------------------------------------------------------
LEMMA ZlinkNextHolds ==
  ASSUME IInv, [Next]_vars
  PROVE  IInv'
<1> USE DEF IInv
<1>1. TypeOK'
  BY ZlinkTypeNext
<1>2. ASSUME UNCHANGED <<log, last_seq>>
      PROVE  RemembersLast' /\ LossNeedsWrap'
  <2>1. log' = log /\ last_seq' = last_seq
    BY <1>2
  <2>2. LossNeedsWrap'
    BY <2>1, Zenon DEF LossNeedsWrap
  <2>3. RemembersLast'
    BY <2>1, Zenon DEF RemembersLast, LastDelivered
  <2>4. QED
    BY <2>2, <2>3
<1>3. ASSUME NEW y \in Ttys, QueueData(y)
      PROVE  IInv'
  BY <1>1, <1>2, <1>3, QueueKeepsOrder DEF QueueData, AnswerIsThere
<1>4. ASSUME NEW n \in 0 .. TxChunk, SendAndPoll(n)
      PROVE  IInv'
  BY <1>1, <1>2, <1>4, PollKeepsOrder DEF SendAndPoll
<1>5. ASSUME ReadAck \/ ReadEmpty
      PROVE  IInv'
  BY <1>1, <1>2, <1>5, ReadOtherKeeps DEF ReadAck, ReadEmpty
<1>6. ASSUME ReadDuplicate
      PROVE  IInv'
  <2> DEFINE e == [frame |-> Head(fifo).data, dup |-> TRUE]
  <2>1. /\ NextIs("DATA") /\ log' = Append(log, e) /\ fifo' = Tail(fifo) /\ budget' = 0
        /\ UNCHANGED <<pending, next_data_seq, queued>>
    BY <1>6 DEF ReadDuplicate
  <2>2. /\ Rising(fifo') /\ DataOf(fifo') = DataOf(Tail(fifo))
    BY <2>1, NextFrame
  <2>3. e \in Entries /\ e.frame = Head(fifo).data
    <3>1. Head(fifo) \in Messages
      BY <2>1, ZlinkTypes DEF NextIs
    <3>2. QED
      BY <3>1 DEF Messages, Entries
  <2> HIDE DEF e
  <2>4. Accounted' /\ Numbered'
    BY <2>1, <2>2, <2>3, ReadDataKeepsOrder
  <2>5. AnswerIsThere'
    BY <2>1 DEF AnswerIsThere
  <2>6. QED
    BY <1>1, <1>6, <2>4, <2>5, DuplicateIsTurnsOld
<1>7. ASSUME ReadData
      PROVE  IInv'
  <2> DEFINE e == [frame |-> Head(fifo).data, dup |-> FALSE]
  <2>1. /\ NextIs("DATA") /\ log' = Append(log, e) /\ budget' = 0
        /\ fifo' = Tail(fifo) \/ \E n \in 1 .. MaxReplies : fifo' = Tail(fifo) \o Acks(n)
        /\ UNCHANGED <<pending, next_data_seq, queued>>
    BY <1>7 DEF ReadData
  <2>2. /\ Rising(fifo') /\ DataOf(fifo') = DataOf(Tail(fifo))
    <3>1. Tail(fifo) \in Seq(Messages) /\ Rising(Tail(fifo))
      BY <2>1, ZlinkTypes, TailPlaces, NextFrame DEF NextIs
    <3>2. ASSUME NEW n \in 1 .. MaxReplies
          PROVE  Rising(Tail(fifo) \o Acks(n)) /\ DataOf(Tail(fifo) \o Acks(n)) = DataOf(Tail(fifo))
      <4>1. n \in Nat
        BY ZlinkAssumption
      <4>2. QED
        BY <3>1, <4>1, BehindFifo
    <3>3. CASE fifo' = Tail(fifo)
      BY <3>1, <3>3
    <3>4. ASSUME NEW n \in 1 .. MaxReplies, fifo' = Tail(fifo) \o Acks(n)
          PROVE  Rising(fifo') /\ DataOf(fifo') = DataOf(Tail(fifo))
      <4>1. Rising(Tail(fifo) \o Acks(n)) /\ DataOf(Tail(fifo) \o Acks(n)) = DataOf(Tail(fifo))
        BY <3>2
      <4>2. QED
        BY <3>4, <4>1, Zenon
    <3>5. QED
      BY <2>1, <3>3, <3>4
  <2>3. e \in Entries /\ e.frame = Head(fifo).data
    <3>1. Head(fifo) \in Messages
      BY <2>1, ZlinkTypes DEF NextIs
    <3>2. QED
      BY <3>1 DEF Messages, Entries
  <2> HIDE DEF e
  <2>4. Accounted' /\ Numbered'
    BY <2>1, <2>2, <2>3, ReadDataKeepsOrder
  <2>5. AnswerIsThere'
    BY <2>1 DEF AnswerIsThere
  <2>6. QED
    BY <1>1, <1>7, <2>4, <2>5, DeliveryIsRemembered
<1>8. CASE UNCHANGED vars
  <2>1. UNCHANGED <<pending, next_data_seq, fifo, last_seq, budget, queued, log>>
    BY <1>8 DEF vars
  <2>2. Accounted' /\ Numbered' /\ AnswerIsThere'
    BY <2>1 DEF Accounted, Numbered, AnswerIsThere
  <2>3. QED
    BY <1>1, <1>2, <2>1, <2>2
<1>9. QED
  BY <1>3, <1>4, <1>5, <1>6, <1>7, <1>8 DEF Next, Poll

THEOREM ZlinkInvariance == Spec => []IInv
  BY ZlinkInitHolds, ZlinkNextHolds, PTL DEF Spec

\* Numbers, budgets and frames stay in their ranges (zlink.c, zlink.tcl).
THEOREM ZlinkTypeCorrect == Spec => []TypeOK
  BY ZlinkInvariance, PTL DEF IInv

\* zlink_poll_once never reads an empty fifo as a frame, whatever number of
\* acknowledgements the frame budget left there in earlier ticks
\* (zlink.c:97-116, 209-233).
THEOREM OnlyFramesAreRead == Spec => []ReadsOnlyFrames
<1>1. IInv => ReadsOnlyFrames
  <2> SUFFICES ASSUME IInv, budget > 0 PROVE fifo # <<>>
    BY DEF ReadsOnlyFrames
  <2>1. PICK i \in 1 .. Len(fifo) : fifo[i].type # "ACK"
    BY DEF IInv, AnswerIsThere
  <2>2. QED
    BY <2>1
<1>2. QED
  BY <1>1, ZlinkInvariance, PTL

\* Every frame queued is read, under way or pending, exactly once and in
\* order, however the sequence numbers wrap (zlink.tcl:759-769).
THEOREM FramesAreAccounted == Spec => []AllFramesAccounted
<1>1. InFlight = DataAt(fifo)
  BY DEF InFlight, DataAt
<1>2. IInv => AllFramesAccounted
  <2> SUFFICES ASSUME IInv PROVE AllFramesAccounted
    OBVIOUS
  <2>1. queued \in Nat /\ Len(log) \in Nat /\ Len(pending) \in Nat /\ Accounted
    BY ZlinkTypes DEF IInv
  <2>2. {fifo[i].data.id : i \in InFlight} = {f.id : f \in DataOf(fifo)}
    BY <1>1, Zenon DEF DataOf
  <2>3. \A i, j \in InFlight : i < j => fifo[i].data.id < fifo[j].data.id
    BY <1>1, <2>1 DEF Accounted, Rising
  <2>4. Len(log) <= queued - Len(pending)
    BY <2>1 DEF Accounted
  <2>5. QED
    BY <2>1, <2>2, <2>3, <2>4 DEF AllFramesAccounted, Accounted
<1>3. QED
  BY <1>2, ZlinkInvariance, PTL

\* Only a TTY that got nothing new for whole turns of the counter can lose
\* a frame to the duplicate check, for every modulus (zlink.c:243-247).
THEOREM LossNeedsAWrap == Spec => []LossNeedsWrap
  BY ZlinkInvariance, PTL DEF IInv

=============================================================================
