--------------------------- MODULE ControlProofs ---------------------------
(***************************************************************************)
(* The kernel control channel, for any number of slots, length of a frame  *)
(* and queue of the host: fragments of two task lists never mix, and a     *)
(* request for JSON that was alone gets its own, whole answer.             *)
(*                                                                         *)
(* What the host has collected is a part of the list under way that ends   *)
(* where the next frame begins (Collecting), which frames that are cut     *)
(* from one snapshot one after another keep (Carries).  An answer has no   *)
(* number, so that it belongs to a request is an argument on the order of  *)
(* the queue: the first answer of its kind that is still to come is that   *)
(* of the request (ComesFirst).                                            *)
(***************************************************************************)
EXTENDS Control, SequenceTheorems, FiniteSetTheorems, TLAPS

Entries == [slot : Slots \cup {Nth(slots, i) : slots \in SUBSET Slots, i \in Nat},
            used : BOOLEAN]

\* What Fresh returns does not matter, as long as it does not change.
RequestNumbers == {0} \cup {Min(S) : S \in SUBSET Numbers}

Requests ==
  [cmd : Commands, good : BOOLEAN, target : Targets \cup {Current}, number : RequestNumbers]

Replies ==
  [answer : Commands, good : BOOLEAN, more : BOOLEAN, items : Seq(Entries),
   whole : Seq(Entries), number : RequestNumbers]

TypeOK ==
  /\ used \in SUBSET Slots
  /\ requests \in Seq(Requests)
  /\ replies \in Seq(Replies)
  /\ items \in Seq(Entries)
  /\ pending \in [Kinds -> BOOLEAN]
  /\ asked \in [Kinds -> [number : RequestNumbers, alone : BOOLEAN]]

\* Frames of one answer, up to its last.
OneAnswer(fs) ==
  \A i \in 1 .. Len(fs) :
    /\ fs[i].answer = fs[1].answer /\ fs[i].good = fs[1].good
    /\ fs[i].whole = fs[1].whole /\ fs[i].number = fs[1].number
    /\ fs[i].more <=> i < Len(fs)

\* The next frame is one of a task list.
Listing(fs) == fs # <<>> /\ fs[1].answer = "list" /\ fs[1].good

\* The frames hold what comes in w after its first entries, cut in order.
Carries(fs, at, w) ==
  \E cut \in [1 .. Len(fs) + 1 -> 0 .. Len(w)] :
    /\ cut[1] = at /\ cut[Len(fs) + 1] = Len(w)
    /\ \A i \in 1 .. Len(fs) :
         cut[i] <= cut[i + 1] /\ fs[i].items = SubSeq(w, cut[i] + 1, cut[i + 1])

\* What has been collected ends where the next frame begins.
CollectedUpTo(fs, collected, whole, complete) ==
  \E at \in 0 .. Len(whole) : \E from \in 0 .. at :
    /\ Carries(fs, at, whole)
    /\ collected = SubSeq(whole, from + 1, at)
    /\ complete => from = 0

Collecting ==
  /\ Listing(replies) =>
       CollectedUpTo(replies, items, replies[1].whole, asked["list"].alone)
  /\ ~Listing(replies) => items = <<>>
  /\ ~Listing(replies) => \A i \in 1 .. Len(replies) : replies[i].items = replies[i].whole

\* Number n is that of the first answer of the kind that is still to come.
First(kind, n, fs, rs) ==
  \/ fs # <<>> /\ fs[1].answer = kind /\ fs[1].number = n
  \/ /\ fs # <<>> => fs[1].answer # kind
     /\ \E i \in 1 .. Len(rs) :
          /\ Answer(rs[i].cmd) = kind /\ rs[i].number = n
          /\ \A j \in 1 .. i - 1 : Answer(rs[j].cmd) # kind

ComesFirst == \A kind \in Kinds :
  asked[kind].alone => First(kind, asked[kind].number, replies, requests)

IInv == TypeOK /\ OneAnswer(replies) /\ Collecting /\ ComesFirst

----------------------------------------------------------------------------
(* The answers of the kernel. *)

\* So many frames are enough for n entries, and none but the first begins
\* behind their end.
LEMMA FrameCount ==
  ASSUME NEW n \in Nat, NEW count, count = Max({1, (n + PerFrame - 1) \div PerFrame})
  PROVE  /\ count \in Nat \ {0}
         /\ n <= count * PerFrame
         /\ \A i \in 1 .. count : (i - 1) * PerFrame <= n
<1> DEFINE q == (n + PerFrame - 1) \div PerFrame
<1>0. PerFrame \in Nat /\ PerFrame > 0
  BY ControlAssumption
<1>1. q \in Nat /\ q * PerFrame <= n + PerFrame - 1 /\ n + PerFrame - 1 < (q + 1) * PerFrame
  BY <1>0, SMTT(30)
<1>2. count = IF q > 1 THEN q ELSE 1
  <2>1. \A x \in {1, q} : (\A y \in {1, q} : x >= y) => x = IF q > 1 THEN q ELSE 1
    BY <1>1
  <2>2. \E x \in {1, q} : \A y \in {1, q} : x >= y
    BY <1>1
  <2>3. QED
    BY <2>1, <2>2 DEF Max
<1> HIDE DEF q
<1>3. count \in Nat \ {0}
  BY <1>1, <1>2
<1>4. n <= count * PerFrame
  <2>1. q * PerFrame \in Int /\ (q + 1) * PerFrame = q * PerFrame + PerFrame
    BY <1>0, <1>1
  <2>2. CASE q > 1
    BY <1>0, <1>1, <1>2, <2>1, <2>2
  <2>3. CASE q = 1
    BY <1>0, <1>1, <1>2, <2>1, <2>3
  <2>4. CASE q = 0
    <3>1. n < 1 /\ count = 1
      BY <1>0, <1>1, <1>2, <2>1, <2>4
    <3>2. QED
      BY <1>0, <3>1
  <2>5. QED
    BY <1>1, <2>2, <2>3, <2>4
<1>5. ASSUME NEW i \in 1 .. count
      PROVE  (i - 1) * PerFrame <= n
  <2>1. CASE i = 1
    BY <1>0, <2>1
  <2>2. CASE i > 1
    <3>1. i <= q
      BY <1>1, <1>2, <1>3, <2>2
    <3>2. (i - 1) * PerFrame <= (q - 1) * PerFrame
      <4>1. q - i \in Nat /\ i - 1 \in Nat
        BY <1>1, <1>3, <3>1
      <4>2. (q - 1) * PerFrame = (i - 1) * PerFrame + (q - i) * PerFrame
        BY <1>0, <1>1, <4>1, SMTT(30)
      <4>3. (q - i) * PerFrame \in Nat /\ (i - 1) * PerFrame \in Nat
        BY <1>0, <4>1
      <4>4. QED
        BY <4>2, <4>3
    <3>3. (q - 1) * PerFrame = q * PerFrame - PerFrame
      BY <1>0, <1>1
    <3>4. (q - 1) * PerFrame \in Int /\ q * PerFrame \in Int /\ (i - 1) * PerFrame \in Int
      BY <1>0, <1>1, <1>3
    <3>5. QED
      BY <1>0, <1>1, <3>2, <3>3, <3>4
  <2>3. QED
    BY <1>3, <2>1, <2>2
<1>6. QED
  BY <1>3, <1>4, <1>5

LEMMA TaskListIsAList ==
  ASSUME used \in SUBSET Slots
  PROVE  TaskList \in Seq(Entries)
<1>1. IsFiniteSet(used)
  <2>1. 0 \in Int /\ MaxTasks - 1 \in Int
    BY ControlAssumption
  <2>2. IsFiniteSet(Slots)
    BY <2>1, FS_Interval DEF Slots
  <2>3. QED
    BY <2>2, FS_Subset
<1>2. Cardinality(used) \in Nat
  BY <1>1, FS_CardinalityType
<1>3. ASSUME NEW i \in 1 .. Cardinality(used)
      PROVE  Entry(Nth(used, i)) \in Entries
  BY <1>2, <1>3 DEF Entry, Entries
<1>4. QED
  BY <1>2, <1>3 DEF TaskList

\* f is a frame of the list w that answers r.
ListFrame(f, r, more, part, w) ==
  /\ f \in Replies
  /\ f.answer = "list" /\ f.good /\ f.whole = w
  /\ f.number = r.number /\ f.items = part
  /\ f.more <=> more

LEMMA FrameIsListFrame ==
  ASSUME NEW r \in Requests, r.cmd = "list", NEW more \in BOOLEAN,
         NEW part \in Seq(Entries), NEW w \in Seq(Entries)
  PROVE  ListFrame(Frame(r, TRUE, more, part, w), r, more, part, w)
<1> DEFINE f == Frame(r, TRUE, more, part, w)
<1>1. f = [answer |-> "list", good |-> TRUE, more |-> more, items |-> part, whole |-> w,
           number |-> r.number]
  BY DEF Frame, Answer
<1>2. "list" \in Commands /\ TRUE \in BOOLEAN /\ r.number \in RequestNumbers
  BY DEF Commands, Kinds, Requests
<1> HIDE DEF f
<1>3. f \in Replies
  BY <1>1, <1>2 DEF Replies
<1>4. f.good /\ (f.more <=> more)
  BY <1>1, Zenon
<1>5. f.answer = "list" /\ f.whole = w /\ f.number = r.number /\ f.items = part
  BY <1>1
<1>6. ListFrame(f, r, more, part, w)
  BY <1>3, <1>4, <1>5 DEF ListFrame
<1>7. QED
  BY <1>6 DEF f

LEMMA FramesCarry ==
  ASSUME NEW r \in Requests, r.cmd = "list", used \in SUBSET Slots
  PROVE  /\ Frames(r) \in Seq(Replies) /\ Frames(r) # <<>>
         /\ \A i \in 1 .. Len(Frames(r)) :
              /\ Frames(r)[i].answer = "list" /\ Frames(r)[i].good
              /\ Frames(r)[i].whole = TaskList /\ Frames(r)[i].number = r.number
              /\ Frames(r)[i].more <=> i < Len(Frames(r))
         /\ Carries(Frames(r), 0, TaskList)
<1> DEFINE w == TaskList
           n == Len(w)
           count == Max({1, (n + PerFrame - 1) \div PerFrame})
           end(i) == Min({i * PerFrame, n})
           part(i) == SubSeq(w, (i - 1) * PerFrame + 1, end(i))
           fs == Frames(r)
<1>0. w \in Seq(Entries) /\ n \in Nat /\ PerFrame \in Nat /\ PerFrame > 0
  BY TaskListIsAList, ControlAssumption
<1>1. /\ count \in Nat \ {0} /\ n <= count * PerFrame
      /\ \A i \in 1 .. count : (i - 1) * PerFrame <= n
  BY <1>0, FrameCount
<1>2. fs = [i \in 1 .. count |-> Frame(r, TRUE, i < count, part(i), w)]
  BY DEF Frames
<1>3. ASSUME NEW i \in 0 .. count
      PROVE  end(i) = IF i * PerFrame <= n THEN i * PerFrame ELSE n
  <2> DEFINE m == i * PerFrame
  <2>1. m \in Nat
    BY <1>0, <1>1
  <2> HIDE DEF m
  <2>2. \A x \in {m, n} : (\A y \in {m, n} : x <= y) => x = IF m <= n THEN m ELSE n
    BY <1>0, <2>1
  <2>3. \E x \in {m, n} : \A y \in {m, n} : x <= y
    BY <1>0, <2>1
  <2>4. QED
    BY <2>2, <2>3 DEF Min, m
<1> HIDE DEF w, count, end, fs
<1>4. \A i \in 0 .. count : end(i) \in 0 .. n
  <2> SUFFICES ASSUME NEW i \in 0 .. count PROVE end(i) \in 0 .. n
    OBVIOUS
  <2>1. i * PerFrame \in Nat
    BY <1>0, <1>1
  <2>2. QED
    BY <1>0, <1>3, <2>1
<1>5. \A i \in 1 .. count : (i - 1) * PerFrame = end(i - 1) /\ end(i - 1) <= end(i)
  <2> SUFFICES ASSUME NEW i \in 1 .. count
               PROVE  (i - 1) * PerFrame = end(i - 1) /\ end(i - 1) <= end(i)
    OBVIOUS
  <2>1. (i - 1) * PerFrame <= n /\ i - 1 \in 0 .. count /\ i \in 0 .. count
    BY <1>1
  <2>2. (i - 1) * PerFrame \in Nat /\ i * PerFrame = (i - 1) * PerFrame + PerFrame
    BY <1>0, <1>1
  <2>3. QED
    BY <1>0, <1>3, <2>1, <2>2
<1>6. end(0) = 0 /\ end(count) = n
  <2>1. 0 \in 0 .. count /\ count \in 0 .. count /\ 0 * PerFrame = 0
    BY <1>0, <1>1
  <2>2. count * PerFrame \in Nat
    BY <1>0, <1>1
  <2>3. QED
    BY <1>0, <1>1, <1>3, <2>1, <2>2
<1>7. ASSUME NEW i \in 1 .. count
      PROVE  part(i) = SubSeq(w, end(i - 1) + 1, end(i)) /\ part(i) \in Seq(Entries)
  <2>1. i - 1 \in 0 .. count /\ i \in 0 .. count
    BY <1>1
  <2>2. end(i - 1) \in 0 .. n /\ end(i) \in 0 .. n
    BY <1>4, <2>1
  <2>3. \A j \in end(i - 1) + 1 .. end(i) : w[j] \in Entries
    BY <1>0, <2>2 DEF n
  <2>4. part(i) = SubSeq(w, end(i - 1) + 1, end(i))
    BY <1>5
  <2>5. SubSeq(w, end(i - 1) + 1, end(i)) \in Seq(Entries)
    BY <1>0, <2>2, <2>3, SubSeqProperties
  <2>6. QED
    BY <2>4, <2>5
<1> HIDE DEF part
<1> DEFINE frame(i) == Frame(r, TRUE, i < count, part(i), w)
<1>8. ASSUME NEW i \in 1 .. count
      PROVE  ListFrame(frame(i), r, i < count, part(i), w)
  <2>1. part(i) \in Seq(Entries) /\ w \in Seq(Entries) /\ (i < count) \in BOOLEAN
    BY <1>0, <1>7
  <2>2. QED
    BY <2>1, FrameIsListFrame, Zenon
<1> HIDE DEF frame
<1>9. /\ fs \in Seq(Replies) /\ fs # <<>> /\ Len(fs) = count
      /\ \A i \in 1 .. count : fs[i] = frame(i)
  <2>1. fs = [i \in 1 .. count |-> frame(i)]
    BY <1>2 DEF frame
  <2>2. QED
    BY <1>1, <1>8, <2>1 DEF ListFrame
<1>10. Carries(fs, 0, w)
  <2> DEFINE cut == [i \in 1 .. count + 1 |-> end(i - 1)]
  <2>1. cut \in [1 .. count + 1 -> 0 .. n]
    BY <1>1, <1>4
  <2>2. cut[1] = 0 /\ cut[count + 1] = n
    BY <1>1, <1>6
  <2>3. \A i \in 1 .. count : cut[i] = end(i - 1) /\ cut[i + 1] = end(i)
    BY <1>1
  <2> HIDE DEF cut
  <2>4. \A i \in 1 .. count : cut[i] <= cut[i + 1] /\ fs[i].items = SubSeq(w, cut[i] + 1, cut[i + 1])
    BY <1>5, <1>7, <1>8, <1>9, <2>3 DEF ListFrame
  <2>5. QED
    BY <1>9, <2>1, <2>2, <2>4 DEF Carries, n
<1>11. QED
  BY <1>8, <1>9, <1>10 DEF fs, w, ListFrame

\* fs is an answer to r from its beginning.
AnswerTo(fs, r) ==
  /\ fs \in Seq(Replies) /\ fs # <<>> /\ OneAnswer(fs)
  /\ fs[1].answer = Answer(r.cmd) /\ fs[1].number = r.number
  /\ Listing(fs) => Carries(fs, 0, fs[1].whole)
  /\ ~Listing(fs) => \A i \in 1 .. Len(fs) : fs[i].items = fs[i].whole

LEMMA SingleFrame ==
  ASSUME NEW r \in Requests, NEW good \in BOOLEAN, NEW part \in Seq(Entries),
         ~(r.cmd = "list" /\ good)
  PROVE  AnswerTo(<<Frame(r, good, FALSE, part, part)>>, r)
<1> DEFINE f == Frame(r, good, FALSE, part, part)
<1>1. f = [answer |-> Answer(r.cmd), good |-> good, more |-> FALSE, items |-> part,
           whole |-> part, number |-> r.number]
  BY DEF Frame
<1>2. Answer(r.cmd) \in Commands /\ r.number \in RequestNumbers /\ FALSE \in BOOLEAN
  BY DEF Commands, Kinds, Requests, Answer
<1>3. Answer(r.cmd) = "list" => r.cmd = "list"
  BY DEF Answer
<1> HIDE DEF f
<1>4. f \in Replies
  BY <1>1, <1>2 DEF Replies
<1>5. (f.good <=> good) /\ ~f.more
  BY <1>1, Zenon
<1>6. f.answer = Answer(r.cmd) /\ f.whole = part /\ f.number = r.number /\ f.items = part
  BY <1>1
<1>7. <<f>> \in Seq(Replies) /\ <<f>> # <<>> /\ Len(<<f>>) = 1 /\ <<f>>[1] = f
  BY <1>4
<1>8. ~Listing(<<f>>)
  BY <1>3, <1>5, <1>6, <1>7 DEF Listing
<1>9. OneAnswer(<<f>>)
  BY <1>5, <1>7 DEF OneAnswer
<1>10. AnswerTo(<<f>>, r)
  BY <1>6, <1>7, <1>8, <1>9 DEF AnswerTo
<1>11. QED
  BY <1>10 DEF f

LEMMA HandleAnswers ==
  ASSUME used \in SUBSET Slots, NEW r \in Requests, NEW current \in Slots
  PROVE  AnswerTo(Handle(r, current), r)
<1>0. <<>> \in Seq(Entries) /\ TRUE \in BOOLEAN /\ FALSE \in BOOLEAN
  BY EmptySeq
<1>1. r.good \in BOOLEAN /\ r.cmd \in Commands
  BY DEF Requests
<1>2. ASSUME ~(r.cmd = "list" /\ r.good)
      PROVE  AnswerTo(Error(r), r)
  <2>1. CASE r.cmd # "list"
    BY <1>0, <2>1, SingleFrame DEF Error
  <2>2. CASE r.cmd = "list"
    BY <1>0, SingleFrame DEF Error
  <2>3. QED
    BY <2>1, <2>2
<1>3. CASE ~r.good \/ r.cmd = "unknown"
  <2>1. Handle(r, current) = Error(r)
    BY <1>3, Zenon DEF Handle
  <2>2. ~(r.cmd = "list" /\ r.good)
    BY <1>3
  <2>3. QED
    BY <1>2, <2>1, <2>2
<1>4. CASE r.good /\ r.cmd = "list"
  <2>1. Handle(r, current) = Frames(r)
    BY <1>4 DEF Handle
  <2>2. Len(Frames(r)) \in Nat \ {0}
    BY <1>4, FramesCarry, LenProperties, EmptySeq
  <2>3. Answer(r.cmd) = "list"
    BY <1>4 DEF Answer
  <2> DEFINE fs == Frames(r)
  <2>4. /\ fs \in Seq(Replies) /\ fs # <<>>
        /\ \A i \in 1 .. Len(fs) :
             /\ fs[i].answer = "list" /\ fs[i].good
             /\ fs[i].whole = TaskList /\ fs[i].number = r.number
             /\ fs[i].more <=> i < Len(fs)
        /\ Carries(fs, 0, TaskList)
    BY <1>4, FramesCarry
  <2>5. 1 \in 1 .. Len(fs)
    BY <2>2
  <2> HIDE DEF fs
  <2>6. fs[1].answer = "list" /\ fs[1].good /\ fs[1].whole = TaskList /\ fs[1].number = r.number
    BY <2>4, <2>5
  <2>7. OneAnswer(fs)
    BY <2>4, <2>6 DEF OneAnswer
  <2>8. AnswerTo(fs, r)
    BY <2>3, <2>4, <2>6, <2>7 DEF AnswerTo, Listing
  <2>9. QED
    BY <2>1, <2>8 DEF fs
<1>5. CASE r.good /\ r.cmd \in {"info", "stack"}
  <2> DEFINE slot == IF r.target = Current THEN current ELSE r.target
  <2>1. Handle(r, current) = AboutTask(r, slot)
    BY <1>5 DEF Handle
  <2>2. CASE slot \notin Slots \/ (r.cmd = "stack" /\ slot \notin used)
    <3>1. AboutTask(r, slot) = Error(r)
      BY <2>2 DEF AboutTask
    <3>2. QED
      BY <1>2, <1>5, <2>1, <3>1
  <2>3. CASE ~(slot \notin Slots \/ (r.cmd = "stack" /\ slot \notin used))
    <3>1. AboutTask(r, slot) = <<Frame(r, TRUE, FALSE, <<Entry(slot)>>, <<Entry(slot)>>)>>
      BY <2>3 DEF AboutTask
    <3>2. Entry(slot) \in Entries
      BY <2>3 DEF Entry, Entries
    <3>3. <<Entry(slot)>> \in Seq(Entries)
      BY <3>2
    <3> HIDE DEF slot
    <3>4. QED
      BY <1>0, <1>5, <2>1, <3>1, <3>3, SingleFrame
  <2>4. QED
    BY <2>2, <2>3
<1>6. CASE r.good /\ r.cmd \in {"stats", "reset"}
  <2>1. Handle(r, current) = <<Frame(r, TRUE, FALSE, <<>>, <<>>)>>
    BY <1>6 DEF Handle
  <2>2. QED
    BY <1>0, <1>6, <2>1, SingleFrame
<1>7. QED
  BY <1>1, <1>3, <1>4, <1>5, <1>6 DEF Commands, Kinds

----------------------------------------------------------------------------
(* What the user's commands do. *)

LEMMA AskFacts ==
  ASSUME TypeOK, Ask
  PROVE  /\ \E q \in Requests : requests' = Append(requests, q)
         /\ \/ items' = items
            \/ items' = <<>> /\ (Listing(replies) => ~asked'["list"].alone)
         /\ asked' \in [Kinds -> [number : RequestNumbers, alone : BOOLEAN]]
         /\ \A kind \in Kinds : /\ asked'[kind].number = asked[kind].number
                                /\ asked'[kind].alone => asked[kind].alone
<1>1. PICK cmd \in Kinds \cup {"stack"} :
        \E target \in IF cmd \in {"info", "stack"} THEN Targets \cup {Current} ELSE {Current} :
          /\ Queued(Request(cmd, TRUE, target, 0))
          /\ items' = Accumulator(cmd)
          /\ asked' = [kind \in Kinds |->
                         [asked[kind] EXCEPT !.alone = asked[kind].alone /\ ~Spoils(kind, cmd)]]
          /\ UNCHANGED <<used, replies, pending>>
  BY DEF Ask
<1>2. PICK target \in Targets \cup {Current} : Queued(Request(cmd, TRUE, target, 0))
  BY <1>1
<1>3. Request(cmd, TRUE, target, 0) \in Requests
  BY DEF Request, Requests, RequestNumbers, Commands
<1>4. requests' = Append(requests, Request(cmd, TRUE, target, 0))
  BY <1>2 DEF Queued
<1> DEFINE kept(kind) == asked[kind].alone /\ ~Spoils(kind, cmd)
<1>5. ASSUME NEW kind \in Kinds
      PROVE  /\ asked'[kind] \in [number : RequestNumbers, alone : BOOLEAN]
             /\ asked'[kind].number = asked[kind].number
             /\ asked'[kind].alone <=> kept(kind)
  <2>1. asked'[kind] = [asked[kind] EXCEPT !.alone = kept(kind)]
    BY <1>1
  <2>2. asked[kind] \in [number : RequestNumbers, alone : BOOLEAN]
    BY DEF TypeOK
  <2>3. kept(kind) \in BOOLEAN
    OBVIOUS
  <2> HIDE DEF kept
  <2>4. PICK b \in BOOLEAN : b = kept(kind)
    BY <2>3
  <2>5. asked'[kind] = [number |-> asked[kind].number, alone |-> b]
    BY <2>1, <2>2, <2>4
  <2>6. asked'[kind].alone = b
    BY <2>5
  <2>7. asked'[kind].alone <=> kept(kind)
    BY <2>4, <2>6, Zenon
  <2>8. QED
    BY <2>2, <2>5, <2>7
<1>6. DOMAIN asked' = Kinds /\ asked' = [kind \in Kinds |-> asked'[kind]]
  BY <1>1
<1>7. asked' \in [Kinds -> [number : RequestNumbers, alone : BOOLEAN]]
  BY <1>5, <1>6
<1>8. \/ items' = items
      \/ items' = <<>> /\ (Listing(replies) => ~asked'["list"].alone)
  <2>1. CASE cmd # "list"
    BY <1>1, <2>1 DEF Accumulator
  <2>2. CASE cmd = "list" /\ ~Listing(replies)
    BY <1>1, <2>2 DEF Accumulator
  <2>3. CASE cmd = "list" /\ Listing(replies)
    <3>1. replies[1] \in ToSet(replies)
      BY <2>3, EmptySeq, LenProperties DEF TypeOK, Listing, ToSet
    <3>2. Spoils("list", cmd)
      BY <2>3, <3>1 DEF Spoils, Listing
    <3>3. ~asked'["list"].alone
      BY <1>5, <3>2 DEF Kinds
    <3>4. QED
      BY <1>1, <2>3, <3>3 DEF Accumulator
  <2>4. QED
    BY <2>1, <2>2, <2>3
<1>9. QED
  BY <1>3, <1>4, <1>5, <1>7, <1>8

LEMMA AskJsonFacts ==
  ASSUME TypeOK, AskJson
  PROVE  \E cmd \in Kinds : \E q \in Requests :
           /\ q.cmd = cmd /\ requests' = Append(requests, q)
           /\ items' = items \/ (cmd = "list" /\ items' = <<>>)
           /\ pending' \in [Kinds -> BOOLEAN]
           /\ asked' \in [Kinds -> [number : RequestNumbers, alone : BOOLEAN]]
           /\ \A kind \in Kinds \ {cmd} : asked'[kind] = asked[kind]
           /\ asked'[cmd].number = q.number
           /\ asked'[cmd].alone => ~Outstanding(cmd)
<1>1. PICK cmd \in Kinds :
        \E target \in IF cmd = "info" THEN Targets \cup {Current} ELSE {Current} :
          /\ Queued(Request(cmd, TRUE, target, Fresh))
          /\ items' = Accumulator(cmd)
          /\ pending' = [pending EXCEPT ![cmd] = TRUE]
          /\ asked' = [asked EXCEPT
                         ![cmd] = [number |-> Request(cmd, TRUE, target, Fresh).number,
                                   alone |-> ~Outstanding(cmd) /\ ~pending[cmd]]]
  BY DEF AskJson
<1>2. PICK target \in Targets \cup {Current} :
        /\ Queued(Request(cmd, TRUE, target, Fresh))
        /\ asked' = [asked EXCEPT
                       ![cmd] = [number |-> Request(cmd, TRUE, target, Fresh).number,
                                 alone |-> ~Outstanding(cmd) /\ ~pending[cmd]]]
  BY <1>1
<1> DEFINE q == Request(cmd, TRUE, target, Fresh)
           alone == ~Outstanding(cmd) /\ ~pending[cmd]
<1>3. Fresh \in RequestNumbers
  BY DEF Fresh, RequestNumbers
<1>4. q \in Requests /\ q.cmd = cmd /\ q.number = Fresh
  BY <1>3 DEF Request, Requests, Commands
<1>5. requests' = Append(requests, q)
  BY <1>2 DEF Queued
<1>6. PICK b \in BOOLEAN : b = alone
  <2>1. alone \in BOOLEAN
    OBVIOUS
  <2>2. QED
    BY <2>1
<1>7. asked' = [asked EXCEPT ![cmd] = [number |-> q.number, alone |-> b]]
  BY <1>2, <1>6
<1>8. b => ~Outstanding(cmd)
  BY <1>6, Zenon
<1> HIDE DEF q, alone
<1>9. /\ asked' \in [Kinds -> [number : RequestNumbers, alone : BOOLEAN]]
      /\ \A kind \in Kinds \ {cmd} : asked'[kind] = asked[kind]
      /\ asked'[cmd] = [number |-> q.number, alone |-> b]
  BY <1>3, <1>4, <1>7 DEF TypeOK
<1>10. asked'[cmd].number = q.number /\ asked'[cmd].alone = b
  BY <1>9
<1>11. asked'[cmd].alone => ~Outstanding(cmd)
  BY <1>8, <1>10, Zenon
<1>12. pending' \in [Kinds -> BOOLEAN]
  BY <1>1 DEF TypeOK
<1>13. items' = items \/ (cmd = "list" /\ items' = <<>>)
  BY <1>1 DEF Accumulator
<1>14. QED
  BY <1>4, <1>5, <1>9, <1>10, <1>11, <1>12, <1>13

\* Emptying the accumulator in the middle of a list leaves it without its
\* beginning.
LEMMA CollectingKept ==
  ASSUME TypeOK, Collecting, replies' = replies,
         \/ items' = items
         \/ items' = <<>> /\ (Listing(replies) => ~asked'["list"].alone),
         Listing(replies) /\ asked'["list"].alone => asked["list"].alone
  PROVE  Collecting'
<1>1. CASE ~Listing(replies)
  <2>1. items = <<>> /\ items' = <<>>
    BY <1>1 DEF Collecting
  <2>2. QED
    BY <1>1, <2>1 DEF Collecting
<1>2. CASE Listing(replies)
  <2> DEFINE w == replies[1].whole
  <2>1. PICK at \in 0 .. Len(w) : \E from \in 0 .. at :
          /\ Carries(replies, at, w)
          /\ items = SubSeq(w, from + 1, at)
          /\ asked["list"].alone => from = 0
    BY <1>2 DEF Collecting, CollectedUpTo
  <2>2. PICK from \in 0 .. at :
          /\ items = SubSeq(w, from + 1, at)
          /\ asked["list"].alone => from = 0
    BY <2>1
  <2>3. \E fr \in 0 .. at : items' = SubSeq(w, fr + 1, at) /\ (asked'["list"].alone => fr = 0)
    <3>1. CASE items' = items
      BY <1>2, <2>2, <3>1
    <3>2. CASE items' = <<>> /\ ~asked'["list"].alone
      <4>1. at \in Int /\ at + 1 \in Int /\ at < at + 1 /\ at \in 0 .. at
        BY EmptySeq, LenProperties, <1>2 DEF TypeOK, Listing, Replies
      <4>2. SubSeq(w, at + 1, at) = <<>>
        BY <4>1, SubSeqEmpty
      <4>3. QED
        BY <3>2, <4>1, <4>2
    <3>3. QED
      BY <1>2, <3>1, <3>2
  <2>4. CollectedUpTo(replies', items', replies'[1].whole, asked'["list"].alone)
    BY <2>1, <2>3 DEF CollectedUpTo
  <2>5. QED
    BY <1>2, <2>4 DEF Collecting
<1>3. QED
  BY <1>1, <1>2

\* What is asked later is answered later.
LEMMA FirstKept ==
  ASSUME NEW kind \in Kinds, NEW n, NEW fs, NEW rs \in Seq(Requests), NEW q \in Requests,
         First(kind, n, fs, rs)
  PROVE  First(kind, n, fs, Append(rs, q))
<1>1. \A i \in 1 .. Len(rs) : Append(rs, q)[i] = rs[i]
  BY AppendProperties
<1>2. Len(Append(rs, q)) = Len(rs) + 1 /\ Len(rs) \in Nat
  BY AppendProperties, LenProperties
<1>3. CASE fs # <<>> /\ fs[1].answer = kind /\ fs[1].number = n
  BY <1>3 DEF First
<1>4. CASE /\ fs # <<>> => fs[1].answer # kind
           /\ \E i \in 1 .. Len(rs) :
                /\ Answer(rs[i].cmd) = kind /\ rs[i].number = n
                /\ \A j \in 1 .. i - 1 : Answer(rs[j].cmd) # kind
  <2>1. PICK i \in 1 .. Len(rs) :
                /\ Answer(rs[i].cmd) = kind /\ rs[i].number = n
                /\ \A j \in 1 .. i - 1 : Answer(rs[j].cmd) # kind
    BY <1>4
  <2>2. i \in 1 .. Len(Append(rs, q)) /\ Append(rs, q)[i] = rs[i]
    BY <1>1, <1>2
  <2>3. \A j \in 1 .. i - 1 : Append(rs, q)[j] = rs[j]
    BY <1>1, <1>2
  <2>4. QED
    BY <1>4, <2>1, <2>2, <2>3 DEF First
<1>5. QED
  BY <1>3, <1>4 DEF First

LEMMA FirstAdded ==
  ASSUME TypeOK, NEW kind \in Kinds, NEW q \in Requests, q.cmd = kind, ~Outstanding(kind)
  PROVE  First(kind, q.number, replies, Append(requests, q))
<1>1. /\ \A i \in 1 .. Len(requests) : Append(requests, q)[i] = requests[i]
      /\ Append(requests, q)[Len(requests) + 1] = q
      /\ Len(Append(requests, q)) = Len(requests) + 1 /\ Len(requests) \in Nat
  BY AppendProperties, LenProperties DEF TypeOK
<1>2. Answer(q.cmd) = kind
  BY DEF Answer, Kinds
<1>3. \A i \in 1 .. Len(requests) : requests[i] \in ToSet(requests)
  BY LenProperties DEF TypeOK, ToSet
<1>4. replies # <<>> => replies[1] \in ToSet(replies)
  BY EmptySeq, LenProperties DEF TypeOK, ToSet
<1>5. replies # <<>> => replies[1].answer # kind
  BY <1>4 DEF Outstanding
<1>6. \A j \in 1 .. Len(requests) : Answer(Append(requests, q)[j].cmd) # kind
  BY <1>1, <1>3 DEF Outstanding
<1>7. QED
  BY <1>1, <1>2, <1>5, <1>6 DEF First

----------------------------------------------------------------------------
(* Every step. *)

LEMMA AskIInv ==
  ASSUME IInv, Ask
  PROVE  IInv'
<1> USE DEF IInv
<1>1. used' = used /\ replies' = replies /\ pending' = pending
  BY DEF Ask
<1>2. PICK q \in Requests : requests' = Append(requests, q)
  BY AskFacts
<1>3. /\ \/ items' = items
         \/ items' = <<>> /\ (Listing(replies) => ~asked'["list"].alone)
      /\ asked' \in [Kinds -> [number : RequestNumbers, alone : BOOLEAN]]
      /\ \A kind \in Kinds : /\ asked'[kind].number = asked[kind].number
                             /\ asked'[kind].alone => asked[kind].alone
  BY AskFacts
<1>4. requests' \in Seq(Requests)
  BY <1>2, AppendProperties DEF TypeOK
<1>5. items' \in Seq(Entries)
  BY <1>3, EmptySeq DEF TypeOK
<1>6. TypeOK'
  BY <1>1, <1>3, <1>4, <1>5 DEF TypeOK
<1>7. Collecting'
  BY <1>1, <1>3, CollectingKept DEF Kinds
<1>8. ASSUME NEW kind \in Kinds, asked'[kind].alone
      PROVE  First(kind, asked'[kind].number, replies', requests')
  <2>1. First(kind, asked[kind].number, replies, requests)
    BY <1>3, <1>8 DEF ComesFirst
  <2>2. requests \in Seq(Requests)
    BY DEF TypeOK
  <2>3. First(kind, asked[kind].number, replies, Append(requests, q))
    BY <2>1, <2>2, FirstKept
  <2>4. QED
    BY <1>1, <1>2, <1>3, <2>3
<1>9. ComesFirst'
  BY <1>8 DEF ComesFirst
<1>10. QED
  BY <1>1, <1>6, <1>7, <1>9 DEF OneAnswer

LEMMA AskRawIInv ==
  ASSUME IInv, AskRaw
  PROVE  IInv'
<1> USE DEF IInv
<1>1. UNCHANGED <<used, replies, items, pending, asked>>
  BY DEF AskRaw
<1>2. PICK cmd \in Commands, good \in BOOLEAN : Queued(Request(cmd, good, Current, 0))
  BY DEF AskRaw
<1> DEFINE q == Request(cmd, good, Current, 0)
<1>3. q \in Requests
  BY DEF Request, Requests, RequestNumbers
<1>4. requests' = Append(requests, q)
  BY <1>2 DEF Queued
<1> HIDE DEF q
<1>5. requests' \in Seq(Requests)
  BY <1>3, <1>4, AppendProperties DEF TypeOK
<1>6. TypeOK' /\ OneAnswer(replies)'
  BY <1>1, <1>5 DEF TypeOK, OneAnswer
<1>7. Collecting'
  BY <1>1, CollectingKept
<1>8. ASSUME NEW kind \in Kinds, asked'[kind].alone
      PROVE  First(kind, asked'[kind].number, replies', requests')
  <2>1. First(kind, asked[kind].number, replies, requests)
    BY <1>1, <1>8 DEF ComesFirst
  <2>2. requests \in Seq(Requests)
    BY DEF TypeOK
  <2>3. First(kind, asked[kind].number, replies, Append(requests, q))
    BY <1>3, <2>1, <2>2, FirstKept
  <2>4. QED
    BY <1>1, <1>4, <2>3
<1>9. QED
  BY <1>6, <1>7, <1>8 DEF ComesFirst

LEMMA AskJsonIInv ==
  ASSUME IInv, AskJson
  PROVE  IInv'
<1> USE DEF IInv
<1>1. used' = used /\ replies' = replies
  BY DEF AskJson
<1>2. PICK cmd \in Kinds, q \in Requests :
           /\ q.cmd = cmd /\ requests' = Append(requests, q)
           /\ items' = items \/ (cmd = "list" /\ items' = <<>>)
           /\ pending' \in [Kinds -> BOOLEAN]
           /\ asked' \in [Kinds -> [number : RequestNumbers, alone : BOOLEAN]]
           /\ \A kind \in Kinds \ {cmd} : asked'[kind] = asked[kind]
           /\ asked'[cmd].number = q.number
           /\ asked'[cmd].alone => ~Outstanding(cmd)
  BY AskJsonFacts
<1>3. requests' \in Seq(Requests)
  BY <1>2, AppendProperties DEF TypeOK
<1>4. items' \in Seq(Entries)
  BY <1>2, EmptySeq DEF TypeOK
<1>5. TypeOK' /\ OneAnswer(replies)'
  BY <1>1, <1>2, <1>3, <1>4 DEF TypeOK, OneAnswer
<1>6. cmd = "list" /\ Listing(replies) => ~asked'["list"].alone
  <2>1. ASSUME Listing(replies)
        PROVE  Outstanding("list")
    <3>1. replies[1] \in ToSet(replies)
      BY <2>1, EmptySeq, LenProperties DEF TypeOK, Listing, ToSet
    <3>2. QED
      BY <2>1, <3>1 DEF Outstanding, Listing
  <2>2. QED
    BY <1>2, <2>1
<1>7. Listing(replies) /\ asked'["list"].alone => asked["list"].alone
  <2>1. CASE cmd = "list"
    BY <1>6, <2>1
  <2>2. CASE cmd # "list"
    BY <1>2, <2>2 DEF Kinds
  <2>3. QED
    BY <2>1, <2>2
<1>8. Collecting'
  BY <1>1, <1>2, <1>6, <1>7, CollectingKept
<1>9. ASSUME NEW kind \in Kinds, asked'[kind].alone
      PROVE  First(kind, asked'[kind].number, replies', requests')
  <2>1. CASE kind = cmd
    BY <1>1, <1>2, <1>9, <2>1, FirstAdded
  <2>2. CASE kind # cmd
    <3>1. asked'[kind] = asked[kind]
      BY <1>2, <2>2
    <3>2. First(kind, asked[kind].number, replies, requests)
      BY <1>9, <3>1 DEF ComesFirst
    <3>3. requests \in Seq(Requests)
      BY DEF TypeOK
    <3>4. First(kind, asked[kind].number, replies, Append(requests, q))
      BY <3>2, <3>3, FirstKept
    <3>5. QED
      BY <1>1, <1>2, <3>1, <3>4
  <2>3. QED
    BY <2>1, <2>2
<1>10. QED
  BY <1>5, <1>8, <1>9 DEF ComesFirst

LEMMA KernelTickIInv ==
  ASSUME IInv, KernelTick
  PROVE  IInv'
<1> USE DEF IInv
<1> DEFINE r == Head(requests)
<1>1. /\ replies = <<>> /\ requests # <<>> /\ requests' = Tail(requests)
      /\ used' = used /\ items' = items /\ pending' = pending /\ asked' = asked
  BY DEF KernelTick
<1>2. /\ r \in Requests /\ r = requests[1] /\ requests' \in Seq(Requests)
      /\ Len(requests) \in Nat /\ Len(requests') = Len(requests) - 1
      /\ \A i \in 1 .. Len(requests') : requests'[i] = requests[i + 1]
  BY <1>1, HeadTailProperties, LenProperties DEF TypeOK
<1> HIDE DEF r
<1>3. PICK current \in Slots : replies' = Handle(r, current)
  BY DEF KernelTick, r
<1>4. AnswerTo(replies', r)
  BY <1>2, <1>3, HandleAnswers DEF TypeOK
<1>5. TypeOK'
  BY <1>1, <1>2, <1>4 DEF TypeOK, AnswerTo
<1>6. OneAnswer(replies)'
  BY <1>4 DEF AnswerTo
<1>7. items' = <<>>
  BY <1>1 DEF Collecting, Listing
<1>8. Listing(replies') =>
        CollectedUpTo(replies', items', replies'[1].whole, asked'["list"].alone)
  <2>1. SUFFICES ASSUME Listing(replies')
                 PROVE  CollectedUpTo(replies', items', replies'[1].whole, asked'["list"].alone)
    OBVIOUS
  <2> DEFINE w == replies'[1].whole
  <2>2. Carries(replies', 0, w)
    BY <1>4, <2>1 DEF AnswerTo
  <2>3. w \in Seq(Entries)
    <3>1. replies' \in Seq(Replies) /\ replies' # <<>>
      BY <1>5, <2>1 DEF TypeOK, Listing
    <3>2. replies'[1] \in Replies
      BY <3>1, EmptySeq, ElementOfSeq
    <3>3. QED
      BY <3>2 DEF Replies
  <2>4. 0 \in 0 .. Len(w) /\ 0 \in 0 .. 0 /\ 0 + 1 \in Int
    BY <2>3, LenProperties
  <2>5. SubSeq(w, 0 + 1, 0) = <<>>
    BY <2>4, SubSeqEmpty
  <2> HIDE DEF w
  <2>6. CollectedUpTo(replies', items', w, asked'["list"].alone)
    BY <1>7, <2>2, <2>4, <2>5 DEF CollectedUpTo
  <2>7. QED
    BY <2>6 DEF w
<1>9. Collecting'
  BY <1>4, <1>7, <1>8 DEF Collecting, AnswerTo
<1>10. ASSUME NEW kind \in Kinds, asked'[kind].alone
       PROVE  First(kind, asked'[kind].number, replies', requests')
  <2>1. PICK i \in 1 .. Len(requests) :
          /\ Answer(requests[i].cmd) = kind /\ requests[i].number = asked[kind].number
          /\ \A j \in 1 .. i - 1 : Answer(requests[j].cmd) # kind
    BY <1>1, <1>10 DEF ComesFirst, First
  <2>2. CASE Answer(r.cmd) = kind
    <3>1. i = 1
      BY <1>2, <2>1, <2>2
    <3>2. QED
      BY <1>1, <1>2, <1>4, <2>1, <2>2, <3>1 DEF First, AnswerTo
  <2>3. CASE Answer(r.cmd) # kind
    <3>1. i # 1
      BY <1>2, <2>1, <2>3
    <3> DEFINE h == i - 1
    <3>2. h \in 1 .. Len(requests') /\ h + 1 = i
      BY <1>2, <3>1
    <3>3. \A j \in 1 .. h - 1 : j \in 1 .. Len(requests') /\ j + 1 \in 1 .. i - 1
      BY <1>2, <3>2
    <3> HIDE DEF h
    <3>4. Answer(requests'[h].cmd) = kind /\ requests'[h].number = asked[kind].number
      BY <1>2, <2>1, <3>2
    <3>5. \A j \in 1 .. h - 1 : Answer(requests'[j].cmd) # kind
      BY <1>2, <2>1, <3>3
    <3>6. QED
      BY <1>1, <1>4, <2>3, <3>2, <3>4, <3>5 DEF First, AnswerTo
  <2>4. QED
    BY <2>2, <2>3
<1>11. QED
  BY <1>5, <1>6, <1>9, <1>10 DEF ComesFirst

\* The frames after the first carry what comes after its entries.
LEMMA CarriesOn ==
  ASSUME NEW fs \in Seq(Replies), fs # <<>>, NEW w \in Seq(Entries),
         NEW at \in 0 .. Len(w), Carries(fs, at, w)
  PROVE  \E next \in at .. Len(w) :
           /\ fs[1].items = SubSeq(w, at + 1, next)
           /\ Carries(Tail(fs), next, w)
           /\ Len(fs) = 1 => next = Len(w)
<1> DEFINE n == Len(fs)
           rest == Tail(fs)
<1>1. /\ n \in Nat \ {0} /\ Len(rest) = n - 1 /\ Len(w) \in Nat
      /\ \A i \in 1 .. n - 1 : rest[i] = fs[i + 1]
  BY HeadTailProperties, EmptySeq, LenProperties
<1>2. PICK cut \in [1 .. n + 1 -> 0 .. Len(w)] :
        /\ cut[1] = at /\ cut[n + 1] = Len(w)
        /\ \A i \in 1 .. n :
             cut[i] <= cut[i + 1] /\ fs[i].items = SubSeq(w, cut[i] + 1, cut[i + 1])
  BY DEF Carries
<1> HIDE DEF n, rest
<1>3. 1 \in 1 .. n /\ 1 + 1 = 2 /\ 2 \in 1 .. n + 1
  BY <1>1
<1>4. at <= cut[2] /\ fs[1].items = SubSeq(w, at + 1, cut[2]) /\ cut[2] \in 0 .. Len(w)
  BY <1>2, <1>3
<1>5. cut[2] \in at .. Len(w)
  BY <1>1, <1>4
<1> DEFINE tail == [i \in 1 .. Len(rest) + 1 |-> cut[i + 1]]
<1>6. tail \in [1 .. Len(rest) + 1 -> 0 .. Len(w)]
  <2>1. ASSUME NEW i \in 1 .. Len(rest) + 1
        PROVE  cut[i + 1] \in 0 .. Len(w)
    <3>1. i + 1 \in 1 .. n + 1
      BY <1>1
    <3>2. QED
      BY <1>2, <3>1
  <2>2. QED
    BY <2>1
<1>7. tail[1] = cut[2] /\ tail[Len(rest) + 1] = Len(w)
  BY <1>1, <1>2
<1>8. ASSUME NEW i \in 1 .. Len(rest)
      PROVE  tail[i] <= tail[i + 1] /\ rest[i].items = SubSeq(w, tail[i] + 1, tail[i + 1])
  <2> DEFINE j == i + 1
  <2>1. j \in 1 .. n /\ tail[i] = cut[j] /\ tail[i + 1] = cut[j + 1] /\ rest[i] = fs[j]
    BY <1>1
  <2> HIDE DEF j, tail
  <2>2. QED
    BY <1>2, <2>1
<1> HIDE DEF tail
<1>9. Carries(rest, cut[2], w)
  BY <1>6, <1>7, <1>8 DEF Carries
<1>10. n = 1 => cut[2] = Len(w)
  BY <1>2
<1>11. QED
  BY <1>4, <1>5, <1>9, <1>10 DEF n, rest

\* A part of a list followed by the next part.
LEMMA PartsJoin ==
  ASSUME NEW w \in Seq(Entries), NEW at \in 0 .. Len(w), NEW from \in 0 .. at,
         NEW next \in at .. Len(w)
  PROVE  SubSeq(w, from + 1, at) \o SubSeq(w, at + 1, next) = SubSeq(w, from + 1, next)
<1>1. Len(w) \in Nat
  BY LenProperties
<1>2. from + 1 \in 1 .. Len(w) + 1 /\ at \in (from + 1) - 1 .. Len(w) /\ next \in at .. Len(w)
  BY <1>1
<1>3. QED
  BY <1>2, ConcatAdjacentSubSeq

LEMMA DeliverIInv ==
  ASSUME IInv, Deliver
  PROVE  IInv'
<1> USE DEF IInv
<1> DEFINE f == replies[1]
           rest == Tail(replies)
           n == Len(replies)
<1>1. /\ replies # <<>> /\ replies' = rest /\ requests' = requests /\ used' = used
      /\ items' = Collected(f)
  BY DEF Deliver
<1>2. IF Answered(f)
      THEN /\ pending' = [pending EXCEPT ![f.answer] = FALSE]
           /\ asked' = [asked EXCEPT ![f.answer] = Nobody]
      ELSE UNCHANGED <<pending, asked>>
  BY DEF Deliver
<1>3. /\ n \in Nat \ {0} /\ rest \in Seq(Replies) /\ Len(rest) = n - 1
      /\ \A i \in 1 .. n - 1 : rest[i] = replies[i + 1]
  BY <1>1, HeadTailProperties, EmptySeq, LenProperties DEF TypeOK
<1>4. f \in Replies
  BY <1>3, ElementOfSeq DEF TypeOK
<1>5. /\ \A i \in 1 .. n :
           /\ replies[i].answer = f.answer /\ replies[i].good = f.good
           /\ replies[i].whole = f.whole /\ replies[i].number = f.number
           /\ replies[i].more <=> i < n
      /\ f.more <=> 1 < n
  BY <1>3 DEF OneAnswer
<1>6. f.more => /\ rest # <<>> /\ 1 \in 1 .. Len(rest)
                /\ rest[1].answer = f.answer /\ rest[1].good = f.good
                /\ rest[1].whole = f.whole /\ rest[1].number = f.number
  <2> SUFFICES ASSUME f.more
               PROVE  /\ rest # <<>> /\ 1 \in 1 .. Len(rest)
                      /\ rest[1].answer = f.answer /\ rest[1].good = f.good
                      /\ rest[1].whole = f.whole /\ rest[1].number = f.number
    OBVIOUS
  <2>1. 1 < n
    BY <1>5
  <2> HIDE DEF f, rest, n
  <2>2. 1 \in 1 .. n - 1 /\ 1 + 1 = 2 /\ 2 \in 1 .. n
    BY <1>3, <2>1
  <2>3. rest[1] = replies[2]
    BY <1>3, <2>2
  <2>4. rest # <<>> /\ 1 \in 1 .. Len(rest)
    BY <1>3, <2>1, EmptySeq
  <2>5. QED
    BY <1>5, <2>2, <2>3, <2>4
<1>7. ~f.more => n = 1 /\ rest = <<>>
  BY <1>3, <1>5, EmptySeq
<1> HIDE DEF f, rest, n
<1>8. items \in Seq(Entries) /\ f.items \in Seq(Entries) /\ f.whole \in Seq(Entries)
  BY <1>4 DEF TypeOK, Replies
<1>9. items' \in Seq(Entries)
  <2>1. items \o f.items \in Seq(Entries) /\ <<>> \in Seq(Entries)
    BY <1>8, ConcatProperties, EmptySeq
  <2>2. QED
    BY <1>1, <1>8, <2>1 DEF Collected
<1>10. /\ pending' \in [Kinds -> BOOLEAN]
       /\ asked' \in [Kinds -> [number : RequestNumbers, alone : BOOLEAN]]
  <2>1. Nobody \in [number : RequestNumbers, alone : BOOLEAN]
    BY DEF Nobody, RequestNumbers
  <2>2. QED
    BY <1>2, <2>1 DEF TypeOK, Answered
<1>11. TypeOK'
  BY <1>1, <1>3, <1>9, <1>10 DEF TypeOK
<1>12. OneAnswer(replies)'
  <2>1. ASSUME NEW i \in 1 .. Len(rest)
        PROVE  /\ rest[i].answer = rest[1].answer /\ rest[i].good = rest[1].good
               /\ rest[i].whole = rest[1].whole /\ rest[i].number = rest[1].number
               /\ rest[i].more <=> i < Len(rest)
    <3>1. /\ i + 1 \in 1 .. n /\ rest[i] = replies[i + 1] /\ (i + 1 < n <=> i < Len(rest))
          /\ 1 + 1 \in 1 .. n /\ rest[1] = replies[1 + 1]
      BY <1>3
    <3>2. QED
      BY <1>5, <3>1
  <2>2. QED
    BY <1>1, <2>1 DEF OneAnswer
<1>13. Listing(replies) <=> f.answer = "list" /\ f.good
  BY <1>1 DEF Listing, f
<1>14. CASE ~f.more
  <2>1. replies' = <<>> /\ ~Listing(replies')
    BY <1>1, <1>7, <1>14 DEF Listing
  <2>2. items' = <<>>
    BY <1>1, <1>13, <1>14 DEF Collected, Collecting
  <2>3. Collecting'
    BY <2>1, <2>2, EmptySeq DEF Collecting
  <2>4. ASSUME NEW kind \in Kinds, asked'[kind].alone
        PROVE  First(kind, asked'[kind].number, replies', requests')
    <3>1. kind # f.answer
      <4>1. ASSUME kind = f.answer
            PROVE  FALSE
        <5>1. Answered(f)
          BY <1>14, <4>1 DEF Answered
        <5>2. asked'[kind] = Nobody
          BY <1>2, <4>1, <5>1 DEF TypeOK
        <5>3. QED
          BY <2>4, <5>2 DEF Nobody
      <4>2. QED
        BY <4>1
    <3>2. asked'[kind] = asked[kind]
      BY <1>2, <3>1 DEF TypeOK
    <3>3. QED
      BY <1>1, <2>1, <2>4, <3>1, <3>2 DEF ComesFirst, First, f
  <2>5. QED
    BY <1>11, <1>12, <2>3, <2>4 DEF ComesFirst
<1>15. CASE f.more
  <2>1. UNCHANGED <<pending, asked>>
    BY <1>2, <1>15 DEF Answered
  <2>2. Listing(rest) <=> Listing(replies)
    BY <1>6, <1>13, <1>15 DEF Listing
  <2>3. ASSUME Listing(replies)
        PROVE  Collecting'
    <3>1. items' = items \o f.items
      BY <1>1, <1>13, <1>15, <2>3 DEF Collected
    <3> DEFINE w == f.whole
    <3>place. PICK at \in 0 .. Len(w) : \E from \in 0 .. at :
            /\ Carries(replies, at, w)
            /\ items = SubSeq(w, from + 1, at)
            /\ asked["list"].alone => from = 0
      BY <2>3 DEF Collecting, CollectedUpTo, f
    <3>2. PICK from \in 0 .. at :
            /\ Carries(replies, at, w)
            /\ items = SubSeq(w, from + 1, at)
            /\ asked["list"].alone => from = 0
      BY <3>place
    <3>3. PICK next \in at .. Len(w) :
            f.items = SubSeq(w, at + 1, next) /\ Carries(rest, next, w)
      BY <1>1, <1>8, <3>2, CarriesOn DEF TypeOK, f, rest
    <3>4. items' = SubSeq(w, from + 1, next)
      <4>1. w \in Seq(Entries)
        BY <1>8
      <4>2. SubSeq(w, from + 1, at) \o SubSeq(w, at + 1, next) = SubSeq(w, from + 1, next)
        BY <4>1, PartsJoin
      <4> HIDE DEF w
      <4>3. QED
        BY <3>1, <3>2, <3>3, <4>2
    <3>5. next \in 0 .. Len(w) /\ from \in 0 .. next
      BY <1>8, LenProperties
    <3> HIDE DEF w
    <3>6. CollectedUpTo(rest, items', w, asked'["list"].alone)
      BY <2>1, <3>2, <3>3, <3>4, <3>5 DEF CollectedUpTo
    <3>7. w = rest[1].whole
      BY <1>6, <1>15 DEF w
    <3>8. QED
      BY <1>1, <2>2, <2>3, <3>6, <3>7 DEF Collecting
  <2>4. ASSUME ~Listing(replies)
        PROVE  Collecting'
    <3>1. items' = <<>>
      BY <1>1, <1>13, <2>4 DEF Collected, Collecting
    <3>2. \A i \in 1 .. Len(rest) : rest[i].items = rest[i].whole
      <4>1. \A i \in 1 .. Len(rest) : i + 1 \in 1 .. n /\ rest[i] = replies[i + 1]
        BY <1>3
      <4>2. QED
        BY <2>4, <4>1 DEF Collecting, n
    <3>3. QED
      BY <1>1, <2>2, <2>4, <3>1, <3>2 DEF Collecting
  <2>5. Collecting'
    BY <2>3, <2>4
  <2>6. ASSUME NEW kind \in Kinds, asked'[kind].alone
        PROVE  First(kind, asked'[kind].number, replies', requests')
    BY <1>1, <1>6, <1>15, <2>1, <2>6 DEF ComesFirst, First, f
  <2>7. QED
    BY <1>11, <1>12, <2>5, <2>6 DEF ComesFirst
<1>16. QED
  BY <1>14, <1>15

LEMMA QuietIInv ==
  ASSUME IInv, TableChanges \/ UNCHANGED vars
  PROVE  IInv'
<1> USE DEF IInv
<1>1. UNCHANGED <<requests, replies, items, pending, asked>>
  BY DEF TableChanges, vars
<1>2. used' \in SUBSET Slots
  BY DEF TableChanges, vars, TypeOK
<1>3. TypeOK'
  BY <1>1, <1>2 DEF TypeOK
<1>4. Collecting'
  BY <1>1, CollectingKept
<1>5. QED
  BY <1>1, <1>3, <1>4 DEF OneAnswer, ComesFirst

\* A reset leaves what the host begins with.
LEMMA ResetIInv ==
  ASSUME Init \/ Reset
  PROVE  /\ Init => IInv
         /\ Reset => IInv'
<1>1. /\ <<>> \in Seq(Requests) /\ <<>> \in Seq(Replies) /\ <<>> \in Seq(Entries)
      /\ Boot \in SUBSET Slots /\ Len(<<>>) = 0
  BY EmptySeq, ControlAssumption
<1>2. Nobody \in [number : RequestNumbers, alone : BOOLEAN] /\ ~Nobody.alone
  BY DEF Nobody, RequestNumbers
<1>3. ASSUME Init
      PROVE  IInv
  <2>1. TypeOK
    BY <1>1, <1>2, <1>3 DEF Init, TypeOK
  <2>2. OneAnswer(replies) /\ Collecting
    BY <1>1, <1>3 DEF Init, OneAnswer, Collecting, Listing
  <2>3. ComesFirst
    BY <1>2, <1>3 DEF Init, ComesFirst
  <2>4. QED
    BY <2>1, <2>2, <2>3 DEF IInv
<1>4. ASSUME Reset
      PROVE  IInv'
  <2>1. TypeOK'
    BY <1>1, <1>2, <1>4 DEF Reset, TypeOK
  <2>2. OneAnswer(replies)' /\ Collecting'
    BY <1>1, <1>4 DEF Reset, OneAnswer, Collecting, Listing
  <2>3. ComesFirst'
    BY <1>2, <1>4 DEF Reset, ComesFirst
  <2>4. QED
    BY <2>1, <2>2, <2>3 DEF IInv
<1>5. QED
  BY <1>3, <1>4

THEOREM ControlInvariance == Spec => []IInv
<1>1. Init => IInv
  BY ResetIInv
<1>2. IInv /\ [Next]_vars => IInv'
  BY AskIInv, AskRawIInv, AskJsonIInv, KernelTickIInv, DeliverIInv, QuietIInv, ResetIInv DEF Next
<1>3. QED
  BY <1>1, <1>2, PTL DEF Spec

----------------------------------------------------------------------------
(* What follows from the invariant. *)

\* A part of a sequence up to its end is a suffix of it.
LEMMA EndIsSuffix ==
  ASSUME NEW w \in Seq(Entries), NEW from \in 0 .. Len(w)
  PROVE  IsSuffix(SubSeq(w, from + 1, Len(w)), w)
<1> DEFINE n == Len(w)
           e == SubSeq(w, from + 1, n)
<1>1. n \in Nat /\ \A i \in from + 1 .. n : w[i] \in Entries
  BY LenProperties, ElementOfSeq
<1>2. /\ e \in Seq(Entries) /\ Len(e) = n - from
      /\ \A i \in 1 .. n - from : e[i] = w[from + i]
  <2>1. /\ e \in Seq(Entries)
        /\ Len(e) = IF from + 1 <= n THEN n - (from + 1) + 1 ELSE 0
        /\ \A i \in 1 .. n - (from + 1) + 1 : e[i] = w[(from + 1) + i - 1]
    <3>1. from + 1 \in Int /\ n \in Int
      BY <1>1
    <3>2. QED
      BY <1>1, <3>1, SubSeqProperties
  <2> HIDE DEF n, e
  <2>2. /\ n - (from + 1) + 1 = n - from /\ (from + 1 <= n => n - from >= 1)
        /\ (~(from + 1 <= n) => n - from = 0)
        /\ \A i \in 1 .. n - from : (from + 1) + i - 1 = from + i
    BY <1>1 DEF n
  <2>3. QED
    BY <2>1, <2>2
<1> HIDE DEF e, n
<1> DEFINE m == n - from
           re == Reverse(e)
           rw == Reverse(w)
<1>3. m \in Nat /\ m <= n
  BY <1>1 DEF n
<1>4. re = [i \in 1 .. m |-> e[(m - i) + 1]] /\ rw = [i \in 1 .. n |-> w[(n - i) + 1]]
  BY <1>2 DEF Reverse, n
<1>5. ASSUME NEW i \in 1 .. m
      PROVE  re[i] = rw[i] /\ re[i] \in Entries
  <2>1. (m - i) + 1 \in 1 .. n - from /\ i \in 1 .. n /\ from + ((m - i) + 1) = (n - i) + 1
        /\ (n - i) + 1 \in from + 1 .. n
    BY <1>1, <1>3
  <2>2. re[i] = e[(m - i) + 1] /\ rw[i] = w[(n - i) + 1]
    BY <1>4, <2>1
  <2>3. QED
    BY <1>1, <1>2, <2>1, <2>2
<1>6. rw \in Seq(Entries) /\ Len(rw) = n /\ re \in Seq(Entries) /\ Len(re) = m
  <2>1. \A i \in 1 .. n : (n - i) + 1 \in 1 .. n
    BY <1>1
  <2>2. \A i \in 1 .. n : w[(n - i) + 1] \in Entries
    BY <2>1, ElementOfSeq DEF n
  <2>3. \A i \in 1 .. m : e[(m - i) + 1] \in Entries
    BY <1>4, <1>5
  <2>4. QED
    BY <1>1, <1>3, <1>4, <2>2, <2>3
<1> HIDE DEF m, re, rw
<1>7. SubSeq(re, 1, m) = SubSeq(rw, 1, m)
  <2>1. /\ SubSeq(re, 1, m) \in Seq(Entries) /\ SubSeq(rw, 1, m) \in Seq(Entries)
        /\ Len(SubSeq(re, 1, m)) = Len(SubSeq(rw, 1, m))
        /\ Len(SubSeq(re, 1, m)) \in 0 .. m
        /\ \A i \in 1 .. m - 1 + 1 : SubSeq(re, 1, m)[i] = re[1 + i - 1]
        /\ \A i \in 1 .. m - 1 + 1 : SubSeq(rw, 1, m)[i] = rw[1 + i - 1]
    <3>1. \A i \in 1 .. m : re[i] \in Entries /\ rw[i] \in Entries
      BY <1>5
    <3>2. 1 \in Int /\ m \in Int
      BY <1>3
    <3>3. QED
      BY <1>3, <3>1, <3>2, SubSeqProperties
  <2>2. \A i \in 1 .. m : SubSeq(re, 1, m)[i] = SubSeq(rw, 1, m)[i]
    BY <1>3, <1>5, <2>1
  <2>3. QED
    BY <1>3, <2>1, <2>2, SeqEqual
<1>8. IsPrefix(re, rw)
  BY <1>3, <1>6, <1>7 DEF IsPrefix
<1>9. QED
  BY <1>8 DEF IsSuffix, re, rw, e, n

LEMMA LastFrameOfList ==
  ASSUME IInv, replies # <<>>, Listing(replies), ~replies[1].more
  PROVE  LET f == replies[1] IN
         /\ f.whole \in Seq(Entries)
         /\ \E from \in 0 .. Len(f.whole) :
              /\ items \o f.items = SubSeq(f.whole, from + 1, Len(f.whole))
              /\ asked["list"].alone => from = 0
<1> USE DEF IInv
<1> DEFINE f == replies[1]
           w == f.whole
<1>1. Len(replies) \in Nat \ {0}
  BY EmptySeq, LenProperties DEF TypeOK
<1>2. f \in Replies /\ Len(replies) = 1
  <2>1. 1 \in 1 .. Len(replies)
    BY <1>1
  <2>2. replies[1].more <=> 1 < Len(replies)
    BY <2>1 DEF OneAnswer
  <2>3. ~(1 < Len(replies))
    BY <2>2
  <2>single. Len(replies) = 1
    <3>1. \A m \in Nat \ {0} : ~(1 < m) => m = 1
      OBVIOUS
    <3>2. QED
      BY <1>1, <2>3, <3>1, Zenon
  <2>4. replies[1] \in Replies
    BY <2>1, ElementOfSeq DEF TypeOK
  <2>5. QED
    BY <2>single, <2>4
<1>3. w \in Seq(Entries)
  BY <1>2 DEF Replies
<1>place. PICK at \in 0 .. Len(w) : \E from \in 0 .. at :
        /\ Carries(replies, at, w)
        /\ items = SubSeq(w, from + 1, at)
        /\ asked["list"].alone => from = 0
  BY DEF Collecting, CollectedUpTo
<1>4. PICK from \in 0 .. at :
        /\ Carries(replies, at, w)
        /\ items = SubSeq(w, from + 1, at)
        /\ asked["list"].alone => from = 0
  BY <1>place
<1>5. f.items = SubSeq(w, at + 1, Len(w))
  BY <1>2, <1>3, <1>4, CarriesOn DEF TypeOK
<1>6. Len(w) \in at .. Len(w) /\ from \in 0 .. Len(w)
  BY <1>3, LenProperties
<1>7. items \o f.items = SubSeq(w, from + 1, Len(w))
  BY <1>3, <1>4, <1>5, <1>6, PartsJoin
<1>8. QED
  BY <1>3, <1>4, <1>6, <1>7

\* No list that the host prints is put together from two answers, whatever
\* commands, errors and resets come between its fragments
\* (zlink.tcl:572-577, 833-890).
THEOREM ListsNeverMix == Spec => []NoMix
<1>1. ASSUME IInv
      PROVE  NoMix
  <2> SUFFICES ASSUME replies # <<>>, Head(replies).answer = "list",
                      Head(replies).good, ~Head(replies).more
               PROVE  IsSuffix(Shown(Head(replies)), Head(replies).whole)
    BY DEF NoMix, Arriving
  <2>1. Head(replies) = replies[1]
    OBVIOUS
  <2>2. Listing(replies)
    BY <2>1 DEF Listing
  <2>3. Shown(replies[1]) = items \o replies[1].items
    BY <2>1 DEF Shown
  <2>4. QED
    BY <1>1, <2>1, <2>2, <2>3, LastFrameOfList, EndIsSuffix
<1>2. QED
  BY <1>1, ControlInvariance, PTL

\* A request for JSON that was alone of its kind gets the whole answer to
\* itself, although answers carry no number (zlink.tcl:544-583, 818-890).
THEOREM JsonGetsItsAnswer == Spec => []JsonIsItsAnswer
<1>1. ASSUME IInv
      PROVE  JsonIsItsAnswer
  <2> DEFINE f == replies[1]
  <2> SUFFICES ASSUME replies # <<>>, Answered(f), asked[f.answer].alone
               PROVE  f.number = asked[f.answer].number /\ Shown(f) = f.whole
    BY DEF JsonIsItsAnswer, Arriving
  <2>1. f.answer \in Kinds /\ ~f.more
    BY DEF Answered
  <2>2. f.number = asked[f.answer].number
    BY <1>1, <2>1 DEF IInv, ComesFirst, First
  <2>3. CASE Listing(replies)
    <3>1. f.answer = "list" /\ Shown(f) = items \o f.items
      BY <2>3 DEF Listing, Shown
    <3>2. f.whole \in Seq(Entries) /\ items \o f.items = SubSeq(f.whole, 0 + 1, Len(f.whole))
      BY <1>1, <2>1, <2>3, <3>1, LastFrameOfList
    <3>3. SubSeq(f.whole, 0 + 1, Len(f.whole)) = f.whole
      BY <3>2, SubSeqFull
    <3>4. QED
      BY <2>2, <3>1, <3>2, <3>3
  <2>4. CASE ~Listing(replies)
    <3>1. 1 \in 1 .. Len(replies)
      BY <1>1, EmptySeq, LenProperties DEF IInv, TypeOK
    <3>2. items = <<>> /\ f.items = f.whole
      BY <1>1, <2>4, <3>1 DEF IInv, Collecting
    <3>3. f.items \in Seq(Entries)
      <4>1. replies[1] \in Replies
        BY <1>1, <3>1, ElementOfSeq DEF IInv, TypeOK
      <4>2. QED
        BY <4>1 DEF Replies
    <3>4. QED
      BY <2>2, <3>2, <3>3, ConcatEmptySeq DEF Shown
  <2>5. QED
    BY <2>3, <2>4
<1>2. QED
  BY <1>1, ControlInvariance, PTL

============================================================================
