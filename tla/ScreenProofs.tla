---------------------------- MODULE ScreenProofs ----------------------------
(***************************************************************************)
(* The two screens: what the tasks that share the video chip make of it,   *)
(* for any cells, glyphs and number of colors; and what the line editor    *)
(* makes of a row of a terminal, for any characters, command names and     *)
(* sizes.                                                                  *)
(*                                                                         *)
(* Both are about writes that are under way.  What a task has still to     *)
(* send is the end of one sequence of accesses (Rest), and the chip has    *)
(* been told as much as has been sent (Aimed, Written); a tick keeps that  *)
(* because only gchk at its border write can be interrupted inside a       *)
(* sequence (OneAtATime).  What the shell has still to write is the end of *)
(* an echo, of an erasure or of a new prompt and the line, and the row     *)
(* is as far as that (Echoing, Erasing, Redrawing).                        *)
(***************************************************************************)
EXTENDS Vdp, Xsh, SequenceTheorems, WellFoundedInduction, TLAPS

\* s is the end of T: what is left of a sequence that is being sent.
Rest(s, T) ==
  /\ Len(s) <= Len(T)
  /\ \A i \in 1 .. Len(s) : s[i] = T[Len(T) - Len(s) + i]

\* A fill is two control bytes and its data; the registers of screen 1, of
\* which 15 accesses follow, are pairs.
IsControl(left) == left > 15 \/ left % 3 # 1

\* The accesses are registers and fills, the last ones of InitScreen1.
Paired(s) ==
  /\ Len(s) <= 31
  /\ \A i \in 1 .. Len(s) : s[i].op = "control" <=> IsControl(Len(s) - i + 1)

\* The chip waits for the second byte of a pair.
Half(s) == IF Len(s) <= 15 THEN Len(s) % 3 = 2 ELSE Len(s) % 2 = 0

InStep(t) == Paired(todo[t]) /\ (latch = NoByte <=> ~Half(todo[t]))

\* The chip has been told as much of address a as has been sent.
Aimed(s, a) ==
  /\ Len(s) % 3 = 0 => latch = NoByte
  /\ Len(s) % 3 = 2 => latch = a % 256
  /\ Len(s) % 3 = 1 => latch = NoByte /\ addr = a

\* Only a task that is masked, or gchk at its border write, is inside a
\* sequence of accesses while another task runs.
OneAtATime ==
  \A t \in Tasks \ {running} :
    todo[t] # <<>> => t = "gchk" /\ at = "wait" /\ color > 0

Drawing ==
  running = "indicator" =>
    \E glyph \in Byte :
      /\ Rest(todo["indicator"], Fill(DrawnCell, 1, glyph))
      /\ Aimed(todo["indicator"], DrawnCell)

\* Of twelve accesses of a test, the third reads the byte, the sixth changes
\* it and the last one puts it back.
Tested(left, cell) ==
  /\ left \in 1 .. 9 /\ cell \in Cells => saved = drawn[cell]
  /\ mem = IF left \in 1 .. 6 THEN [drawn EXCEPT ![cell] = TestByte] ELSE drawn

Testing ==
  running = "vchk" =>
    \E cell \in Cells :
      /\ Rest(todo["vchk"], TestAt(cell))
      /\ Aimed(todo["vchk"], cell)
      /\ Tested(Len(todo["vchk"]), cell)

Undisturbed == running # "vchk" => mem = drawn

\* gchk has waited for a tick since its last border color.
Clean == waited \/ color = 0

\* What InitScreen1 has written of the registers so far.
Written(left) ==
  /\ \A r \in 0 .. 7 : 2 * (r + 1) <= 31 - left => regs[r] = Screen1[r + 1]
  /\ left >= 16 /\ left % 2 = 0 => latch = Screen1[(32 - left) \div 2]

GchkInStep ==
  /\ waited /\ at = "wait" => todo["gchk"] = <<>>
  /\ at = "border" => color > 0
  /\ running = "gchk" /\ Clean => InStep("gchk")
  /\ at = "exit" => Rest(todo["gchk"], InitScreen1)
  /\ at = "exit" /\ Clean => Written(Len(todo["gchk"]))

IInv == TypeOK /\ OneAtATime /\ Drawing /\ Testing /\ Undisturbed /\ GchkInStep

----------------------------------------------------------------------------
(* The sequences *)

Addresses == 0 .. MemSize - 1
Sizes     == 0 .. 2048

LEMMA Memory == MemSize \in Int /\ MemSize = 16384
BY DEF MemSize

\* Ranges whose bound is no literal: the provers enumerate the others.
LEMMA InRange ==
  ASSUME NEW last \in Int, NEW i \in Int, 0 <= i, i <= last
  PROVE  i \in 0 .. last
OBVIOUS

LEMMA RangeBounds ==
  ASSUME NEW last \in Int, NEW i \in 0 .. last
  PROVE  i \in Int /\ 0 <= i /\ i <= last
OBVIOUS

LEMMA RemainderRange ==
  ASSUME NEW m \in Int, m > 0, NEW i \in Int
  PROVE  i % m \in 0 .. m - 1
OBVIOUS

LEMMA ControlAccess ==
  ASSUME NEW byte \in Byte
  PROVE  Control(byte) \in Accesses
BY DEF Accesses, Control, Byte, MemSize

LEMMA DataAccess ==
  ASSUME NEW v \in Byte, NEW a \in Addresses, NEW n \in Sizes
  PROVE  Data(v, a, n) \in Accesses
BY DEF Accesses, Data, Addresses, Sizes

LEMMA OtherAccesses ==
  ASSUME NEW a \in Addresses
  PROVE  Save(a) \in Accesses /\ ReadData(a) \in Accesses /\ Restore(a) \in Accesses
<1>1. 0 \in Byte /\ 1 \in 0 .. 2048
  BY DEF Byte
<1>2. QED
  BY <1>1 DEF Accesses, ReadData, Save, Restore, Addresses

\* The two bytes of an address; the second is no register number.
LEMMA AddressBytes ==
  ASSUME NEW a \in Addresses
  PROVE  /\ a % 256 \in Byte
         /\ 64 + ((a \div 256) % 64) \in 64 .. 127 /\ (a \div 256) % 64 \in 0 .. 63
         /\ ((64 + ((a \div 256) % 64)) % 64) * 256 + (a % 256) = a
         /\ (((a \div 256) % 64) % 64) * 256 + (a % 256) = a
<1> DEFINE h == a \div 256
<1>1. /\ a \in Int /\ a % 256 \in 0 .. 255 /\ h * 256 + (a % 256) = a
      /\ h \in 0 .. 63
  BY DEF Addresses, MemSize
<1> HIDE DEF h
<1>2. h % 64 = h
  BY <1>1
<1>3. (64 + h) % 64 = h
  BY <1>1
<1>4. a % 256 \in Byte /\ 64 + (h % 64) \in 64 .. 127 /\ h % 64 \in 0 .. 63
  BY <1>1, <1>2 DEF Byte
<1>5. ((64 + (h % 64)) % 64) * 256 + (a % 256) = a
  BY <1>1, <1>2, <1>3
<1>6. ((h % 64) % 64) * 256 + (a % 256) = a
  BY <1>1, <1>2
<1>7. QED
  BY <1>4, <1>5, <1>6 DEF h

LEMMA Triple ==
  ASSUME NEW S, NEW a \in S, NEW b \in S, NEW c \in S
  PROVE  /\ Append(<<a, b>>, c) \in Seq(S) /\ Len(Append(<<a, b>>, c)) = 3
         /\ Append(<<a, b>>, c)[1] = a /\ Append(<<a, b>>, c)[2] = b
         /\ Append(<<a, b>>, c)[3] = c
OBVIOUS

\* A sequence and three more accesses.
LEMMA ThreeMore ==
  ASSUME NEW S, NEW s \in Seq(S), NEW t \in Seq(S), Len(t) = 3
  PROVE  /\ s \o t \in Seq(S) /\ Len(s \o t) = Len(s) + 3
         /\ \A i \in 1 .. Len(s) : (s \o t)[i] = s[i]
         /\ (s \o t)[Len(s) + 1] = t[1] /\ (s \o t)[Len(s) + 2] = t[2]
         /\ (s \o t)[Len(s) + 3] = t[3]
<1> DEFINE u == s \o t
<1>1. /\ u \in Seq(S) /\ Len(u) = Len(s) + Len(t)
      /\ \A i \in 1 .. Len(s) + Len(t) : u[i] = IF i <= Len(s) THEN s[i] ELSE t[i - Len(s)]
  BY ConcatProperties, Zenon
<1> HIDE DEF u
<1>2. QED
  BY <1>1 DEF u

LEMMA FillAccesses ==
  ASSUME NEW a \in Addresses, NEW n \in Sizes, NEW v \in Byte
  PROVE  /\ Fill(a, n, v) \in Seq(Accesses) /\ Len(Fill(a, n, v)) = 3
         /\ Fill(a, n, v)[1] = Control(a % 256)
         /\ Fill(a, n, v)[2] = Control(64 + ((a \div 256) % 64))
         /\ Fill(a, n, v)[3] = Data(v, a, n)
<1>1. a % 256 \in Byte /\ 64 + ((a \div 256) % 64) \in Byte
  BY AddressBytes DEF Byte
<1>2. /\ Control(a % 256) \in Accesses /\ Control(64 + ((a \div 256) % 64)) \in Accesses
  BY <1>1, ControlAccess
<1>3. Data(v, a, n) \in Accesses
  BY DataAccess
<1>4. QED
  BY <1>2, <1>3, Triple DEF Fill, WriteAddress

LEMMA TestAccesses ==
  ASSUME NEW a \in Addresses
  PROVE  /\ TestAt(a) \in Seq(Accesses) /\ Len(TestAt(a)) = 12
         /\ \A i \in {1, 4, 7, 10} : TestAt(a)[i] = Control(a % 256)
         /\ \A i \in {2, 8} : TestAt(a)[i] = Control((a \div 256) % 64)
         /\ \A i \in {5, 11} : TestAt(a)[i] = Control(64 + ((a \div 256) % 64))
         /\ TestAt(a)[3] = Save(a) /\ TestAt(a)[6] = Data(TestByte, a, 1)
         /\ TestAt(a)[9] = ReadData(a) /\ TestAt(a)[12] = Restore(a)
<1> DEFINE low == Control(a % 256)
           read == Control((a \div 256) % 64)
           write == Control(64 + ((a \div 256) % 64))
           look == Append(ReadAddress(a), Save(a))
           change == Fill(a, 1, TestByte)
           again == Append(ReadAddress(a), ReadData(a))
           back == Append(WriteAddress(a), Restore(a))
<1>1. /\ low \in Accesses /\ read \in Accesses /\ write \in Accesses
      /\ Save(a) \in Accesses /\ ReadData(a) \in Accesses /\ Restore(a) \in Accesses
  <2>1. /\ a % 256 \in Byte /\ 64 + ((a \div 256) % 64) \in Byte
        /\ (a \div 256) % 64 \in Byte
    BY AddressBytes DEF Byte
  <2>2. QED
    BY <2>1, ControlAccess, OtherAccesses
<1>2. look \in Seq(Accesses) /\ Len(look) = 3 /\ look[1] = low /\ look[2] = read /\ look[3] = Save(a)
  BY <1>1, Triple DEF ReadAddress
<1>3. /\ change \in Seq(Accesses) /\ Len(change) = 3
      /\ change[1] = low /\ change[2] = write /\ change[3] = Data(TestByte, a, 1)
  <2>1. TestByte \in Byte /\ 1 \in Sizes
    BY DEF TestByte, Byte, Sizes
  <2>2. QED
    BY <2>1, FillAccesses DEF low, write
<1>4. /\ again \in Seq(Accesses) /\ Len(again) = 3
      /\ again[1] = low /\ again[2] = read /\ again[3] = ReadData(a)
  BY <1>1, Triple DEF ReadAddress
<1>5. back \in Seq(Accesses) /\ Len(back) = 3 /\ back[1] = low /\ back[2] = write /\ back[3] = Restore(a)
  BY <1>1, Triple DEF WriteAddress
<1>6. TestAt(a) = ((look \o change) \o again) \o back
  BY DEF TestAt
<1> HIDE DEF low, read, write, look, change, again, back
<1> DEFINE two == look \o change
           three == two \o again
<1>7. /\ two \in Seq(Accesses) /\ Len(two) = Len(look) + 3
      /\ \A i \in 1 .. Len(look) : two[i] = look[i]
      /\ two[Len(look) + 1] = change[1] /\ two[Len(look) + 2] = change[2]
      /\ two[Len(look) + 3] = change[3]
  BY <1>2, <1>3, ThreeMore, Zenon
<1> HIDE DEF two
<1>8. /\ three \in Seq(Accesses) /\ Len(three) = Len(two) + 3
      /\ \A i \in 1 .. Len(two) : three[i] = two[i]
      /\ three[Len(two) + 1] = again[1] /\ three[Len(two) + 2] = again[2]
      /\ three[Len(two) + 3] = again[3]
  BY <1>4, <1>7, ThreeMore, Zenon
<1> HIDE DEF three
<1> DEFINE four == three \o back
<1>9. /\ four \in Seq(Accesses) /\ Len(four) = Len(three) + 3
      /\ \A i \in 1 .. Len(three) : four[i] = three[i]
      /\ four[Len(three) + 1] = back[1] /\ four[Len(three) + 2] = back[2]
      /\ four[Len(three) + 3] = back[3]
  BY <1>5, <1>8, ThreeMore, Zenon
<1>10. TestAt(a) = four
  BY <1>6 DEF two, three
<1> HIDE DEF four
<1>11. Len(two) = 6 /\ Len(three) = 9 /\ Len(four) = 12
  BY <1>2, <1>7, <1>8, <1>9
<1>12. /\ four[1] = look[1] /\ four[2] = look[2] /\ four[3] = look[3]
       /\ four[4] = change[1] /\ four[5] = change[2] /\ four[6] = change[3]
       /\ four[7] = again[1] /\ four[8] = again[2] /\ four[9] = again[3]
       /\ four[10] = back[1] /\ four[11] = back[2] /\ four[12] = back[3]
  BY <1>2, <1>7, <1>8, <1>9, <1>11
<1>13. QED
  BY <1>2, <1>3, <1>4, <1>5, <1>9, <1>10, <1>11, <1>12 DEF low, read, write

LEMMA Screen1RegisterAccesses ==
  /\ Screen1Registers \in Seq(Accesses) /\ Len(Screen1Registers) = 16
  /\ \A i \in 1 .. 16 : Screen1Registers[i] =
       IF i % 2 = 1 THEN Control(Screen1[(i + 1) \div 2]) ELSE Control(127 + i \div 2)
<1>1. \A r \in 1 .. 8 : Screen1[r] \in Byte
  BY DEF Screen1, Byte
<1>2. ASSUME NEW i \in 1 .. 16
      PROVE  /\ Screen1Registers[i] =
                  IF i % 2 = 1 THEN Control(Screen1[(i + 1) \div 2]) ELSE Control(127 + i \div 2)
             /\ Screen1Registers[i] \in Accesses
  <2>1. CASE i % 2 = 1
    <3>1. (i - 1) \div 2 + 1 = (i + 1) \div 2 /\ (i + 1) \div 2 \in 1 .. 8
      BY <2>1
    <3>2. QED
      BY <1>1, <2>1, <3>1, ControlAccess DEF Screen1Registers, RegisterWrite
  <2>2. CASE i % 2 # 1
    <3>1. 128 + (i - 1) \div 2 = 127 + i \div 2 /\ 127 + i \div 2 \in Byte
      BY <2>2 DEF Byte
    <3>2. QED
      BY <2>2, <3>1, ControlAccess DEF Screen1Registers, RegisterWrite
  <2>3. QED
    BY <2>1, <2>2
<1>3. Screen1Registers \in Seq(Accesses) /\ Len(Screen1Registers) = 16
  <2>1. Screen1Registers = [i \in 1 .. 16 |-> Screen1Registers[i]]
    BY DEF Screen1Registers
  <2>2. Screen1Registers \in [1 .. 16 -> Accesses]
    BY <1>2, <2>1
  <2>3. QED
    BY <2>1, <2>2
<1>4. QED
  BY <1>2, <1>3

LEMMA FillShape ==
  ASSUME NEW a \in Addresses, NEW n \in Sizes, NEW v \in Byte
  PROVE  /\ Fill(a, n, v) \in Seq(Accesses) /\ Len(Fill(a, n, v)) = 3
         /\ Fill(a, n, v)[1].op = "control" /\ Fill(a, n, v)[2].op = "control"
         /\ Fill(a, n, v)[2].value < 128 /\ Fill(a, n, v)[3].op = "data"
<1> DEFINE high == 64 + ((a \div 256) % 64)
<1>1. high < 128
  BY AddressBytes
<1>2. /\ Fill(a, n, v) \in Seq(Accesses) /\ Len(Fill(a, n, v)) = 3
      /\ Fill(a, n, v)[1] = Control(a % 256) /\ Fill(a, n, v)[2] = Control(high)
      /\ Fill(a, n, v)[3] = Data(v, a, n)
  BY FillAccesses
<1> HIDE DEF high
<1>3. /\ Control(a % 256).op = "control" /\ Control(high).op = "control"
      /\ Control(high).value = high /\ Data(v, a, n).op = "data"
  BY DEF Control, Data
<1>4. QED
  BY <1>1, <1>2, <1>3

\* The fills of the program.
LEMMA Constants ==
  /\ {0, 6144, 8192, SpriteAttr, SpriteAttr + 1, 14336} \subseteq Addresses
  /\ {1, 4, 32, 128, 768, 2048} \subseteq Sizes
  /\ {0, 1, 100, 208, 244} \subseteq Byte
  /\ Cells \subseteq Addresses /\ DrawnCell \in Addresses /\ Glyphs \subseteq Byte
<1>1. {0, 6144, 8192, SpriteAttr, SpriteAttr + 1, 14336} \subseteq Addresses
  BY DEF Addresses, MemSize, SpriteAttr
<1>2. {1, 4, 32, 128, 768, 2048} \subseteq Sizes
  BY DEF Sizes
<1>3. {0, 1, 100, 208, 244} \subseteq Byte
  BY DEF Byte
<1>4. Cells \subseteq Addresses /\ DrawnCell \in Addresses /\ Glyphs \subseteq Byte
  BY VdpAssumption DEF Addresses, Byte
<1>5. QED
  BY <1>1, <1>2, <1>3, <1>4

\* The first n accesses of InitScreen1: the registers, then fills.
Screen1Begins(s, n) ==
  /\ s \in Seq(Accesses) /\ Len(s) = n
  /\ \A i \in 1 .. 16 : s[i] = Screen1Registers[i]
  /\ \A i \in 17 .. n : /\ s[i].op = "control" <=> (32 - i) % 3 # 1
                        /\ (32 - i) % 3 = 2 => s[i].value < 128

LEMMA OneMoreFill ==
  ASSUME NEW s, NEW n \in {16, 19, 22, 25, 28}, Screen1Begins(s, n),
         NEW a \in Addresses, NEW m \in Sizes, NEW v \in Byte
  PROVE  Screen1Begins(s \o Fill(a, m, v), n + 3)
<1> DEFINE f == Fill(a, m, v)
           u == s \o f
<1>1. /\ f \in Seq(Accesses) /\ Len(f) = 3 /\ f[1].op = "control" /\ f[2].op = "control"
      /\ f[2].value < 128 /\ f[3].op = "data"
  BY FillShape
<1>2. s \in Seq(Accesses) /\ Len(s) = n
  BY DEF Screen1Begins
<1> HIDE DEF f
<1>3. /\ u \in Seq(Accesses) /\ Len(u) = Len(s) + 3
      /\ \A i \in 1 .. Len(s) : u[i] = s[i]
      /\ u[Len(s) + 1] = f[1] /\ u[Len(s) + 2] = f[2] /\ u[Len(s) + 3] = f[3]
  BY <1>1, <1>2, ThreeMore, Zenon
<1> HIDE DEF u
<1>4. n \in Nat /\ n >= 16 /\ n % 3 = 1
  OBVIOUS
<1>5. /\ \A i \in 1 .. n : u[i] = s[i]
      /\ u[n + 1] = f[1] /\ u[n + 2] = f[2] /\ u[n + 3] = f[3]
      /\ u \in Seq(Accesses) /\ Len(u) = n + 3
  BY <1>2, <1>3
<1>6. ASSUME NEW i \in 1 .. 16 PROVE u[i] = Screen1Registers[i]
  <2>1. i \in 1 .. n
    BY <1>4
  <2>2. s[i] = Screen1Registers[i]
    BY DEF Screen1Begins
  <2>3. QED
    BY <1>5, <2>1, <2>2
<1>7. ASSUME NEW i \in 17 .. n + 3
      PROVE  /\ u[i].op = "control" <=> (32 - i) % 3 # 1
             /\ (32 - i) % 3 = 2 => u[i].value < 128
  <2>1. CASE i <= n
    <3>1. i \in 17 .. n /\ i \in 1 .. n
      BY <1>4, <2>1
    <3>2. QED
      BY <1>5, <3>1 DEF Screen1Begins
  <2>2. CASE i = n + 1
    <3>1. (32 - i) % 3 = 0
      BY <1>4, <2>2
    <3>2. QED
      BY <1>1, <1>5, <2>2, <3>1
  <2>3. CASE i = n + 2
    <3>1. (32 - i) % 3 = 2
      BY <1>4, <2>3
    <3>2. QED
      BY <1>1, <1>5, <2>3, <3>1
  <2>4. CASE i = n + 3
    <3>1. (32 - i) % 3 = 1
      BY <1>4, <2>4
    <3>2. QED
      BY <1>1, <1>5, <2>4, <3>1
  <2>5. QED
    BY <1>4, <2>1, <2>2, <2>3, <2>4
<1>8. QED
  BY <1>5, <1>6, <1>7 DEF Screen1Begins, u, f

LEMMA InitScreen1Accesses == Screen1Begins(InitScreen1, 31)
<1> DEFINE s0 == Screen1Registers
           s1 == s0 \o Fill(0, 2048, 0)
           s2 == s1 \o Fill(6144, 768, 0)
           s3 == s2 \o Fill(8192, 32, 244)
           s4 == s3 \o Fill(SpriteAttr, 128, 208)
           s5 == s4 \o Fill(14336, 2048, 0)
<1>1. InitScreen1 = s5
  BY DEF InitScreen1
<1>2. Screen1Begins(s0, 16)
  BY Screen1RegisterAccesses DEF Screen1Begins
<1> HIDE DEF s0
<1>3. Screen1Begins(s1, 19)
  BY <1>2, OneMoreFill, Constants
<1> HIDE DEF s1
<1>4. Screen1Begins(s2, 22)
  BY <1>3, OneMoreFill, Constants
<1> HIDE DEF s2
<1>5. Screen1Begins(s3, 25)
  BY <1>4, OneMoreFill, Constants
<1> HIDE DEF s3
<1>6. Screen1Begins(s4, 28)
  BY <1>5, OneMoreFill, Constants
<1> HIDE DEF s4
<1>7. Screen1Begins(s5, 31)
  BY <1>6, OneMoreFill, Constants
<1> HIDE DEF s5
<1>8. QED
  BY <1>1, <1>7

----------------------------------------------------------------------------
(* One access. *)

LEMMA TailOf ==
  ASSUME NEW S, NEW s \in Seq(S), s # <<>>
  PROVE  /\ Len(s) \in Nat \ {0} /\ Head(s) = s[1] /\ Head(s) \in S
         /\ Tail(s) \in Seq(S) /\ Len(Tail(s)) = Len(s) - 1
         /\ \A i \in 1 .. Len(s) - 1 : Tail(s)[i] = s[i + 1]
OBVIOUS

LEMMA RestOfTail ==
  ASSUME NEW S, NEW s \in Seq(S), NEW T \in Seq(S), Rest(s, T), s # <<>>
  PROVE  Rest(Tail(s), T) /\ Head(s) = T[Len(T) - Len(s) + 1]
<1> DEFINE r == Tail(s)
<1>1. /\ Len(s) \in Nat \ {0} /\ Head(s) = s[1] /\ r \in Seq(S) /\ Len(r) = Len(s) - 1
      /\ \A i \in 1 .. Len(s) - 1 : r[i] = s[i + 1]
  BY TailOf
<1>2. Len(T) \in Nat
  OBVIOUS
<1> HIDE DEF r
<1>3. Rest(r, T)
  <2>1. Len(r) <= Len(T)
    BY <1>1, <1>2 DEF Rest
  <2>2. ASSUME NEW i \in 1 .. Len(r) PROVE r[i] = T[Len(T) - Len(r) + i]
    <3>1. i + 1 \in 1 .. Len(s) /\ Len(T) - Len(s) + (i + 1) = Len(T) - Len(r) + i
      BY <1>1, <1>2
    <3>2. s[i + 1] = T[Len(T) - Len(s) + (i + 1)]
      BY <3>1 DEF Rest
    <3>3. QED
      BY <1>1, <3>1, <3>2
  <2>3. QED
    BY <2>1, <2>2 DEF Rest
<1>4. QED
  BY <1>1, <1>3 DEF Rest, r

LEMMA PairedTail ==
  ASSUME NEW S, NEW s \in Seq(S), Paired(s), s # <<>>
  PROVE  Paired(Tail(s)) /\ (Head(s).op = "control" <=> IsControl(Len(s)))
<1> DEFINE r == Tail(s)
<1>1. /\ Len(s) \in Nat \ {0} /\ Head(s) = s[1] /\ Len(r) = Len(s) - 1
      /\ \A i \in 1 .. Len(s) - 1 : r[i] = s[i + 1]
  BY TailOf
<1> HIDE DEF r
<1>2. Head(s).op = "control" <=> IsControl(Len(s))
  <2>1. 1 \in 1 .. Len(s) /\ Len(s) - 1 + 1 = Len(s)
    BY <1>1
  <2>2. QED
    BY <1>1, <2>1 DEF Paired
<1>3. ASSUME NEW i \in 1 .. Len(r)
      PROVE  r[i].op = "control" <=> IsControl(Len(r) - i + 1)
  <2>1. i + 1 \in 1 .. Len(s) /\ Len(s) - (i + 1) + 1 = Len(r) - i + 1 /\ r[i] = s[i + 1]
    BY <1>1
  <2>2. s[i + 1].op = "control" <=> IsControl(Len(s) - (i + 1) + 1)
    BY <2>1 DEF Paired
  <2>3. QED
    BY <2>1, <2>2
<1>4. QED
  BY <1>1, <1>2, <1>3 DEF Paired, r

\* A task that draws or tests knows where it is in its accesses.
LEMMA RestStep ==
  ASSUME TypeOK, NEW t \in Tasks, Access(t), NEW T \in Seq(Accesses), Rest(todo[t], T)
  PROVE  /\ todo[t] \in Seq(Accesses) /\ Len(todo[t]) \in Nat \ {0}
         /\ Len(todo[t]) <= Len(T)
         /\ Rest(todo'[t], T) /\ Len(todo'[t]) = Len(todo[t]) - 1
         /\ Head(todo[t]) = T[Len(T) - Len(todo[t]) + 1]
         /\ \A u \in Tasks \ {t} : todo'[u] = todo[u]
<1>1. todo[t] \in Seq(Accesses) /\ todo[t] # <<>> /\ todo'[t] = Tail(todo[t])
  BY DEF TypeOK, Access
<1>2. \A u \in Tasks \ {t} : todo'[u] = todo[u]
  BY DEF TypeOK, Access
<1>3. Rest(todo'[t], T) /\ Head(todo[t]) = T[Len(T) - Len(todo[t]) + 1]
  BY <1>1, RestOfTail
<1>4. Len(todo[t]) \in Nat \ {0} /\ Len(todo'[t]) = Len(todo[t]) - 1
  BY <1>1, TailOf
<1>5. Len(todo[t]) <= Len(T)
  BY DEF Rest
<1>6. QED
  BY <1>1, <1>2, <1>3, <1>4, <1>5

\* A pair of control bytes tells the chip an address, whatever comes in
\* between other accesses of the same task.
LEMMA ModThree ==
  ASSUME NEW n \in Nat
  PROVE  n % 3 \in {0, 1, 2} /\ (n - 1) % 3 = IF n % 3 = 0 THEN 2 ELSE (n % 3) - 1
OBVIOUS

\* The next access of a task that has told the chip a part of address a.
Aims(next, left, a) ==
  /\ left % 3 = 0 => next = Control(a % 256)
  /\ left % 3 = 2 => \E high \in 0 .. 127 :
                       next = Control(high) /\ (high % 64) * 256 + (a % 256) = a
  /\ left % 3 = 1 => next.op # "control"

LEMMA AimStep ==
  ASSUME TypeOK, NEW t \in Tasks, Access(t), NEW a \in Addresses, Aimed(todo[t], a),
         NEW left \in Nat, Len(todo[t]) = left, Len(todo'[t]) = left - 1,
         Aims(Head(todo[t]), left, a)
  PROVE  /\ Aimed(todo[t], a)' /\ regs' = regs
         /\ left % 3 # 1 => mem' = mem /\ drawn' = drawn /\ saved' = saved
<1> DEFINE next == Head(todo[t])
<1>1. left % 3 \in {0, 1, 2} /\ (left - 1) % 3 = IF left % 3 = 0 THEN 2 ELSE (left % 3) - 1
  BY ModThree
<1>2. /\ left % 3 = 0 => latch = NoByte
      /\ left % 3 = 2 => latch = a % 256
      /\ left % 3 = 1 => latch = NoByte /\ addr = a
  BY DEF Aimed
<1>3. ASSUME NEW byte, next = Control(byte)
      PROVE  OutControl(byte) /\ mem' = mem /\ drawn' = drawn /\ saved' = saved
  <2>1. Control(byte).op = "control" /\ Control(byte).value = byte
    BY DEF Control
  <2>2. QED
    BY <1>3, <2>1 DEF Access
<1>4. CASE left % 3 = 0
  <2>1. OutControl(a % 256) /\ mem' = mem /\ drawn' = drawn /\ saved' = saved
    BY <1>3, <1>4 DEF Aims
  <2>2. latch' = a % 256 /\ regs' = regs
    BY <1>2, <1>4, <2>1 DEF OutControl
  <2>3. Aimed(todo[t], a)'
    BY <1>1, <1>4, <2>2 DEF Aimed
  <2>4. QED
    BY <2>1, <2>2, <2>3
<1>5. CASE left % 3 = 2
  <2>1. PICK high \in 0 .. 127 : next = Control(high) /\ (high % 64) * 256 + (a % 256) = a
    BY <1>5 DEF Aims
  <2>2. OutControl(high) /\ mem' = mem /\ drawn' = drawn /\ saved' = saved
    BY <1>3, <2>1
  <2>3. latch = a % 256 /\ a % 256 # NoByte
    <3>1. a % 256 \in Byte
      BY AddressBytes
    <3>2. ASSUME NEW low \in Byte PROVE low # NoByte
      BY DEF Byte, NoByte
    <3>3. QED
      BY <1>2, <1>5, <3>1, <3>2
  <2>4. latch' = NoByte /\ addr' = (high % 64) * 256 + latch /\ regs' = regs
    <3>1. latch # NoByte /\ high < 128 /\ ~(high >= 128)
      BY <2>3
    <3>2. CASE /\ addr' = (high % 64) * 256 + latch /\ latch' = NoByte /\ regs' = regs
      BY <3>2
    <3>3. QED
      BY <2>2, <3>1, <3>2 DEF OutControl
  <2>5. addr' = a
    BY <2>1, <2>3, <2>4
  <2>6. Aimed(todo[t], a)'
    BY <1>1, <1>5, <2>4, <2>5 DEF Aimed
  <2>7. QED
    BY <2>2, <2>4, <2>6
<1>6. CASE left % 3 = 1
  <2>1. next.op # "control"
    BY <1>6 DEF Aims
  <2>2. latch' = NoByte /\ regs' = regs
    BY <2>1 DEF Access, OutData, InData
  <2>3. Aimed(todo[t], a)'
    BY <1>1, <1>6, <2>2 DEF Aimed
  <2>4. QED
    BY <1>6, <2>2, <2>3
<1>7. QED
  BY <1>1, <1>4, <1>5, <1>6

----------------------------------------------------------------------------
(* Types *)

LEMMA BeginKeepsTypes ==
  ASSUME TypeOK, NEW t \in Tasks, NEW accesses \in Seq(Accesses), Begin(t, accesses)
  PROVE  /\ todo' \in [Tasks -> Seq(Accesses)] /\ todo'[t] = accesses
         /\ \A u \in Tasks \ {t} : todo'[u] = todo[u]
         /\ regs' \in [0 .. 7 -> Byte] /\ mem' \in [Cells -> Byte] /\ drawn' \in [Cells -> Byte]
         /\ addr' \in 0 .. MemSize - 1 /\ latch' \in Byte \cup {NoByte}
         /\ running' \in Tasks /\ saved' \in Byte /\ stop' \in BOOLEAN
BY DEF TypeOK, Begin, chipVars

LEMMA ControlKeepsTypes ==
  ASSUME TypeOK, NEW byte \in Byte, OutControl(byte)
  PROVE  /\ regs' \in [0 .. 7 -> Byte] /\ latch' \in Byte \cup {NoByte}
         /\ addr' \in 0 .. MemSize - 1
<1>1. /\ regs \in [0 .. 7 -> Byte] /\ latch \in Byte \cup {NoByte}
      /\ addr \in 0 .. MemSize - 1
  BY DEF TypeOK
<1>2. CASE latch' = byte /\ UNCHANGED <<regs, addr>>
  BY <1>1, <1>2
<1>3. CASE latch # NoByte /\ regs' = [regs EXCEPT ![byte % 8] = latch] /\ latch' = NoByte /\ addr' = addr
  <2>1. latch \in Byte
    BY <1>1, <1>3
  <2>2. QED
    BY <1>1, <1>3, <2>1
<1>4. CASE /\ latch # NoByte /\ addr' = (byte % 64) * 256 + latch
           /\ latch' = NoByte /\ regs' = regs
  <2>1. byte % 64 \in 0 .. 63
    BY DEF Byte
  <2>2. latch \in 0 .. 255
    BY <1>1, <1>4 DEF Byte, NoByte
  <2>3. ASSUME NEW high \in 0 .. 63, NEW low \in 0 .. 255
        PROVE  high * 256 + low \in 0 .. MemSize - 1
    <3>1. high * 256 + low \in Int /\ 0 <= high * 256 + low /\ high * 256 + low < 16384
      OBVIOUS
    <3>2. MemSize - 1 \in Int /\ high * 256 + low <= MemSize - 1
      BY <3>1, Memory
    <3>3. QED
      BY <3>1, <3>2, InRange
  <2>4. addr' \in 0 .. MemSize - 1
    BY <1>4, <2>1, <2>2, <2>3, Zenon
  <2>5. QED
    BY <1>1, <1>4, <2>4
<1>5. QED
  BY <1>2, <1>3, <1>4 DEF OutControl

\* The address wraps at the end of the memory.
LEMMA StaysInMemory ==
  ASSUME addr \in 0 .. MemSize - 1, NEW n \in Sizes
  PROVE  Advanced(n) \in 0 .. MemSize - 1
<1>1. addr + n \in Int
  BY Memory DEF Sizes
<1>2. (addr + n) % MemSize \in 0 .. MemSize - 1
  <2>1. MemSize \in Int /\ MemSize > 0
    BY Memory
  <2>2. QED
    BY <1>1, <2>1, RemainderRange
<1>3. QED
  BY <1>1, <1>2 DEF Advanced

LEMMA DataKeepsTypes ==
  ASSUME TypeOK, NEW t, NEW v \in Byte, NEW n \in Sizes, OutData(t, v, n)
  PROVE  /\ regs' \in [0 .. 7 -> Byte] /\ latch' \in Byte \cup {NoByte}
         /\ addr' \in 0 .. MemSize - 1
         /\ mem' \in [Cells -> Byte] /\ drawn' \in [Cells -> Byte]
<1>1. Stored(v, n) \in [Cells -> Byte]
  BY DEF Stored, TypeOK
<1>2. Advanced(n) \in 0 .. MemSize - 1
  BY StaysInMemory DEF TypeOK
<1>3. QED
  BY <1>1, <1>2 DEF OutData, TypeOK

LEMMA AccessKeepsTypes ==
  ASSUME TypeOK, NEW t \in Tasks, Access(t)
  PROVE  TypeOK'
<1> DEFINE next == Head(todo[t])
<1>1. todo[t] \in Seq(Accesses) /\ todo[t] # <<>>
  BY DEF TypeOK, Access
<1>a. next \in Accesses /\ Tail(todo[t]) \in Seq(Accesses)
  BY <1>1, TailOf
<1>b. todo' \in [Tasks -> Seq(Accesses)]
  <2>1. todo \in [Tasks -> Seq(Accesses)] /\ todo' = [todo EXCEPT ![t] = Tail(todo[t])]
    BY DEF TypeOK, Access
  <2>2. QED
    BY <1>a, <2>1
<1>c. PICK access \in Accesses : next = access
  BY <1>a
<1>2. access.value \in Byte /\ access.n \in Sizes
  BY DEF Accesses, Sizes
<1> HIDE DEF next
<1>3. CASE next.op = "control"
  <2>1. OutControl(access.value) /\ UNCHANGED <<mem, drawn, saved>>
    BY <1>3, <1>c DEF Access, next
  <2>2. QED
    BY <1>2, <1>b, <2>1, ControlKeepsTypes DEF Access, TypeOK, gchkVars
<1>5. ASSUME InData, saved' \in Byte
      PROVE  TypeOK'
  <2>1. Advanced(1) \in 0 .. MemSize - 1
    BY StaysInMemory DEF TypeOK, Sizes
  <2>2. QED
    BY <1>b, <1>5, <2>1 DEF InData, Access, TypeOK, gchkVars
<1>6. Content \in Byte /\ saved \in Byte /\ 1 \in Sizes
  BY DEF Content, TypeOK, Byte, Sizes
<1>7. \/ next.op = "control"
      \/ OutData(t, access.value, access.n) /\ saved' = saved
      \/ OutData(t, saved, 1) /\ saved' = saved
      \/ InData /\ saved' = saved
      \/ InData /\ saved' = Content
  BY <1>c DEF Access, next
<1>8. CASE OutData(t, access.value, access.n) /\ saved' = saved
  BY <1>2, <1>b, <1>8, DataKeepsTypes DEF Access, TypeOK, gchkVars
<1>9. CASE OutData(t, saved, 1) /\ saved' = saved
  BY <1>6, <1>b, <1>9, DataKeepsTypes DEF Access, TypeOK, gchkVars
<1>10. CASE InData /\ saved' \in Byte
  BY <1>5, <1>10
<1>11. QED
  BY <1>3, <1>6, <1>7, <1>8, <1>9, <1>10

LEMMA BlankGridAccesses == BlankGrid \in Seq(Accesses) /\ Len(BlankGrid) = 6 /\ Paired(BlankGrid)
<1> DEFINE f == Fill(6144, 768, 0)
           g == Fill(SpriteAttr, 4, 208)
           u == f \o g
<1>1. /\ f \in Seq(Accesses) /\ Len(f) = 3
      /\ f[1].op = "control" /\ f[2].op = "control" /\ f[3].op = "data"
  BY Constants, FillShape
<1>2. /\ g \in Seq(Accesses) /\ Len(g) = 3
      /\ g[1].op = "control" /\ g[2].op = "control" /\ g[3].op = "data"
  BY Constants, FillShape
<1> HIDE DEF f, g
<1>3. /\ u \in Seq(Accesses) /\ Len(u) = Len(f) + 3
      /\ \A i \in 1 .. Len(f) : u[i] = f[i]
      /\ u[Len(f) + 1] = g[1] /\ u[Len(f) + 2] = g[2] /\ u[Len(f) + 3] = g[3]
  BY <1>1, <1>2, ThreeMore, Zenon
<1> HIDE DEF u
<1>4. /\ Len(u) = 6 /\ u[1].op = "control" /\ u[2].op = "control" /\ u[3].op = "data"
      /\ u[4].op = "control" /\ u[5].op = "control" /\ u[6].op = "data"
  BY <1>1, <1>2, <1>3
<1>5. ASSUME NEW i \in 1 .. 6
      PROVE  u[i].op = "control" <=> IsControl(6 - i + 1)
  <2>1. IsControl(6 - i + 1) <=> i # 3 /\ i # 6
    BY DEF IsControl
  <2>2. QED
    BY <1>4, <2>1
<1>6. Paired(u)
  BY <1>4, <1>5 DEF Paired
<1>7. QED
  BY <1>3, <1>4, <1>6 DEF BlankGrid, u, f, g

LEMMA FillPaired ==
  ASSUME NEW a \in Addresses, NEW n \in Sizes, NEW v \in Byte
  PROVE  Paired(Fill(a, n, v))
<1> DEFINE f == Fill(a, n, v)
<1>1. /\ f \in Seq(Accesses) /\ Len(f) = 3
      /\ f[1].op = "control" /\ f[2].op = "control" /\ f[3].op = "data"
  BY FillShape
<1> HIDE DEF f
<1>2. ASSUME NEW i \in 1 .. 3
      PROVE  f[i].op = "control" <=> IsControl(3 - i + 1)
  <2>1. IsControl(3 - i + 1) <=> i # 3
    BY DEF IsControl
  <2>2. QED
    BY <1>1, <2>1
<1>3. QED
  BY <1>1, <1>2 DEF Paired, f

LEMMA InitScreen1Paired == Paired(InitScreen1)
<1> DEFINE s == InitScreen1
<1>1. /\ s \in Seq(Accesses) /\ Len(s) = 31
      /\ \A i \in 1 .. 16 : s[i] = Screen1Registers[i]
      /\ \A i \in 17 .. 31 : s[i].op = "control" <=> (32 - i) % 3 # 1
  BY InitScreen1Accesses DEF Screen1Begins
<1> HIDE DEF s
<1>2. ASSUME NEW i \in 1 .. 16
      PROVE  s[i].op = "control" /\ IsControl(31 - i + 1)
  <2>1. s[i] = IF i % 2 = 1 THEN Control(Screen1[(i + 1) \div 2]) ELSE Control(127 + i \div 2)
    BY <1>1, Screen1RegisterAccesses
  <2>2. \A byte : Control(byte).op = "control"
    BY DEF Control
  <2>3. s[i].op = "control"
    BY <2>1, <2>2
  <2>4. IsControl(31 - i + 1)
    BY DEF IsControl
  <2>5. QED
    BY <2>3, <2>4
<1>3. ASSUME NEW i \in 17 .. 31
      PROVE  s[i].op = "control" <=> IsControl(31 - i + 1)
  <2>1. 31 - i + 1 = 32 - i /\ ~(32 - i > 15)
    OBVIOUS
  <2>2. QED
    BY <1>1, <2>1 DEF IsControl
<1>4. \A i \in 1 .. 31 : s[i].op = "control" <=> IsControl(31 - i + 1)
  BY <1>2, <1>3
<1>5. QED
  BY <1>1, <1>4 DEF Paired, s

\* What a task begins to send.
Sent == Seq(Accesses)

LEMMA SentByTasks ==
  /\ \A glyph \in Byte : Fill(DrawnCell, 1, glyph) \in Sent
  /\ \A cell \in Cells : TestAt(cell) \in Sent
  /\ Fill(SpriteAttr, 4, 100) \in Sent /\ Fill(SpriteAttr + 1, 1, 0) \in Sent
  /\ BlankGrid \in Sent /\ InitScreen1 \in Sent /\ <<>> \in Sent
  /\ \A hue \in 0 .. Colors : RegisterWrite(240 + hue, 7) \in Sent
<1>1. /\ \A glyph \in Byte : Fill(DrawnCell, 1, glyph) \in Sent
      /\ Fill(SpriteAttr, 4, 100) \in Sent /\ Fill(SpriteAttr + 1, 1, 0) \in Sent
  BY Constants, FillShape DEF Sent
<1>2. \A cell \in Cells : TestAt(cell) \in Sent
  BY Constants, TestAccesses DEF Sent
<1>3. BlankGrid \in Sent /\ InitScreen1 \in Sent /\ <<>> \in Sent
  BY BlankGridAccesses, InitScreen1Accesses DEF Sent, Screen1Begins
<1>4. ASSUME NEW hue \in 0 .. Colors
      PROVE  RegisterWrite(240 + hue, 7) \in Sent
  <2>1. 240 + hue \in Byte /\ 128 + 7 \in Byte
    BY VdpAssumption DEF Byte
  <2>2. Control(240 + hue) \in Accesses /\ Control(128 + 7) \in Accesses
    BY <2>1, ControlAccess
  <2>3. QED
    BY <2>2 DEF Sent, RegisterWrite
<1>5. QED
  BY <1>1, <1>2, <1>3, <1>4

\* The steps of gchk begin a sequence, or leave it empty, and move on.
Steps == {"start", "pattern", "wait", "border", "sprite", "slide", "finish", "exit"}

LEMMA GchkKeepsTypes ==
  ASSUME TypeOK, NEW from, NEW to \in Steps, NEW accesses \in Sent, Gchk(from, to, accesses),
         color' \in 0 .. Colors, waited' \in BOOLEAN
  PROVE  TypeOK'
<1>1. Begin("gchk", accesses) /\ at' = to /\ "gchk" \in Tasks
  BY DEF Gchk, Tasks
<1>2. QED
  BY <1>1, BeginKeepsTypes DEF TypeOK, Steps, Sent

LEMMA TypesKept ==
  ASSUME TypeOK, [Next]_vars
  PROVE  TypeOK'
<1>1. CASE \E t \in Tasks : Access(t)
  BY <1>1, AccessKeepsTypes
<1>2. ASSUME NEW t \in Tasks, Tick(t) PROVE TypeOK'
  BY <1>2 DEF Tick, TypeOK, Acknowledged
<1>3. ASSUME NEW glyph \in Glyphs, Draw(glyph) PROVE TypeOK'
  <2>1. Begin("indicator", Fill(DrawnCell, 1, glyph)) /\ UNCHANGED gchkVars
    BY <1>3 DEF Draw
  <2>2. glyph \in Byte /\ "indicator" \in Tasks
    BY Constants DEF Tasks
  <2>3. QED
    BY <2>1, <2>2, SentByTasks, BeginKeepsTypes DEF TypeOK, gchkVars, Sent
<1>4. ASSUME NEW cell \in Cells, Test(cell) PROVE TypeOK'
  <2>1. Begin("vchk", TestAt(cell)) /\ UNCHANGED gchkVars
    BY <1>4 DEF Test
  <2>2. QED
    BY <2>1, SentByTasks, BeginKeepsTypes DEF TypeOK, gchkVars, Sent, Tasks
<1>5. color \in 0 .. Colors /\ waited \in BOOLEAN /\ color \in Int /\ Colors \in 1 .. 15
  <2>1. color \in 0 .. Colors /\ waited \in BOOLEAN
    BY DEF TypeOK
  <2>2. Colors \in 1 .. 15
    BY VdpAssumption
  <2>3. Colors \in Int
    BY <2>2
  <2>4. QED
    BY <2>1, <2>2, <2>3, RangeBounds
<1>6. Fill(DrawnCell, 1, 1) \in Sent
  BY SentByTasks, Constants
<1>7. CASE GchkBegins
  <2>1. Gchk("start", "pattern", InitScreen1) /\ color' \in 0 .. Colors /\ waited' \in BOOLEAN
    BY <1>5, <1>7 DEF GchkBegins
  <2>2. InitScreen1 \in Sent
    BY <1>5, SentByTasks
  <2>3. QED
    BY <2>1, <2>2, GchkKeepsTypes DEF Steps
<1>8. CASE GchkPattern
  <2>1. Gchk("pattern", "wait", Fill(DrawnCell, 1, 1)) /\ color' \in 0 .. Colors /\ waited' \in BOOLEAN
    BY <1>5, <1>8 DEF GchkPattern
  <2>2. Fill(DrawnCell, 1, 1) \in Sent
    BY <1>6
  <2>3. QED
    BY <2>1, <2>2, GchkKeepsTypes DEF Steps
<1>9. CASE GchkBorder
  <2>1. Gchk("border", "wait", RegisterWrite(240 + color, 7)) /\ color' \in 0 .. Colors /\ waited' \in BOOLEAN
    BY <1>5, <1>9 DEF GchkBorder
  <2>2. RegisterWrite(240 + color, 7) \in Sent
    BY <1>5, SentByTasks
  <2>3. QED
    BY <2>1, <2>2, GchkKeepsTypes DEF Steps
<1>10. CASE GchkNext
  <2>1. CASE color = Colors /\ Gchk("wait", "sprite", <<>>) /\ UNCHANGED <<color, waited>>
    BY <1>5, <2>1, SentByTasks, GchkKeepsTypes DEF Steps
  <2>2. CASE /\ color < Colors /\ color' = color + 1 /\ UNCHANGED waited
             /\ Gchk("wait", "border", IF color = 0 THEN BlankGrid ELSE <<>>)
    <3>1. (IF color = 0 THEN BlankGrid ELSE <<>>) \in Sent
      BY SentByTasks
    <3>2. color' \in 0 .. Colors /\ waited' \in BOOLEAN
      BY <1>5, <2>2
    <3>3. QED
      BY <2>2, <3>1, <3>2, GchkKeepsTypes DEF Steps
  <2>3. QED
    BY <1>10, <2>1, <2>2 DEF GchkNext
<1>11. CASE GchkStopped
  BY <1>5, <1>11, SentByTasks, GchkKeepsTypes DEF GchkStopped, Steps
<1>12. CASE GchkSprite
  BY <1>5, <1>12, SentByTasks, GchkKeepsTypes DEF GchkSprite, Steps
<1>13. CASE GchkFinishes
  BY <1>5, <1>13, SentByTasks, GchkKeepsTypes DEF GchkFinishes, Finish, Steps
<1>14. CASE RequestStop
  BY <1>14 DEF RequestStop, TypeOK, chipVars, gchkVars
<1>15. CASE UNCHANGED vars
  BY <1>15 DEF vars, TypeOK, chipVars, gchkVars
<1>16. QED
  BY <1>1, <1>2, <1>3, <1>4, <1>7, <1>8, <1>9, <1>10, <1>11, <1>12, <1>13, <1>14, <1>15 DEF Next

----------------------------------------------------------------------------
(* The tasks that draw *)

\* Whoever is not vchk changes both memories alike.
LEMMA AccessDraws ==
  ASSUME NEW t \in Tasks \ {"vchk"}, Access(t), mem = drawn
  PROVE  mem' = drawn'
BY DEF Access, OutData, InData

LEMMA AccessFrame ==
  ASSUME TypeOK, NEW t \in Tasks, Access(t)
  PROVE  /\ running = t /\ todo[t] # <<>> /\ UNCHANGED <<running, at, color, waited, stop>>
         /\ todo'[t] = Tail(todo[t]) /\ \A u \in Tasks \ {t} : todo'[u] = todo[u]
BY DEF TypeOK, Access, gchkVars

\* While another task runs, what gchk has sent stays.
LEMMA GchkRests ==
  ASSUME IInv, running # "gchk", running' # "gchk", regs' = regs, todo'["gchk"] = todo["gchk"],
         at' = at, color' = color, waited' = waited
  PROVE  GchkInStep'
<1>1. "gchk" \in Tasks \ {running}
  BY DEF Tasks
<1>2. at = "exit" => todo["gchk"] = <<>>
  BY <1>1 DEF IInv, OneAtATime
<1>3. ASSUME at = "exit", Clean PROVE Written(0)'
  <2>1. Written(0)
    BY <1>2, <1>3 DEF IInv, GchkInStep
  <2>2. QED
    BY <2>1 DEF Written
<1>4. at' = "exit" => Rest(todo["gchk"], InitScreen1)'
  BY DEF IInv, GchkInStep, Rest
<1>5. at' = "exit" /\ Clean' => Written(Len(todo["gchk"]))'
  <2>1. Clean' => Clean
    BY DEF Clean
  <2>2. at' = "exit" => todo'["gchk"] = <<>>
    BY <1>2
  <2>3. Len(<<>>) = 0
    OBVIOUS
  <2>4. QED
    BY <1>3, <2>1, <2>2, <2>3
<1>6. QED
  BY <1>4, <1>5 DEF IInv, GchkInStep, Clean

LEMMA OthersRest ==
  ASSUME IInv, running' = running, at' = at, color' = color,
         \A u \in Tasks \ {running} : todo'[u] = todo[u]
  PROVE  OneAtATime'
BY DEF IInv, OneAtATime

\* The accesses of a fill and of a test follow the bytes of an address.
LEMMA HighByte ==
  ASSUME NEW a \in Addresses, NEW next, NEW left \in Nat, left % 3 = 2,
         \/ next = Control(64 + ((a \div 256) % 64))
         \/ next = Control((a \div 256) % 64)
  PROVE  Aims(next, left, a)
<1>1. PICK high \in 0 .. 127 : next = Control(high) /\ (high % 64) * 256 + (a % 256) = a
  BY AddressBytes
<1>2. QED
  BY <1>1 DEF Aims

LEMMA FillAims ==
  ASSUME NEW a \in Addresses, NEW n \in Sizes, NEW v \in Byte, NEW left \in 1 .. 3
  PROVE  Aims(Fill(a, n, v)[4 - left], left, a)
<1> DEFINE T == Fill(a, n, v)
<1>1. /\ T[1] = Control(a % 256) /\ T[2] = Control(64 + ((a \div 256) % 64))
      /\ T[3] = Data(v, a, n)
  BY FillAccesses
<1> HIDE DEF T
<1>2. CASE left = 3
  BY <1>1, <1>2 DEF Aims, T
<1>3. CASE left = 2
  BY <1>1, <1>3, HighByte DEF T
<1>4. CASE left = 1
  <2>1. Data(v, a, n).op = "data"
    BY DEF Data
  <2>2. QED
    BY <1>1, <1>4, <2>1 DEF Aims, T
<1>5. QED
  BY <1>2, <1>3, <1>4

LEMMA TestAims ==
  ASSUME NEW a \in Addresses, NEW left \in 1 .. 12
  PROVE  Aims(TestAt(a)[13 - left], left, a)
<1> DEFINE T == TestAt(a)
<1>1. /\ \A i \in {1, 4, 7, 10} : T[i] = Control(a % 256)
      /\ \A i \in {2, 8} : T[i] = Control((a \div 256) % 64)
      /\ \A i \in {5, 11} : T[i] = Control(64 + ((a \div 256) % 64))
      /\ T[3] = Save(a) /\ T[6] = Data(TestByte, a, 1)
      /\ T[9] = ReadData(a) /\ T[12] = Restore(a)
  BY TestAccesses
<1> HIDE DEF T
<1>2. CASE left \in {12, 9, 6, 3}
  <2>1. left % 3 = 0 /\ 13 - left \in {1, 4, 7, 10}
    BY <1>2
  <2>2. QED
    BY <1>1, <2>1 DEF Aims, T
<1>3. CASE left \in {11, 8, 5, 2}
  <2>1. left % 3 = 2 /\ (13 - left \in {2, 8} \/ 13 - left \in {5, 11})
    BY <1>3
  <2>2. QED
    BY <1>1, <2>1, HighByte DEF T
<1>4. CASE left \in {10, 7, 4, 1}
  <2>1. left % 3 = 1 /\ 13 - left \in {3, 6, 9, 12}
    BY <1>4
  <2>2. \A i \in {3, 6, 9, 12} : T[i].op # "control"
    BY <1>1 DEF Save, Data, ReadData, Restore
  <2>3. QED
    BY <2>1, <2>2 DEF Aims, T
<1>5. QED
  BY <1>2, <1>3, <1>4

LEMMA IndicatorAccess ==
  ASSUME IInv, Access("indicator")
  PROVE  OneAtATime' /\ Drawing' /\ Testing' /\ Undisturbed' /\ GchkInStep'
<1>1. TypeOK /\ "indicator" \in Tasks
  BY DEF IInv, Tasks
<1>2. /\ running = "indicator" /\ UNCHANGED <<running, at, color, waited, stop>>
      /\ \A u \in Tasks \ {"indicator"} : todo'[u] = todo[u]
  BY <1>1, AccessFrame
<1>3. PICK glyph \in Byte : /\ Rest(todo["indicator"], Fill(DrawnCell, 1, glyph))
                            /\ Aimed(todo["indicator"], DrawnCell)
  BY <1>2 DEF IInv, Drawing
<1> DEFINE T == Fill(DrawnCell, 1, glyph)
<1>4. T \in Seq(Accesses) /\ Len(T) = 3 /\ Rest(todo["indicator"], T)
  BY <1>3, FillAccesses, Constants
<1>a. \A left \in 1 .. 3 : Aims(T[4 - left], left, DrawnCell)
  BY FillAims, Constants
<1> HIDE DEF T
<1>5. PICK left \in 1 .. 3 :
        /\ Len(todo["indicator"]) = left /\ Len(todo'["indicator"]) = left - 1
        /\ Head(todo["indicator"]) = T[4 - left] /\ Rest(todo'["indicator"], T)
  <2>1. /\ Len(todo["indicator"]) \in Nat \ {0} /\ Len(todo["indicator"]) <= Len(T)
        /\ Len(todo'["indicator"]) = Len(todo["indicator"]) - 1
        /\ Head(todo["indicator"]) = T[Len(T) - Len(todo["indicator"]) + 1]
        /\ Rest(todo'["indicator"], T)
    BY <1>1, <1>4, RestStep, Zenon
  <2> DEFINE m == Len(todo["indicator"])
             head == Head(todo["indicator"])
  <2>2. m \in Nat \ {0} /\ m <= 3 /\ Len(todo'["indicator"]) = m - 1 /\ head = T[3 - m + 1]
    BY <1>4, <2>1
  <2> HIDE DEF m, head
  <2>3. m \in 1 .. 3 /\ 3 - m + 1 = 4 - m
    BY <2>2
  <2>4. m = Len(todo["indicator"]) /\ head = Head(todo["indicator"])
    BY DEF m, head
  <2>5. QED
    BY <2>1, <2>2, <2>3, <2>4
<1>6. Aims(Head(todo["indicator"]), left, DrawnCell) /\ left \in Nat
  BY <1>a, <1>5
<1>7. Aimed(todo["indicator"], DrawnCell)' /\ regs' = regs
  BY <1>1, <1>3, <1>5, <1>6, AimStep, Constants
<1>8. Drawing'
  <2>1. Rest(todo["indicator"], Fill(DrawnCell, 1, glyph))'
    BY <1>5 DEF T
  <2>2. QED
    BY <1>7, <2>1 DEF Drawing
<1>9. mem' = drawn'
  <2>1. mem = drawn
    BY <1>2 DEF IInv, Undisturbed
  <2>2. QED
    BY <1>1, <2>1, AccessDraws
<1>10. "gchk" \in Tasks \ {"indicator"} /\ "gchk" # "indicator" /\ "vchk" # "indicator"
  BY DEF Tasks
<1>11. GchkInStep'
  BY <1>2, <1>7, <1>10, GchkRests
<1>12. OneAtATime'
  BY <1>2, OthersRest
<1>13. QED
  BY <1>2, <1>8, <1>9, <1>10, <1>11, <1>12 DEF Testing, Undisturbed

LEMMA Distance ==
  ASSUME NEW x \in Addresses, NEW y \in Addresses
  PROVE  (x - y) % MemSize < 1 <=> x = y
<1> DEFINE d == x - y
<1>1. /\ x \in Int /\ 0 <= x /\ x < 16384
      /\ y \in Int /\ 0 <= y /\ y < 16384
  <2>1. MemSize - 1 \in Int /\ MemSize - 1 = 16383
    BY Memory
  <2>2. x \in 0 .. MemSize - 1 /\ y \in 0 .. MemSize - 1
    BY DEF Addresses
  <2>3. /\ x \in Int /\ 0 <= x /\ x <= MemSize - 1
        /\ y \in Int /\ 0 <= y /\ y <= MemSize - 1
    BY <2>1, <2>2, RangeBounds
  <2>4. QED
    BY <2>1, <2>3
<1>2. d \in Int /\ (d = 0 <=> x = y)
  BY <1>1
<1>3. d + 16384 > 0
  BY <1>1
<1>4. d < 16384
  BY <1>1
<1> HIDE DEF d
<1>5. CASE d >= 0
  <2>1. d % 16384 = d
    BY <1>2, <1>4, <1>5
  <2>2. QED
    BY <1>2, <1>5, <2>1 DEF MemSize, d
<1>6. CASE d < 0
  <2>1. d % 16384 = d + 16384
    BY <1>2, <1>3, <1>6
  <2>2. ~(d % 16384 < 1) /\ x # y
    BY <1>2, <1>3, <1>6, <2>1
  <2>3. QED
    BY <2>2 DEF MemSize, d
<1>7. QED
  BY <1>2, <1>5, <1>6

\* One byte changes at the address the chip has been told, and only there.
LEMMA StoredOne ==
  ASSUME TypeOK, NEW cell \in Cells, addr = cell, NEW v
  PROVE  Stored(v, 1) = [mem EXCEPT ![cell] = v]
<1>1. /\ mem \in [Cells -> Byte] /\ Cells \subseteq 0 .. MemSize - 1
  BY VdpAssumption DEF TypeOK
<1>2. ASSUME NEW c \in Cells
      PROVE  (c - addr) % MemSize < 1 <=> c = cell
  BY <1>1, Distance DEF Addresses
<1>3. QED
  BY <1>1, <1>2 DEF Stored

\* The accesses that change what vchk has saved, the memory or neither.
LEMMA VchkAccessEffect ==
  ASSUME TypeOK, Access("vchk"), NEW cell \in Cells, addr = cell,
         Head(todo["vchk"]) \in {Save(cell), Data(TestByte, cell, 1), ReadData(cell), Restore(cell)}
  PROVE  /\ drawn' = drawn
         /\ Head(todo["vchk"]) = Save(cell) => saved' = mem[cell] /\ mem' = mem
         /\ Head(todo["vchk"]) = Data(TestByte, cell, 1) =>
              saved' = saved /\ mem' = [mem EXCEPT ![cell] = TestByte]
         /\ Head(todo["vchk"]) = ReadData(cell) => saved' = saved /\ mem' = mem
         /\ Head(todo["vchk"]) = Restore(cell) =>
              saved' = saved /\ mem' = [mem EXCEPT ![cell] = saved]
<1> DEFINE next == Head(todo["vchk"])
<1>1. CASE next = Save(cell)
  <2>1. next.op = "save" /\ next # Data(TestByte, cell, 1) /\ next # ReadData(cell) /\ next # Restore(cell)
    BY <1>1 DEF Save, Data, ReadData, Restore
  <2>2. InData /\ saved' = Content
    BY <2>1 DEF Access
  <2>3. QED
    BY <2>1, <2>2 DEF InData, Content
<1>2. CASE next = Data(TestByte, cell, 1)
  <2>1. /\ next.op = "data" /\ next.value = TestByte /\ next.n = 1
        /\ next # Save(cell) /\ next # ReadData(cell) /\ next # Restore(cell)
    BY <1>2 DEF Save, Data, ReadData, Restore
  <2>2. OutData("vchk", TestByte, 1) /\ saved' = saved
    BY <2>1 DEF Access
  <2>3. QED
    BY <2>1, <2>2, StoredOne DEF OutData
<1>3. CASE next = ReadData(cell)
  <2>1. next.op = "read" /\ next # Data(TestByte, cell, 1) /\ next # Save(cell) /\ next # Restore(cell)
    BY <1>3 DEF Save, Data, ReadData, Restore
  <2>2. InData /\ saved' = saved
    BY <2>1 DEF Access
  <2>3. QED
    BY <2>1, <2>2 DEF InData
<1>4. CASE next = Restore(cell)
  <2>1. next.op = "restore" /\ next # Data(TestByte, cell, 1) /\ next # Save(cell) /\ next # ReadData(cell)
    BY <1>4 DEF Save, Data, ReadData, Restore
  <2>2. OutData("vchk", saved, 1) /\ saved' = saved
    BY <2>1 DEF Access
  <2>3. QED
    BY <2>1, <2>2, StoredOne DEF OutData
<1>5. QED
  BY <1>1, <1>2, <1>3, <1>4

LEMMA VchkAccess ==
  ASSUME IInv, Access("vchk")
  PROVE  OneAtATime' /\ Drawing' /\ Testing' /\ Undisturbed' /\ GchkInStep'
<1>1. TypeOK /\ "vchk" \in Tasks
  BY DEF IInv, Tasks
<1>2. /\ running = "vchk" /\ UNCHANGED <<running, at, color, waited, stop>>
      /\ \A u \in Tasks \ {"vchk"} : todo'[u] = todo[u]
  BY <1>1, AccessFrame
<1>3. PICK cell \in Cells : /\ Rest(todo["vchk"], TestAt(cell))
                            /\ Aimed(todo["vchk"], cell)
                            /\ Tested(Len(todo["vchk"]), cell)
  BY <1>2 DEF IInv, Testing
<1>4. cell \in Addresses
  BY Constants
<1> DEFINE T == TestAt(cell)
<1>5. /\ T \in Seq(Accesses) /\ Len(T) = 12 /\ Rest(todo["vchk"], T)
      /\ T[3] = Save(cell) /\ T[6] = Data(TestByte, cell, 1)
      /\ T[9] = ReadData(cell) /\ T[12] = Restore(cell)
  BY <1>3, <1>4, TestAccesses
<1>6. \A left \in 1 .. 12 : Aims(T[13 - left], left, cell)
  BY <1>4, TestAims
<1> HIDE DEF T
<1>7. PICK left \in 1 .. 12 :
        /\ Len(todo["vchk"]) = left /\ Len(todo'["vchk"]) = left - 1
        /\ Head(todo["vchk"]) = T[13 - left] /\ Rest(todo'["vchk"], T)
  <2>1. /\ Len(todo["vchk"]) \in Nat \ {0} /\ Len(todo["vchk"]) <= Len(T)
        /\ Len(todo'["vchk"]) = Len(todo["vchk"]) - 1
        /\ Head(todo["vchk"]) = T[Len(T) - Len(todo["vchk"]) + 1]
        /\ Rest(todo'["vchk"], T)
    BY <1>1, <1>5, RestStep, Zenon
  <2> DEFINE m == Len(todo["vchk"])
             head == Head(todo["vchk"])
  <2>2. m \in Nat \ {0} /\ m <= 12 /\ Len(todo'["vchk"]) = m - 1 /\ head = T[12 - m + 1]
    BY <1>5, <2>1
  <2> HIDE DEF m, head
  <2>3. m \in 1 .. 12 /\ 12 - m + 1 = 13 - m
    BY <2>2
  <2>4. m = Len(todo["vchk"]) /\ head = Head(todo["vchk"])
    BY DEF m, head
  <2>5. QED
    BY <2>1, <2>2, <2>3, <2>4
<1>8. Aims(Head(todo["vchk"]), left, cell) /\ left \in Nat
  <2>1. Aims(T[13 - left], left, cell) /\ Head(todo["vchk"]) = T[13 - left]
    BY <1>6, <1>7
  <2>2. Aims(Head(todo["vchk"]), left, cell)
    BY <2>1, Zenon
  <2>3. QED
    BY <2>2
<1>9. /\ Aimed(todo["vchk"], cell)' /\ regs' = regs
      /\ left % 3 # 1 => mem' = mem /\ drawn' = drawn /\ saved' = saved
  BY <1>1, <1>3, <1>4, <1>7, <1>8, AimStep
<1>10. /\ left \in 1 .. 9 => saved = drawn[cell]
       /\ mem = IF left \in 1 .. 6 THEN [drawn EXCEPT ![cell] = TestByte] ELSE drawn
  BY <1>3, <1>7 DEF Tested
<1>11. /\ left - 1 \in 1 .. 9 => saved' = drawn'[cell]
       /\ mem' = IF left - 1 \in 1 .. 6 THEN [drawn' EXCEPT ![cell] = TestByte] ELSE drawn'
  <2>1. CASE left % 3 # 1
    <3>1. (left - 1 \in 1 .. 9 => left \in 1 .. 9) /\ (left - 1 \in 1 .. 6 <=> left \in 1 .. 6)
      BY <2>1
    <3>2. QED
      BY <1>9, <1>10, <2>1, <3>1
  <2>2. CASE left \in {10, 7, 4, 1}
    <3>1. left % 3 = 1 /\ addr = cell
      BY <1>3, <1>7, <2>2 DEF Aimed
    <3>2. /\ left = 10 => Head(todo["vchk"]) = Save(cell)
          /\ left = 7 => Head(todo["vchk"]) = Data(TestByte, cell, 1)
          /\ left = 4 => Head(todo["vchk"]) = ReadData(cell)
          /\ left = 1 => Head(todo["vchk"]) = Restore(cell)
      BY <1>5, <1>7
    <3>3. /\ drawn' = drawn
          /\ left = 10 => saved' = mem[cell] /\ mem' = mem
          /\ left = 7 => saved' = saved /\ mem' = [mem EXCEPT ![cell] = TestByte]
          /\ left = 4 => saved' = saved /\ mem' = mem
          /\ left = 1 => saved' = saved /\ mem' = [mem EXCEPT ![cell] = saved]
      BY <1>1, <2>2, <3>1, <3>2, VchkAccessEffect, Zenon
    <3>4. mem \in [Cells -> Byte] /\ drawn \in [Cells -> Byte]
      BY <1>1 DEF TypeOK
    <3>5. CASE left = 10
      BY <1>10, <3>3, <3>5
    <3>6. CASE left = 7
      BY <1>10, <3>3, <3>6
    <3>7. CASE left = 4
      BY <1>10, <3>3, <3>7
    <3>8. CASE left = 1
      <4>1. saved = drawn[cell] /\ mem = [drawn EXCEPT ![cell] = TestByte]
        BY <1>10, <3>8
      <4>2. ASSUME NEW f \in [Cells -> Byte], NEW b
            PROVE  [[f EXCEPT ![cell] = b] EXCEPT ![cell] = f[cell]] = f
        OBVIOUS
      <4>3. [[drawn EXCEPT ![cell] = TestByte] EXCEPT ![cell] = drawn[cell]] = drawn
        BY <3>4, <4>2
      <4>4. [mem EXCEPT ![cell] = saved] = drawn
        BY <4>1, <4>3
      <4>5. mem' = drawn'
        BY <3>3, <3>8, <4>4
      <4>6. ~(left - 1 \in 1 .. 9) /\ ~(left - 1 \in 1 .. 6)
        BY <3>8
      <4>7. QED
        BY <4>5, <4>6
    <3>9. QED
      BY <2>2, <3>5, <3>6, <3>7, <3>8
  <2>3. QED
    BY <2>1, <2>2
<1>12. Testing'
  <2>1. Tested(Len(todo["vchk"]), cell)'
    BY <1>7, <1>11 DEF Tested
  <2>2. Rest(todo["vchk"], TestAt(cell))'
    BY <1>7 DEF T
  <2>3. QED
    BY <1>9, <2>1, <2>2 DEF Testing
<1>13. "gchk" \in Tasks \ {"vchk"} /\ "gchk" # "vchk" /\ "indicator" # "vchk"
  BY DEF Tasks
<1>14. GchkInStep'
  BY <1>2, <1>9, <1>13, GchkRests
<1>15. OneAtATime'
  BY <1>2, OthersRest
<1>16. QED
  BY <1>2, <1>12, <1>13, <1>14, <1>15 DEF Drawing, Undisturbed

----------------------------------------------------------------------------
(* gchk *)

\* A byte of a pair and the latch: one sets it, the next clears it.
LEMMA HalfStep ==
  ASSUME NEW left \in 1 .. 31
  PROVE  LET half(n) == IF n <= 15 THEN n % 3 = 2 ELSE n % 2 = 0
         IN  /\ IsControl(left) => (half(left - 1) <=> ~half(left))
             /\ ~IsControl(left) => ~half(left - 1)
<1>1. CASE left <= 15
  <2>1. (left - 1) % 3 = IF left % 3 = 0 THEN 2 ELSE (left % 3) - 1
    BY ModThree
  <2>2. left % 3 \in {0, 1, 2}
    BY ModThree
  <2>3. QED
    BY <1>1, <2>1, <2>2 DEF IsControl
<1>2. CASE left = 16
  BY <1>2 DEF IsControl
<1>3. CASE left > 16
  BY <1>3 DEF IsControl
<1>4. QED
  BY <1>1, <1>2, <1>3

LEMMA PairStep ==
  ASSUME TypeOK, NEW t \in Tasks, Access(t), InStep(t)
  PROVE  InStep(t)'
<1> DEFINE s == todo[t]
           r == Tail(todo[t])
<1>1. s \in Seq(Accesses) /\ s # <<>> /\ todo'[t] = r /\ Paired(s)
  BY AccessFrame DEF TypeOK, InStep
<1>2. Paired(r) /\ (Head(s).op = "control" <=> IsControl(Len(s)))
  BY <1>1, PairedTail
<1>3. Len(s) \in Nat \ {0} /\ Len(r) = Len(s) - 1 /\ Head(s) \in Accesses
  BY <1>1, TailOf
<1>4. Len(s) <= 31
  BY <1>1 DEF Paired
<1> HIDE DEF s, r
<1>5. Len(s) \in 1 .. 31
  <2>1. \A n \in Nat \ {0} : n <= 31 => n \in 1 .. 31
    OBVIOUS
  <2>2. QED
    BY <1>3, <1>4, <2>1
<1>6. /\ IsControl(Len(s)) => (Half(r) <=> ~Half(s))
      /\ ~IsControl(Len(s)) => ~Half(r)
  BY <1>3, <1>5, HalfStep DEF Half
<1>7. latch = NoByte <=> ~Half(s)
  BY DEF InStep, s
<1>8. CASE IsControl(Len(s))
  <2>1. PICK next \in Accesses : next = Head(s)
    BY <1>3
  <2>2. OutControl(next.value)
    BY <1>2, <1>8, <2>1 DEF Access, s
  <2>3. next.value # NoByte
    BY DEF Accesses, Byte, NoByte
  <2>4. latch' = NoByte <=> latch # NoByte
    BY <2>2, <2>3 DEF OutControl
  <2>5. QED
    BY <1>1, <1>2, <1>6, <1>7, <1>8, <2>4 DEF InStep, Half
<1>9. CASE ~IsControl(Len(s))
  <2>1. latch' = NoByte
    BY <1>2, <1>9 DEF Access, OutData, InData, s
  <2>2. QED
    BY <1>1, <1>2, <1>6, <1>9, <2>1 DEF InStep, Half
<1>10. QED
  BY <1>8, <1>9

\* The registers of screen 1 are written in pairs; no address of a fill
\* looks like a register number.
LEMMA WrittenStep ==
  ASSUME TypeOK, Access("gchk"), InStep("gchk"), Rest(todo["gchk"], InitScreen1),
         Written(Len(todo["gchk"]))
  PROVE  Written(Len(todo["gchk"]))'
<1> DEFINE s == todo["gchk"]
           T == InitScreen1
<1>1. /\ T \in Seq(Accesses) /\ Len(T) = 31
      /\ \A i \in 1 .. 16 : T[i] = Screen1Registers[i]
      /\ \A i \in 17 .. 31 : /\ T[i].op = "control" <=> (32 - i) % 3 # 1
                             /\ (32 - i) % 3 = 2 => T[i].value < 128
  BY InitScreen1Accesses DEF Screen1Begins
<1>2. Rest(s, T) /\ "gchk" \in Tasks
  BY DEF Tasks
<1> HIDE DEF T
<1>3. /\ Len(s) \in Nat \ {0} /\ Len(s) <= Len(T) /\ Len(todo'["gchk"]) = Len(s) - 1
      /\ Head(s) = T[Len(T) - Len(s) + 1] /\ s \in Seq(Accesses)
  BY <1>1, <1>2, RestStep, Zenon
<1> DEFINE left == Len(s)
           head == Head(s)
<1>4. left \in Nat \ {0} /\ left <= 31 /\ Len(todo'["gchk"]) = left - 1 /\ head = T[31 - left + 1]
  BY <1>1, <1>3
<1>5. head \in Accesses
  BY <1>3, TailOf DEF Access
<1>6. /\ \A r \in 0 .. 7 : 2 * (r + 1) <= 31 - left => regs[r] = Screen1[r + 1]
      /\ left >= 16 /\ left % 2 = 0 => latch = Screen1[(32 - left) \div 2]
      /\ latch = NoByte <=> ~(IF left <= 15 THEN left % 3 = 2 ELSE left % 2 = 0)
  BY DEF Written, InStep, Half
<1>7. ASSUME head.op = "control" PROVE OutControl(head.value)
  BY <1>7 DEF Access
<1>8. ASSUME head.op # "control" PROVE regs' = regs
  BY <1>8 DEF Access, OutData, InData
<1> HIDE DEF left, head
<1>9. left \in 1 .. 31 /\ 31 - left + 1 = 32 - left
  BY <1>4
<1>10. regs \in [0 .. 7 -> Byte]
  BY DEF TypeOK
<1> DEFINE Goal == /\ \A r \in 0 .. 7 : 2 * (r + 1) <= 31 - (left - 1) => regs'[r] = Screen1[r + 1]
                   /\ left - 1 >= 16 /\ (left - 1) % 2 = 0 => latch' = Screen1[(32 - (left - 1)) \div 2]
<1>11. CASE left <= 15
  <2>1. 32 - left \in 17 .. 31 /\ 32 - (32 - left) = left
    BY <1>9, <1>11
  <2>2. left % 3 = 2 /\ head.op = "control" => head.value < 128
    BY <1>1, <1>4, <1>9, <2>1
  <2>3. regs' = regs
    <3>1. CASE head.op = "control"
      <4>1. latch # NoByte => head.value < 128
        BY <1>6, <1>11, <2>2, <3>1
      <4>2. head.value \in 0 .. 255
        BY <1>5 DEF Accesses, Byte
      <4>3. \A v \in 0 .. 255 : OutControl(v) /\ (latch # NoByte => v < 128) => regs' = regs
        BY DEF OutControl
      <4>4. QED
        BY <1>7, <3>1, <4>1, <4>2, <4>3
    <3>2. QED
      BY <1>8, <3>1
  <2>4. \A r \in 0 .. 7 : 2 * (r + 1) <= 31 - left
    BY <1>9, <1>11
  <2>5. Goal
    BY <1>6, <1>9, <1>11, <2>3, <2>4
  <2>6. QED
    BY <1>4, <2>5 DEF Written
<1>12. CASE left >= 16
  <2>1. 32 - left \in 1 .. 16
    BY <1>9, <1>12
  <2>2. head = IF (32 - left) % 2 = 1 THEN Control(Screen1[((32 - left) + 1) \div 2])
               ELSE Control(127 + ((32 - left) \div 2))
    <3> DEFINE p == 32 - left
    <3>1. p \in 1 .. 16 /\ head = T[p]
      BY <1>4, <1>9, <2>1
    <3> HIDE DEF p
    <3>2. head = Screen1Registers[p]
      BY <1>1, <3>1
    <3>3. Screen1Registers[p] = IF p % 2 = 1 THEN Control(Screen1[(p + 1) \div 2])
                                ELSE Control(127 + (p \div 2))
      BY <3>1, Screen1RegisterAccesses
    <3>4. QED
      BY <3>2, <3>3 DEF p
  <2>3. CASE left % 2 = 1
    <3>1. (32 - left) % 2 = 1 /\ (left - 1) % 2 = 0 /\ (32 - left) + 1 = 32 - (left - 1)
      BY <1>9, <2>3
    <3>2. head = Control(Screen1[(32 - (left - 1)) \div 2])
      BY <2>2, <3>1
    <3>3. OutControl(Screen1[(32 - (left - 1)) \div 2])
      BY <1>7, <3>2 DEF Control
    <3>4. latch = NoByte
      <4>1. ~(left <= 15) /\ ~(left % 2 = 0)
        BY <1>9, <1>12, <2>3
      <4>2. QED
        BY <1>6, <4>1
    <3>5. latch' = Screen1[(32 - (left - 1)) \div 2] /\ regs' = regs
      BY <3>3, <3>4 DEF OutControl
    <3>6. ASSUME NEW r \in 0 .. 7, 2 * (r + 1) <= 31 - (left - 1)
          PROVE  2 * (r + 1) <= 31 - left
      BY <1>9, <2>3, <3>6
    <3>7. Goal
      BY <1>6, <3>5, <3>6
    <3>8. QED
      BY <1>4, <3>7 DEF Written
  <2>4. CASE left % 2 = 0
    <3> DEFINE k == (32 - left) \div 2
    <3>1. (32 - left) % 2 = 0 /\ (left - 1) % 2 = 1 /\ k \in 1 .. 8 /\ 2 * k = 32 - left
      BY <1>9, <1>12, <2>4
    <3> HIDE DEF k
    <3>2. head = Control(127 + k) /\ latch = Screen1[k] /\ latch # NoByte
      BY <1>6, <1>9, <1>12, <2>2, <2>4, <3>1 DEF k
    <3>3. OutControl(127 + k)
      BY <1>7, <3>2 DEF Control
    <3>4. 127 + k >= 128 /\ (127 + k) % 8 = k - 1
      BY <3>1
    <3>5. regs' = [regs EXCEPT ![k - 1] = Screen1[k]]
      BY <3>1, <3>2, <3>3, <3>4 DEF OutControl
    <3>6. ASSUME NEW r \in 0 .. 7, 2 * (r + 1) <= 31 - (left - 1)
          PROVE  regs'[r] = Screen1[r + 1]
      <4>1. CASE r = k - 1
        BY <1>10, <3>1, <3>5, <4>1
      <4>2. CASE r # k - 1
        <5>1. 2 * (r + 1) <= 31 - left
          BY <1>9, <3>1, <3>6, <4>2
        <5>2. QED
          BY <1>6, <1>10, <3>1, <3>5, <4>2, <5>1
      <4>3. QED
        BY <4>1, <4>2
    <3>7. Goal
      BY <3>1, <3>6
    <3>8. QED
      BY <1>4, <3>7 DEF Written
  <2>5. QED
    BY <1>9, <2>3, <2>4
<1>13. QED
  BY <1>9, <1>11, <1>12

LEMMA GchkAccess ==
  ASSUME IInv, Access("gchk")
  PROVE  OneAtATime' /\ Drawing' /\ Testing' /\ Undisturbed' /\ GchkInStep'
<1>1. TypeOK /\ "gchk" \in Tasks /\ "gchk" # "vchk" /\ "gchk" # "indicator"
  BY DEF IInv, Tasks
<1>2. /\ running = "gchk" /\ todo["gchk"] # <<>> /\ UNCHANGED <<running, at, color, waited, stop>>
      /\ \A u \in Tasks \ {"gchk"} : todo'[u] = todo[u]
  BY <1>1, AccessFrame
<1>3. mem' = drawn'
  <2>1. mem = drawn
    BY <1>1, <1>2 DEF IInv, Undisturbed
  <2>2. QED
    BY <1>1, <2>1, AccessDraws
<1>4. OneAtATime'
  BY <1>2, OthersRest
<1>5. ~(waited' /\ at' = "wait")
  BY <1>2 DEF IInv, GchkInStep
<1>6. at' = "border" => color' > 0
  BY <1>2 DEF IInv, GchkInStep
<1>7. ASSUME Clean' PROVE InStep("gchk")'
  <2>1. InStep("gchk")
    BY <1>2, <1>7 DEF IInv, GchkInStep, Clean
  <2>2. QED
    BY <1>1, <2>1, PairStep
<1>8. ASSUME at' = "exit" PROVE Rest(todo["gchk"], InitScreen1)'
  <2>1. Rest(todo["gchk"], InitScreen1) /\ InitScreen1 \in Seq(Accesses)
    BY <1>2, <1>8, InitScreen1Accesses DEF IInv, GchkInStep, Screen1Begins
  <2>2. Rest(todo'["gchk"], InitScreen1)
    BY <1>1, <2>1, RestStep
  <2>3. InitScreen1' = InitScreen1
    OBVIOUS
  <2>4. QED
    BY <2>2, <2>3
<1>9. ASSUME at' = "exit", Clean' PROVE Written(Len(todo["gchk"]))'
  <2>1. /\ InStep("gchk") /\ Rest(todo["gchk"], InitScreen1)
        /\ Written(Len(todo["gchk"]))
    BY <1>2, <1>9 DEF IInv, GchkInStep, Clean
  <2>2. QED
    BY <1>1, <2>1, WrittenStep
<1>10. GchkInStep'
  BY <1>5, <1>6, <1>7, <1>8, <1>9 DEF GchkInStep
<1>11. QED
  BY <1>1, <1>2, <1>3, <1>4, <1>10 DEF Drawing, Testing, Undisturbed

\* gchk begins a step of its own, and so with the chip at rest.
LEMMA GchkBegun ==
  ASSUME IInv, NEW from \in Steps, NEW to \in Steps, NEW accesses \in Sent,
         Gchk(from, to, accesses), Clean' => Clean,
         Clean' => Paired(accesses) /\ ~Half(accesses),
         waited' /\ to = "wait" => accesses = <<>>,
         to = "border" => color' > 0,
         to = "exit" => accesses = InitScreen1
  PROVE  OneAtATime' /\ Drawing' /\ Testing' /\ Undisturbed' /\ GchkInStep'
<1>1. TypeOK /\ "gchk" \in Tasks /\ "gchk" # "vchk" /\ "gchk" # "indicator"
  BY DEF IInv, Tasks
<1>2. /\ running = "gchk" /\ running' = running /\ todo["gchk"] = <<>> /\ at' = to
      /\ UNCHANGED <<regs, mem, addr, latch, drawn>>
  BY DEF Gchk, Begin, chipVars
<1>3. todo'["gchk"] = accesses /\ \A u \in Tasks \ {"gchk"} : todo'[u] = todo[u]
  BY <1>1, BeginKeepsTypes DEF Gchk, Sent
<1>4. OneAtATime'
  BY <1>2, <1>3 DEF IInv, OneAtATime
<1>5. Drawing' /\ Testing' /\ Undisturbed'
  BY <1>1, <1>2 DEF IInv, Drawing, Testing, Undisturbed
<1>6. ASSUME Clean' PROVE InStep("gchk")'
  <2>1. latch = NoByte <=> ~Half(<<>>)
    BY <1>2, <1>6 DEF IInv, GchkInStep, InStep
  <2>2. ~Half(<<>>)
    BY DEF Half
  <2>3. Paired(accesses) /\ ~Half(accesses)
    BY <1>6
  <2>4. QED
    BY <1>2, <1>3, <2>1, <2>2, <2>3 DEF InStep, Half
<1>7. ASSUME to = "exit"
      PROVE  Rest(todo'["gchk"], InitScreen1) /\ Written(Len(todo["gchk"]))'
  <2>1. Len(todo'["gchk"]) = 31 /\ todo'["gchk"] = InitScreen1 /\ Len(InitScreen1) = 31
    BY <1>3, <1>7, InitScreen1Accesses DEF Screen1Begins
  <2>2. Rest(todo'["gchk"], InitScreen1)
    BY <2>1 DEF Rest
  <2>3. Written(31)'
    BY DEF Written
  <2>4. QED
    BY <2>1, <2>2, <2>3 DEF Written
<1>8. GchkInStep'
  BY <1>2, <1>3, <1>6, <1>7 DEF GchkInStep
<1>9. QED
  BY <1>4, <1>5, <1>8

LEMMA FillsPaired ==
  ASSUME NEW a \in Addresses, NEW n \in Sizes, NEW v \in Byte
  PROVE  Paired(Fill(a, n, v)) /\ ~Half(Fill(a, n, v))
<1>1. Len(Fill(a, n, v)) = 3
  BY FillShape
<1>2. ~Half(Fill(a, n, v))
  BY <1>1 DEF Half
<1>3. QED
  BY <1>2, FillPaired

LEMMA OthersPaired ==
  /\ Paired(<<>>) /\ ~Half(<<>>) /\ Paired(InitScreen1) /\ ~Half(InitScreen1)
  /\ Paired(BlankGrid) /\ ~Half(BlankGrid)
<1>1. Paired(<<>>) /\ ~Half(<<>>)
  BY DEF Paired, Half
<1>2. ~Half(InitScreen1)
  BY InitScreen1Accesses DEF Screen1Begins, Half
<1>3. Len(BlankGrid) = 6
  BY BlankGridAccesses
<1>4. ~Half(BlankGrid)
  BY <1>3 DEF Half
<1>5. QED
  BY <1>1, <1>2, <1>4, BlankGridAccesses, InitScreen1Paired

LEMMA GchkSteps ==
  ASSUME IInv,
         \/ GchkBegins \/ GchkPattern \/ GchkBorder \/ GchkNext \/ GchkStopped
         \/ GchkSprite \/ GchkFinishes
  PROVE  OneAtATime' /\ Drawing' /\ Testing' /\ Undisturbed' /\ GchkInStep'
<1>1. color \in 0 .. Colors /\ waited \in BOOLEAN /\ color \in Int
  BY VdpAssumption DEF IInv, TypeOK
<1>2. Fill(DrawnCell, 1, 1) \in Sent
  BY SentByTasks, Constants
<1>3. UNCHANGED <<color, waited>> => (Clean' => Clean)
  BY DEF Clean
<1>4. CASE GchkBegins
  BY <1>3, <1>4, OthersPaired, SentByTasks, GchkBegun DEF GchkBegins, Steps
<1>5. CASE GchkPattern
  <2>1. waited' = FALSE /\ color' = color /\ Gchk("pattern", "wait", Fill(DrawnCell, 1, 1))
    BY <1>5 DEF GchkPattern
  <2>2. Clean' => Clean
    BY <2>1 DEF Clean
  <2>3. Paired(Fill(DrawnCell, 1, 1)) /\ ~Half(Fill(DrawnCell, 1, 1))
    BY FillsPaired, Constants
  <2>4. QED
    BY <1>2, <2>1, <2>2, <2>3, GchkBegun DEF Steps
<1>6. CASE GchkBorder
  <2>1. /\ waited' = FALSE /\ color' = color /\ at = "border"
        /\ Gchk("border", "wait", RegisterWrite(240 + color, 7))
    BY <1>6 DEF GchkBorder, Gchk
  <2>2. ~Clean'
    BY <1>1, <2>1 DEF Clean, IInv, GchkInStep
  <2>3. QED
    BY <1>1, <2>1, <2>2, SentByTasks, GchkBegun DEF Steps
<1>7. CASE GchkNext
  <2>1. waited /\ waited' = waited /\ (Clean' => Clean)
    BY <1>7 DEF GchkNext, Clean
  <2>2. CASE color = Colors /\ Gchk("wait", "sprite", <<>>)
    BY <2>1, <2>2, OthersPaired, SentByTasks, GchkBegun DEF Steps
  <2>3. CASE /\ color' = color + 1
             /\ Gchk("wait", "border", IF color = 0 THEN BlankGrid ELSE <<>>)
    <3>1. color' > 0
      BY <1>1, <2>3
    <3>2. CASE color = 0
      BY <2>1, <2>3, <3>1, <3>2, OthersPaired, SentByTasks, GchkBegun DEF Steps
    <3>3. CASE color # 0
      BY <2>1, <2>3, <3>1, <3>3, OthersPaired, SentByTasks, GchkBegun DEF Steps
    <3>4. QED
      BY <3>2, <3>3
  <2>4. QED
    BY <1>7, <2>2, <2>3 DEF GchkNext
<1>8. CASE GchkStopped
  BY <1>3, <1>8, OthersPaired, SentByTasks, GchkBegun DEF GchkStopped, Steps
<1>9. CASE GchkSprite
  <2>1. /\ Paired(Fill(SpriteAttr, 4, 100)) /\ ~Half(Fill(SpriteAttr, 4, 100))
        /\ Paired(Fill(SpriteAttr + 1, 1, 0)) /\ ~Half(Fill(SpriteAttr + 1, 1, 0))
    BY FillsPaired, Constants
  <2>2. QED
    BY <1>3, <1>9, <2>1, OthersPaired, SentByTasks, GchkBegun DEF GchkSprite, Steps
<1>10. CASE GchkFinishes
  BY <1>3, <1>10, OthersPaired, SentByTasks, GchkBegun DEF GchkFinishes, Finish, Steps
<1>11. QED
  BY <1>4, <1>5, <1>6, <1>7, <1>8, <1>9, <1>10

----------------------------------------------------------------------------
(* Ticks and beginnings *)

LEMMA NothingSent ==
  ASSUME NEW T \in Seq(Accesses), NEW a, latch = NoByte
  PROVE  Rest(<<>>, T) /\ Aimed(<<>>, a)
BY DEF Rest, Aimed

LEMMA TickKeeps ==
  ASSUME IInv, NEW t \in Tasks, Tick(t)
  PROVE  OneAtATime' /\ Drawing' /\ Testing' /\ Undisturbed' /\ GchkInStep'
<1>1. /\ latch' = NoByte /\ running' = t /\ ~Masked(running)
      /\ UNCHANGED <<regs, mem, addr, todo, saved, at, color, drawn>>
      /\ waited' = (waited \/ (at = "wait" /\ todo["gchk"] = <<>>))
  BY DEF Tick, Acknowledged
<1>2. \A u \in Tasks : todo[u] # <<>> => u = "gchk" /\ at = "wait" /\ color > 0
  BY <1>1 DEF IInv, OneAtATime, Masked
<1>3. OneAtATime'
  BY <1>1, <1>2 DEF OneAtATime
<1>4. mem = drawn
  <2>1. CASE running = "vchk"
    <3>1. todo["vchk"] = <<>>
      BY <1>2 DEF Tasks
    <3>2. PICK cell \in Cells : Tested(Len(todo["vchk"]), cell)
      BY <2>1 DEF IInv, Testing
    <3>3. Len(<<>>) = 0 /\ ~(0 \in 1 .. 6)
      OBVIOUS
    <3>4. QED
      BY <3>1, <3>2, <3>3 DEF Tested
  <2>2. QED
    BY <2>1 DEF IInv, Undisturbed
<1>5. ASSUME t = "indicator" PROVE Drawing'
  <2>1. todo["indicator"] = <<>>
    BY <1>2 DEF Tasks
  <2>2. PICK glyph : glyph \in Byte
    BY DEF Byte
  <2>3. Fill(DrawnCell, 1, glyph) \in Seq(Accesses)
    BY <2>2, FillShape, Constants
  <2>4. Rest(<<>>, Fill(DrawnCell, 1, glyph)) /\ Aimed(<<>>, DrawnCell)'
    BY <1>1, <2>3 DEF Rest, Aimed
  <2>5. Rest(todo["indicator"], Fill(DrawnCell, 1, glyph))' /\ Aimed(todo["indicator"], DrawnCell)'
    BY <1>1, <2>1, <2>4 DEF Aimed
  <2>6. QED
    BY <2>2, <2>5 DEF Drawing
<1>6. ASSUME t = "vchk" PROVE Testing'
  <2>1. todo["vchk"] = <<>>
    BY <1>2 DEF Tasks
  <2>2. DrawnCell \in Cells /\ DrawnCell \in Addresses
    BY VdpAssumption, Constants
  <2>3. TestAt(DrawnCell) \in Seq(Accesses)
    BY <2>2, TestAccesses
  <2>4. Rest(<<>>, TestAt(DrawnCell)) /\ Aimed(<<>>, DrawnCell)' /\ Tested(0, DrawnCell)'
    BY <1>1, <1>4, <2>3 DEF Rest, Aimed, Tested
  <2>5. /\ Rest(todo["vchk"], TestAt(DrawnCell))' /\ Aimed(todo["vchk"], DrawnCell)'
        /\ Tested(Len(todo["vchk"]), DrawnCell)'
    BY <1>1, <2>1, <2>4 DEF Aimed, Tested
  <2>6. QED
    BY <2>2, <2>5 DEF Testing
<1>7. ASSUME t = "gchk", Clean' PROVE InStep("gchk")'
  <2>1. todo["gchk"] = <<>>
    <3>1. waited \/ todo["gchk"] = <<>> \/ color = 0
      BY <1>1, <1>7 DEF Clean
    <3>2. waited /\ at = "wait" => todo["gchk"] = <<>>
      BY DEF IInv, GchkInStep
    <3>3. todo["gchk"] # <<>> => at = "wait" /\ color > 0
      BY <1>2 DEF Tasks
    <3>4. ~(color = 0 /\ color > 0)
      OBVIOUS
    <3>5. QED
      BY <3>1, <3>2, <3>3, <3>4, Zenon
  <2>2. QED
    BY <1>1, <2>1, OthersPaired DEF InStep, Half
<1>8. ASSUME at = "exit"
      PROVE  Rest(todo["gchk"], InitScreen1)' /\ (Clean' => Written(Len(todo["gchk"]))')
  <2>1. todo["gchk"] = <<>> /\ waited' = waited
    BY <1>1, <1>2, <1>8 DEF IInv, TypeOK, Tasks
  <2>2. Clean' => Clean
    BY <1>1, <2>1 DEF Clean
  <2>3. Written(Len(todo["gchk"])) => Written(Len(todo["gchk"]))'
    <3>1. Len(<<>>) = 0
      OBVIOUS
    <3>2. Written(0) => Written(0)'
      BY <1>1 DEF Written
    <3>3. QED
      BY <1>1, <2>1, <3>1, <3>2
  <2>4. Rest(todo["gchk"], InitScreen1)'
    BY <1>1, <1>8 DEF IInv, GchkInStep
  <2>5. QED
    BY <1>8, <2>2, <2>3, <2>4 DEF IInv, GchkInStep
<1>9. waited' /\ at' = "wait" => todo'["gchk"] = <<>>
  BY <1>1 DEF IInv, GchkInStep
<1>10. GchkInStep'
  BY <1>1, <1>7, <1>8, <1>9 DEF GchkInStep, IInv
<1>11. QED
  BY <1>1, <1>3, <1>4, <1>5, <1>6, <1>10 DEF Drawing, Testing, Undisturbed

LEMMA RestOfAll ==
  ASSUME NEW T \in Seq(Accesses)
  PROVE  Rest(T, T)
<1>1. Len(T) \in Nat
  OBVIOUS
<1>2. \A i \in 1 .. Len(T) : Len(T) - Len(T) + i = i
  BY <1>1
<1>3. QED
  BY <1>1, <1>2 DEF Rest

LEMMA DrawKeeps ==
  ASSUME IInv, NEW glyph \in Glyphs, Draw(glyph)
  PROVE  OneAtATime' /\ Drawing' /\ Testing' /\ Undisturbed' /\ GchkInStep'
<1> DEFINE T == Fill(DrawnCell, 1, glyph)
<1>1. TypeOK /\ "indicator" \in Tasks /\ glyph \in Byte
  BY Constants DEF IInv, Tasks
<1>2. T \in Seq(Accesses) /\ Len(T) = 3
  BY <1>1, Constants, FillShape
<1> HIDE DEF T
<1>3. /\ running = "indicator" /\ todo["indicator"] = <<>>
      /\ UNCHANGED <<regs, mem, addr, latch, running, drawn, at, color, waited>>
      /\ Begin("indicator", T)
  BY DEF Draw, Begin, chipVars, gchkVars, T
<1>4. todo'["indicator"] = T /\ \A u \in Tasks \ {"indicator"} : todo'[u] = todo[u]
  BY <1>1, <1>2, <1>3, BeginKeepsTypes
<1>5. latch = NoByte
  BY <1>3 DEF IInv, Drawing, Aimed
<1>6. Rest(todo["indicator"], T)' /\ Aimed(todo["indicator"], DrawnCell)'
  <2>1. Rest(T, T) /\ 3 % 3 = 0
    BY <1>2, RestOfAll
  <2>2. Rest(todo["indicator"], T)'
    BY <1>4, <2>1 DEF T
  <2>3. Len(todo'["indicator"]) % 3 = 0 /\ Len(todo'["indicator"]) = 3 /\ latch' = NoByte
    BY <1>2, <1>3, <1>4, <1>5, <2>1
  <2>4. Aimed(todo["indicator"], DrawnCell)'
    BY <2>3 DEF Aimed
  <2>5. QED
    BY <2>2, <2>4
<1>7. Drawing'
  BY <1>1, <1>6 DEF Drawing, T
<1>8. "gchk" \in Tasks \ {"indicator"} /\ "gchk" # "indicator" /\ "vchk" # "indicator"
  BY DEF Tasks
<1>9. GchkInStep'
  BY <1>3, <1>4, <1>8, GchkRests
<1>10. OneAtATime'
  BY <1>3, <1>4, OthersRest
<1>11. QED
  BY <1>3, <1>7, <1>8, <1>9, <1>10 DEF IInv, Testing, Undisturbed

LEMMA TestKeeps ==
  ASSUME IInv, NEW cell \in Cells, Test(cell)
  PROVE  OneAtATime' /\ Drawing' /\ Testing' /\ Undisturbed' /\ GchkInStep'
<1> DEFINE T == TestAt(cell)
<1>1. TypeOK /\ "vchk" \in Tasks
  BY DEF IInv, Tasks
<1>2. T \in Seq(Accesses) /\ Len(T) = 12
  BY Constants, TestAccesses
<1> HIDE DEF T
<1>3. /\ running = "vchk" /\ todo["vchk"] = <<>>
      /\ UNCHANGED <<regs, mem, addr, latch, running, drawn, at, color, waited>>
      /\ Begin("vchk", T)
  BY DEF Test, Begin, chipVars, gchkVars, T
<1>4. todo'["vchk"] = T /\ \A u \in Tasks \ {"vchk"} : todo'[u] = todo[u]
  BY <1>1, <1>2, <1>3, BeginKeepsTypes
<1>5. PICK before \in Cells : Aimed(<<>>, before) /\ Tested(Len(<<>>), before)
  BY <1>3 DEF IInv, Testing
<1>6. latch = NoByte /\ mem = drawn
  BY <1>5 DEF Aimed, Tested
<1>7. /\ Rest(todo["vchk"], T)' /\ Aimed(todo["vchk"], cell)'
      /\ Tested(Len(todo["vchk"]), cell)'
  <2>1. Rest(T, T) /\ 12 % 3 = 0 /\ ~(12 \in 1 .. 9) /\ ~(12 \in 1 .. 6)
    BY <1>2, RestOfAll
  <2>2. Rest(todo["vchk"], T)'
    BY <1>4, <2>1 DEF T
  <2>3. Len(todo'["vchk"]) % 3 = 0 /\ Len(todo'["vchk"]) = 12 /\ latch' = NoByte /\ mem' = drawn'
    BY <1>2, <1>3, <1>4, <1>6, <2>1
  <2>4. Aimed(todo["vchk"], cell)'
    BY <2>3 DEF Aimed
  <2>5. Tested(Len(todo["vchk"]), cell)'
    BY <2>1, <2>3 DEF Tested
  <2>6. QED
    BY <2>2, <2>4, <2>5
<1>8. Testing'
  BY <1>7 DEF Testing, T
<1>9. "gchk" \in Tasks \ {"vchk"} /\ "gchk" # "vchk" /\ "indicator" # "vchk"
  BY DEF Tasks
<1>10. GchkInStep'
  BY <1>3, <1>4, <1>9, GchkRests
<1>11. OneAtATime'
  BY <1>3, <1>4, OthersRest
<1>12. QED
  BY <1>3, <1>8, <1>9, <1>10, <1>11 DEF Drawing, Undisturbed

LEMMA NothingMoves ==
  ASSUME IInv,
         UNCHANGED <<regs, mem, addr, latch, running, todo, saved, at, color, waited, drawn>>
  PROVE  OneAtATime' /\ Drawing' /\ Testing' /\ Undisturbed' /\ GchkInStep'
<1>1. OneAtATime' /\ Undisturbed'
  BY DEF IInv, OneAtATime, Undisturbed
<1>2. Drawing'
  BY DEF IInv, Drawing, Aimed
<1>3. Testing'
  <2>1. CASE running = "vchk"
    <3>1. PICK cell \in Cells : /\ Rest(todo["vchk"], TestAt(cell))
                                /\ Aimed(todo["vchk"], cell)
                                /\ Tested(Len(todo["vchk"]), cell)
      BY <2>1 DEF IInv, Testing
    <3>2. Aimed(todo["vchk"], cell)'
      BY <3>1 DEF Aimed
    <3>3. Tested(Len(todo["vchk"]), cell)'
      BY <3>1 DEF Tested
    <3>4. Rest(todo["vchk"], TestAt(cell))'
      BY <3>1
    <3>5. QED
      BY <3>2, <3>3, <3>4 DEF Testing
  <2>2. CASE running # "vchk"
    BY <2>2 DEF Testing
  <2>3. QED
    BY <2>1, <2>2
<1>4. GchkInStep'
  BY DEF IInv, GchkInStep, Clean, InStep, Written
<1>5. QED
  BY <1>1, <1>2, <1>3, <1>4

----------------------------------------------------------------------------
(* The theorems *)

LEMMA InitKeeps == Init => IInv
<1> SUFFICES ASSUME Init PROVE IInv
  OBVIOUS
<1>1. TypeOK
  <2>1. regs \in [0 .. 7 -> Byte]
    BY DEF Init, Screen1, Byte
  <2>2. mem \in [Cells -> Byte] /\ drawn \in [Cells -> Byte]
    BY DEF Init, Byte
  <2>3. todo \in [Tasks -> Seq(Accesses)] /\ running \in Tasks
    BY DEF Init, Tasks
  <2>4. addr \in 0 .. MemSize - 1 /\ latch \in Byte \cup {NoByte} /\ saved \in Byte
    <3>1. addr \in 0 .. MemSize - 1
      BY Memory, InRange DEF Init
    <3>2. QED
      BY <3>1 DEF Init, Byte
  <2>5. color \in 0 .. Colors
    BY VdpAssumption DEF Init
  <2>6. QED
    BY <2>1, <2>2, <2>3, <2>4, <2>5 DEF Init, TypeOK
<1>2. running = "gchk" /\ \A t \in Tasks : todo[t] = <<>>
  BY DEF Init
<1>3. OneAtATime /\ Drawing /\ Testing /\ Undisturbed
  BY <1>2 DEF Init, OneAtATime, Drawing, Testing, Undisturbed
<1>4. InStep("gchk")
  <2>1. todo["gchk"] = <<>> /\ latch = NoByte
    BY DEF Init, Tasks
  <2>2. QED
    BY <2>1, OthersPaired DEF InStep
<1>5. GchkInStep
  BY <1>4 DEF Init, GchkInStep
<1>6. QED
  BY <1>1, <1>3, <1>5 DEF IInv

LEMMA NextKeeps == IInv /\ [Next]_vars => IInv'
<1> SUFFICES ASSUME IInv, [Next]_vars PROVE IInv'
  OBVIOUS
<1> DEFINE Kept == OneAtATime' /\ Drawing' /\ Testing' /\ Undisturbed' /\ GchkInStep'
<1>1. TypeOK'
  BY TypesKept DEF IInv
<1>2. ASSUME NEW t \in Tasks, Access(t) PROVE Kept
  BY <1>2, IndicatorAccess, VchkAccess, GchkAccess DEF Tasks
<1>3. ASSUME NEW t \in Tasks, Tick(t) PROVE Kept
  BY <1>3, TickKeeps
<1>4. ASSUME NEW glyph \in Glyphs, Draw(glyph) PROVE Kept
  BY <1>4, DrawKeeps
<1>5. ASSUME NEW cell \in Cells, Test(cell) PROVE Kept
  BY <1>5, TestKeeps
<1>6. ASSUME \/ GchkBegins \/ GchkPattern \/ GchkBorder \/ GchkNext \/ GchkStopped
             \/ GchkSprite \/ GchkFinishes
      PROVE  Kept
  BY <1>6, GchkSteps
<1>7. ASSUME RequestStop PROVE Kept
  BY <1>7, NothingMoves DEF RequestStop, chipVars, gchkVars
<1>8. ASSUME UNCHANGED vars PROVE Kept
  BY <1>8, NothingMoves DEF vars, chipVars, gchkVars
<1>9. Kept
  BY <1>2, <1>3, <1>4, <1>5, <1>6, <1>7, <1>8 DEF Next
<1>10. QED
  BY <1>1, <1>9 DEF IInv

\* What the tasks still have to send and what the chip has been told agree,
\* and the memory is what it would be without vchk but for the byte it
\* tests (vdp.c:9-41, main_vchk.c:150-164, main_gchk.c:82-95).
THEOREM VdpInvariance == Spec => []IInv
<1>1. Init => IInv
  BY InitKeeps
<1>2. IInv /\ [Next]_vars => IInv'
  BY NextKeeps
<1>3. QED
  BY <1>1, <1>2, PTL DEF Spec

LEMMA NextOf ==
  ASSUME NEW s \in Seq(Accesses), s # <<>>, NEW T \in Seq(Accesses), Rest(s, T)
  PROVE  \E left \in 1 .. Len(T) : Len(s) = left /\ Head(s) = T[Len(T) + 1 - left]
<1> DEFINE m == Len(s)
           n == Len(T)
           head == Head(s)
<1>1. m \in Nat \ {0} /\ n \in Nat /\ m <= n /\ head = T[n - m + 1]
  BY TailOf, RestOfTail DEF Rest
<1>2. m = Len(s) /\ head = Head(s) /\ n = Len(T)
  OBVIOUS
<1> HIDE DEF m, n, head
<1>3. m \in 1 .. n /\ n - m + 1 = n + 1 - m
  BY <1>1
<1>4. QED
  BY <1>1, <1>2, <1>3

\* Whatever ticks come in between, the indicator and vchk read and write at
\* the address they set (activity_indicator.c:56-65, main_vchk.c:150-164).
THEOREM DataLands == Spec => []DataLandsRight
<1>1. IInv => DataLandsRight
  <2> SUFFICES ASSUME IInv, running # "gchk", todo[running] # <<>>,
                      Head(todo[running]).op # "control"
               PROVE  latch = NoByte /\ addr = Head(todo[running]).to
    BY DEF DataLandsRight
  <2>1. running \in {"indicator", "vchk"} /\ todo[running] \in Seq(Accesses)
    BY DEF IInv, TypeOK, Tasks
  <2> DEFINE s == todo[running]
             head == Head(s)
  <2>2. CASE running = "indicator"
    <3>1. PICK glyph \in Byte : Rest(s, Fill(DrawnCell, 1, glyph)) /\ Aimed(s, DrawnCell)
      BY <2>2 DEF IInv, Drawing
    <3> DEFINE T == Fill(DrawnCell, 1, glyph)
    <3>2. T \in Seq(Accesses) /\ Len(T) = 3 /\ T[3] = Data(glyph, DrawnCell, 1)
      BY FillAccesses, Constants
    <3>3. T[1].op = "control" /\ T[2].op = "control"
      BY FillShape, Constants
    <3>4. Rest(s, T)
      BY <3>1
    <3> HIDE DEF T
    <3>5. PICK left \in 1 .. 3 : Len(s) = left /\ head = T[4 - left]
      <4>1. \E left \in 1 .. Len(T) : Len(s) = left /\ head = T[Len(T) + 1 - left]
        BY <2>1, <3>2, <3>4, NextOf
      <4> HIDE DEF s, head
      <4>2. QED
        BY <3>2, <4>1
    <3>6. left = 1
      <4>1. head.op # "control"
        OBVIOUS
      <4> HIDE DEF head
      <4>2. QED
        BY <3>3, <3>5, <4>1
    <3>7. latch = NoByte /\ addr = DrawnCell
      BY <3>1, <3>5, <3>6 DEF Aimed
    <3>8. head.to = DrawnCell
      BY <3>2, <3>5, <3>6 DEF Data
    <3>9. QED
      BY <3>7, <3>8
  <2>3. CASE running = "vchk"
    <3>1. PICK cell \in Cells : Rest(s, TestAt(cell)) /\ Aimed(s, cell)
      BY <2>3 DEF IInv, Testing
    <3> DEFINE T == TestAt(cell)
    <3>2. /\ T \in Seq(Accesses) /\ Len(T) = 12
          /\ \A i \in {1, 4, 7, 10} : T[i] = Control(cell % 256)
          /\ \A i \in {2, 8} : T[i] = Control((cell \div 256) % 64)
          /\ \A i \in {5, 11} : T[i] = Control(64 + ((cell \div 256) % 64))
          /\ T[3] = Save(cell) /\ T[6] = Data(TestByte, cell, 1)
          /\ T[9] = ReadData(cell) /\ T[12] = Restore(cell)
      BY Constants, TestAccesses
    <3>3. Rest(s, T)
      BY <3>1
    <3> HIDE DEF T
    <3>4. PICK left \in 1 .. 12 : Len(s) = left /\ head = T[13 - left]
      <4>1. \E left \in 1 .. Len(T) : Len(s) = left /\ head = T[Len(T) + 1 - left]
        BY <2>1, <3>2, <3>3, NextOf
      <4>2. Len(T) = 12
        BY <3>2
      <4> HIDE DEF s, head
      <4>3. QED
        BY <4>1, <4>2
    <3>5. \A i \in {1, 2, 4, 5, 7, 8, 10, 11} : T[i].op = "control"
      BY <3>2 DEF Control
    <3>6. \A i \in {3, 6, 9, 12} : T[i].to = cell
      BY <3>2 DEF Save, Data, ReadData, Restore
    <3>7. left \in {10, 7, 4, 1}
      <4>1. head.op # "control"
        OBVIOUS
      <4> HIDE DEF head
      <4>2. 13 - left \notin {1, 2, 4, 5, 7, 8, 10, 11}
        BY <3>4, <3>5, <4>1
      <4>3. QED
        BY <4>2
    <3>8. left % 3 = 1 /\ 13 - left \in {3, 6, 9, 12}
      BY <3>7
    <3>9. latch = NoByte /\ addr = cell
      BY <3>1, <3>4, <3>8 DEF Aimed
    <3>10. head.to = cell
      BY <3>4, <3>6, <3>8
    <3>11. QED
      BY <3>9, <3>10
  <2>4. QED
    BY <2>1, <2>2, <2>3
<1>2. QED
  BY <1>1, VdpInvariance, PTL

\* Between two of its tests vchk has put back every byte it changed, and
\* no drawing of another task is lost (main_vchk.c:150-164).
THEOREM TestsAreTransparent == Spec => []VchkIsTransparent
<1>1. IInv => VchkIsTransparent
  <2> SUFFICES ASSUME IInv, todo["vchk"] = <<>> PROVE mem = drawn
    BY DEF VchkIsTransparent
  <2>1. CASE running = "vchk"
    <3>1. PICK cell \in Cells : Tested(Len(todo["vchk"]), cell)
      BY <2>1 DEF IInv, Testing
    <3>2. Len(<<>>) = 0 /\ ~(0 \in 1 .. 6)
      OBVIOUS
    <3>3. QED
      BY <3>1, <3>2 DEF Tested
  <2>2. CASE running # "vchk"
    BY <2>2 DEF IInv, Undisturbed
  <2>3. QED
    BY <2>1, <2>2
<1>2. QED
  BY <1>1, VdpInvariance, PTL

\* A gchk that was not switched out between the bytes of its last border
\* color leaves the registers of screen 1 (main_gchk.c:82-95).
THEOREM WaitedRunsRestore == Spec => []WaitedRunRestores
<1>1. IInv => WaitedRunRestores
  <2> SUFFICES ASSUME IInv, GchkGone, waited \/ color = 0 PROVE Restored
    BY DEF WaitedRunRestores
  <2>1. Written(Len(<<>>)) /\ Len(<<>>) = 0
    BY DEF IInv, GchkInStep, GchkGone, Clean
  <2>2. \A r \in 0 .. 7 : 2 * (r + 1) <= 31 - 0
    OBVIOUS
  <2>3. QED
    BY <2>1, <2>2 DEF Written, Restored
<1>2. QED
  BY <1>1, VdpInvariance, PTL

----------------------------------------------------------------------------
(* The line editor. *)

\* The row before the line.
Before == IF pending_prompt THEN <<>> ELSE <<"prompt">>

\* The writes of a line, character by character.
Echo(l) == [i \in 1 .. Len(l) |-> Text(<<l[i]>>)]

\* The last writes of a command line and of a listing.
Redraw(l) == IF l = <<>> THEN <<Newline, Prompt>> ELSE <<Newline, Prompt, Text(l)>>

\* The row, if it is as it should be.
RowIs(shown) == row # Spoilt => row = shown

Echoing ==
  /\ Rest(out, Echo(line))
  /\ RowIs(Before \o SubSeq(line, 1, Len(line) - Len(out)))

Erasing ==
  /\ Len(out) = 1 /\ out[1] = Erase
  /\ row # Spoilt => row # <<>> /\ Front(row) = Before \o line

Redrawing ==
  \/ Rest(Redraw(line), out)
  \/ /\ Rest(out, Redraw(line)) /\ Len(out) = Len(Redraw(line)) - 1
     /\ RowIs(<<>>)
  \/ /\ Rest(out, Redraw(line)) /\ Len(out) = Len(Redraw(line)) - 2
     /\ RowIs(Before)

Unstarted ==
  /\ ~started => line = <<>> /\ out = <<>> /\ ~pending_prompt /\ burst = Idle
  /\ burst = Idle => out = <<>>

EditInv == XshTypeOK /\ Unstarted /\ (started => Echoing \/ Erasing \/ Redrawing)

\* What a line and a row are made of.
Letters == Chars \cup {Blank}
Shapes  == Letters \cup {"...", "prompt", "?"}

\* Word begins text.
Begins(word, text) ==
  Len(word) <= Len(text) /\ \A i \in 1 .. Len(word) : word[i] = text[i]

\* The first elements of a sequence.
LEMMA Initial ==
  ASSUME NEW S, NEW t \in Seq(S), NEW m \in Nat, m <= Len(t)
  PROVE  /\ SubSeq(t, 1, m) \in Seq(S) /\ Len(SubSeq(t, 1, m)) = m
         /\ \A i \in 1 .. m : SubSeq(t, 1, m)[i] = t[i]
OBVIOUS

LEMMA PrefixBegins ==
  ASSUME NEW S, NEW s \in Seq(S), NEW t \in Seq(S)
  PROVE  IsPrefix(s, t) <=> Begins(s, t)
<1> DEFINE m == Len(s)
           b == SubSeq(t, 1, m)
<1>1. m \in Nat /\ SubSeq(s, 1, m) = s
  BY SubSeqFull
<1>2. CASE m <= Len(t)
  <2>1. b \in Seq(S) /\ Len(b) = m /\ \A i \in 1 .. m : b[i] = t[i]
    BY <1>1, <1>2, Initial
  <2> HIDE DEF b
  <2>2. s = b <=> \A i \in 1 .. m : s[i] = b[i]
    BY <2>1, SeqEqual
  <2>3. QED
    BY <1>1, <1>2, <2>1, <2>2 DEF IsPrefix, Begins, b
<1>3. CASE ~(m <= Len(t))
  BY <1>3 DEF IsPrefix, Begins
<1>4. QED
  BY <1>2, <1>3

\* A nonempty set of numbers has a least one.
LEMMA Least ==
  ASSUME NEW T, T \subseteq Nat, T # {}
  PROVE  \E x \in T : \A y \in T : x <= y
<1>1. ASSUME NEW R, IsWellFoundedOn(R, Nat), \A x, y \in Nat : <<y, x>> \in R <=> y < x
      PROVE  \E x \in T : \A y \in T : x <= y
  <2>1. PICK least \in T : \A y \in T : ~(<<y, least>> \in R)
    BY <1>1, WFMin
  <2>2. ASSUME NEW y \in T PROVE least <= y
    <3>1. y \in Nat /\ least \in Nat /\ ~(<<y, least>> \in R)
      BY <2>1
    <3>2. ~(y < least)
      BY <1>1, <3>1, Zenon
    <3>3. QED
      BY <3>1, <3>2
  <2>3. QED
    BY <2>2
<1>2. \A x, y \in Nat : <<y, x>> \in OpToRel(<, Nat) <=> y < x
  BY DEF OpToRel
<1>3. QED
  BY <1>1, <1>2, NatLessThanWellFounded, Zenon

\* Of the prefixes all the words have in common there is a longest, which
\* any prefix they have in common begins.
LEMMA LongestBegins ==
  ASSUME NEW C, NEW words \in SUBSET Seq(C), words # {}, NEW S, C \subseteq S,
         NEW s \in Seq(S), \A word \in words : IsPrefix(s, word)
  PROVE  LongestCommonPrefix(words) \in Seq(S) /\ Begins(s, LongestCommonPrefix(words))
<1> DEFINE P == CommonPrefixes(words)
           longest == LongestCommonPrefix(words)
<1>1. PICK word \in words : TRUE
  OBVIOUS
<1>2. word \in Seq(C) /\ word \in Seq(S) /\ Len(word) \in Nat
  BY SeqMonotonic
<1>3. ASSUME NEW p \in P
      PROVE  p \in Seq(S) /\ Len(p) \in Nat /\ IsPrefix(p, word)
  <2>1. PICK other \in words : \E l \in 0 .. Len(other) : p = SubSeq(other, 1, l)
    BY DEF CommonPrefixes, Prefixes
  <2>2. other \in Seq(C) /\ Len(other) \in Nat
    OBVIOUS
  <2>3. p \in Seq(C)
    BY <2>1, <2>2, Initial
  <2>4. p \in Seq(S) /\ Len(p) \in Nat
    BY <2>3, SeqMonotonic
  <2>5. IsPrefix(p, word)
    BY DEF CommonPrefixes
  <2>6. QED
    BY <2>4, <2>5
<1>4. s \in P
  <2>1. Len(s) \in 0 .. Len(word) /\ SubSeq(s, 1, Len(s)) = SubSeq(word, 1, Len(s))
    BY <1>2 DEF IsPrefix
  <2>2. s = SubSeq(word, 1, Len(s))
    BY <2>1, SubSeqFull
  <2>3. s \in Prefixes(word)
    BY <2>1, <2>2, ZenonT(30) DEF Prefixes
  <2>4. QED
    BY <2>3 DEF CommonPrefixes
<1>5. \E p \in P : \A other \in P : Len(other) <= Len(p)
  <2> DEFINE T == {Len(word) - Len(p) : p \in P}
  <2>1. \A p \in P : Len(p) \in Nat /\ Len(p) <= Len(word)
    BY <1>3 DEF IsPrefix
  <2>2. T \subseteq Nat /\ T # {}
    BY <1>2, <1>4, <2>1
  <2>3. PICK x \in T : \A y \in T : x <= y
    BY <2>2, Least
  <2>4. PICK p \in P : x = Len(word) - Len(p)
    OBVIOUS
  <2>5. ASSUME NEW other \in P PROVE Len(other) <= Len(p)
    <3>1. Len(word) - Len(p) <= Len(word) - Len(other)
      BY <2>3, <2>4
    <3>2. QED
      BY <1>2, <2>1, <3>1
  <2>6. QED
    BY <2>5
<1>6. longest \in P /\ \A other \in P : Len(other) <= Len(longest)
  BY <1>5 DEF LongestCommonPrefix
<1> HIDE DEF P, longest
<1>7. Len(s) <= Len(longest) /\ longest \in Seq(S) /\ IsPrefix(longest, word) /\ IsPrefix(s, word)
  BY <1>3, <1>4, <1>6
<1>8. Begins(longest, word) /\ Begins(s, word)
  BY <1>2, <1>7, PrefixBegins
<1>9. Begins(s, longest)
  BY <1>7, <1>8 DEF Begins
<1>10. QED
  BY <1>7, <1>9 DEF longest

----------------------------------------------------------------------------
(* Writes *)

LEMMA WritesIn ==
  /\ \A l \in Seq(Letters) : Text(l) \in Writes
  /\ \A c \in Letters : Text(<<c>>) \in Writes
  /\ Newline \in Writes /\ Erase \in Writes /\ Prompt \in Writes
  /\ Answer \in Seq(Writes) /\ Len(Answer) = 2 /\ Answer[2] = Newline
<1> DEFINE S == Letters \cup {"...", "prompt"}
<1>1. Writes = [op : {"text", "newline", "erase", "prompt"}, shown : Seq(S)]
  BY ZenonT(30) DEF Writes, Letters, Blank
<1>2. ASSUME NEW l \in Seq(Letters) PROVE l \in Seq(S)
  BY SeqMonotonic
<1>3. <<"...">> \in Seq(S) /\ <<"prompt">> \in Seq(S) /\ <<>> \in Seq(S)
  OBVIOUS
<1>4. \A c \in Letters : <<c>> \in Seq(S)
  OBVIOUS
<1> HIDE DEF S
<1>5. \A l \in Seq(S) : Text(l) \in Writes
  BY <1>1 DEF Text
<1>6. Newline \in Writes /\ Erase \in Writes /\ Prompt \in Writes
  BY <1>1, <1>3 DEF Newline, Erase, Prompt
<1>7. Text(<<"...">>) \in Writes
  BY <1>3, <1>5
<1>8. Answer \in Seq(Writes) /\ Len(Answer) = 2 /\ Answer[2] = Newline
  BY <1>6, <1>7 DEF Answer
<1>9. QED
  BY <1>2, <1>4, <1>5, <1>6, <1>8

LEMMA EchoShape ==
  ASSUME NEW l \in Seq(Letters)
  PROVE  /\ Echo(l) \in Seq(Writes) /\ Len(Echo(l)) = Len(l)
         /\ \A i \in 1 .. Len(l) : Echo(l)[i] = Text(<<l[i]>>)
<1>1. ASSUME NEW i \in 1 .. Len(l) PROVE Text(<<l[i]>>) \in Writes
  <2>1. l[i] \in Letters
    OBVIOUS
  <2>2. QED
    BY <2>1, WritesIn
<1>2. Len(l) \in Nat
  OBVIOUS
<1>3. QED
  BY <1>1, <1>2 DEF Echo

LEMMA RedrawShape ==
  ASSUME NEW l \in Seq(Letters)
  PROVE  /\ Redraw(l) \in Seq(Writes)
         /\ l = <<>> => Len(Redraw(l)) = 2
         /\ l # <<>> => Len(Redraw(l)) = 3 /\ Redraw(l)[3] = Text(l)
         /\ Redraw(l)[1] = Newline /\ Redraw(l)[2] = Prompt
<1>1. Text(l) \in Writes /\ Newline \in Writes /\ Prompt \in Writes
  BY WritesIn
<1>2. QED
  BY <1>1 DEF Redraw

LEMMA Ops ==
  /\ \A l : Text(l).op = "text" /\ Text(l).shown = l
  /\ Newline.op = "newline" /\ Erase.op = "erase"
  /\ Prompt.op = "prompt" /\ Prompt.shown = <<"prompt">>
BY DEF Text, Newline, Erase, Prompt

\* One more write.
LEMMA OneMore ==
  ASSUME NEW S, NEW s \in Seq(S), NEW e \in S
  PROVE  /\ s \o <<e>> \in Seq(S) /\ Len(s \o <<e>>) = Len(s) + 1
         /\ \A i \in 1 .. Len(s) : (s \o <<e>>)[i] = s[i]
         /\ (s \o <<e>>)[Len(s) + 1] = e
<1> DEFINE t == <<e>>
           u == s \o t
<1>1. t \in Seq(S) /\ Len(t) = 1 /\ t[1] = e /\ Len(s) \in Nat
  OBVIOUS
<1> HIDE DEF t
<1>2. /\ u \in Seq(S) /\ Len(u) = Len(s) + Len(t)
      /\ \A i \in 1 .. Len(s) + Len(t) : u[i] = IF i <= Len(s) THEN s[i] ELSE t[i - Len(s)]
  BY <1>1, ConcatProperties, Zenon
<1> HIDE DEF u
<1>3. QED
  BY <1>1, <1>2 DEF u, t

LEMMA FittingShape ==
  ASSUME NEW l \in Seq(Letters), NEW s \in Seq(Letters),
         Begins(s, l), Len(s) < LineMax
  PROVE  Fitting(l) \in Seq(Letters) /\ Len(Fitting(l)) < LineMax /\ Begins(s, Fitting(l))
<1>1. Len(l) \in Nat /\ LineMax \in Nat \ {0} /\ Len(s) \in Nat
  BY XshAssumption
<1>2. CASE Len(l) < LineMax
  BY <1>2 DEF Fitting
<1>3. CASE ~(Len(l) < LineMax)
  <2> DEFINE f == SubSeq(l, 1, LineMax - 1)
  <2>1. LineMax - 1 \in Nat /\ LineMax - 1 <= Len(l) /\ Len(s) <= LineMax - 1
    BY <1>1, <1>3
  <2>2. f \in Seq(Letters) /\ Len(f) = LineMax - 1 /\ \A i \in 1 .. LineMax - 1 : f[i] = l[i]
    BY <2>1, Initial
  <2> HIDE DEF f
  <2>3. Begins(s, f)
    BY <1>1, <2>1, <2>2 DEF Begins
  <2>4. QED
    BY <1>1, <1>3, <2>2, <2>3 DEF Fitting, f
<1>4. QED
  BY <1>2, <1>3

LEMMA WholeBegins ==
  ASSUME NEW S, NEW s \in Seq(S), NEW t \in Seq(S), Begins(s, t)
  PROVE  SubSeq(t, 1, Len(s)) = s
<1> DEFINE b == SubSeq(t, 1, Len(s))
<1>1. Len(s) \in Nat /\ Len(s) <= Len(t)
  BY DEF Begins
<1>2. b \in Seq(S) /\ Len(b) = Len(s) /\ \A i \in 1 .. Len(s) : b[i] = t[i]
  BY <1>1, Initial
<1> HIDE DEF b
<1>3. \A i \in 1 .. Len(b) : b[i] = s[i]
  BY <1>2 DEF Begins
<1>4. b = s
  BY <1>2, <1>3, SeqEqual
<1>5. QED
  BY <1>4 DEF b

----------------------------------------------------------------------------
(* The characters *)

LEMMA BeforeType == Before \in Seq(Shapes)
<1>1. "prompt" \in Shapes
  BY DEF Shapes
<1>2. <<"prompt">> \in Seq(Shapes) /\ <<>> \in Seq(Shapes)
  BY <1>1
<1>3. QED
  BY <1>2 DEF Before

LEMMA LineType == XshTypeOK => line \in Seq(Letters) /\ line \in Seq(Shapes) /\ row \in Seq(Shapes)
<1> SUFFICES ASSUME XshTypeOK
             PROVE  line \in Seq(Letters) /\ line \in Seq(Shapes) /\ row \in Seq(Shapes)
  OBVIOUS
<1>1. line \in Seq(Letters) /\ row \in Seq(Shapes)
  <2>1. Shapes = Chars \cup {Blank, "...", "prompt", "?"}
    BY DEF Shapes, Letters
  <2>2. QED
    BY <2>1 DEF XshTypeOK, Letters
<1>2. Letters \subseteq Shapes
  BY DEF Shapes
<1>3. QED
  BY <1>1, <1>2, SeqMonotonic

\* With nothing to be written, the row is what comes before the line, and
\* the line.
LEMMA Settled ==
  ASSUME EditInv, started, out = <<>>
  PROVE  RowIs(Before \o line)
<1>1. line \in Seq(Letters) /\ Before \in Seq(Shapes) /\ line \in Seq(Shapes)
  BY LineType, BeforeType DEF EditInv
<1>2. Len(out) = 0 /\ ~Erasing
  BY DEF Erasing
<1>3. CASE Echoing
  <2>1. Len(line) - 0 = Len(line) /\ SubSeq(line, 1, Len(line)) = line
    BY <1>1, SubSeqFull
  <2>2. SubSeq(line, 1, Len(line) - Len(out)) = line
    BY <1>2, <2>1
  <2>3. QED
    BY <1>3, <2>2 DEF Echoing
<1>4. CASE Redrawing
  <2>1. Len(Redraw(line)) \in {2, 3} /\ (line # <<>> => Len(Redraw(line)) = 3)
    BY <1>1, RedrawShape
  <2>2. ~Rest(Redraw(line), out) /\ Len(out) # Len(Redraw(line)) - 1
    BY <1>2, <2>1 DEF Rest
  <2>3. Len(out) = Len(Redraw(line)) - 2 /\ RowIs(Before)
    BY <1>4, <2>2 DEF Redrawing
  <2>4. line = <<>>
    BY <1>2, <2>1, <2>3, SMTT(30)
  <2>5. Before \o line = Before
    BY <1>1, <2>4, ConcatEmptySeq
  <2>6. QED
    BY <2>3, <2>5
<1>5. QED
  BY <1>2, <1>3, <1>4 DEF EditInv

LEMMA SettledEchoes ==
  ASSUME line' \in Seq(Letters), out' = <<>>, RowIs(Before \o line)'
  PROVE  Echoing' /\ out' \in Seq(Writes)
<1>1. Len(out') = 0 /\ out' \in Seq(Writes)
  OBVIOUS
<1>2. SubSeq(line', 1, Len(line') - Len(out')) = line'
  <2>1. Len(line') - 0 = Len(line') /\ SubSeq(line', 1, Len(line')) = line'
    BY SubSeqFull
  <2>2. QED
    BY <1>1, <2>1
<1>3. Rest(out, Echo(line))'
  <2>1. Len(Echo(line')) \in Nat
    BY EchoShape
  <2>2. Rest(out', Echo(line'))
    BY <1>1, <2>1 DEF Rest
  <2>3. QED
    BY <2>2 DEF Echo
<1>4. RowIs(Before \o SubSeq(line, 1, Len(line) - Len(out)))'
  BY <1>2 DEF RowIs
<1>5. QED
  BY <1>1, <1>3, <1>4 DEF Echoing

LEMMA NothingToEcho ==
  ASSUME XshTypeOK, out = <<>>, RowIs(Before \o line), UNCHANGED <<line, out, row, pending_prompt>>
  PROVE  Echoing' /\ line' \in Seq(Letters) /\ Len(line') < LineMax /\ out' \in Seq(Writes)
<1>1. line' \in Seq(Letters) /\ Len(line') < LineMax /\ out' = <<>>
  BY LineType DEF XshTypeOK
<1>2. RowIs(Before \o line)'
  BY DEF RowIs, Before
<1>3. QED
  BY <1>1, <1>2, SettledEchoes

LEMMA ExtendEchoes ==
  ASSUME XshTypeOK, out = <<>>, RowIs(Before \o line),
         NEW longer \in Seq(Letters),
         Begins(line, longer), Extend(longer), UNCHANGED <<row, pending_prompt>>
  PROVE  Echoing' /\ line' \in Seq(Letters) /\ Len(line') < LineMax /\ out' \in Seq(Writes)
<1> DEFINE new == Fitting(longer)
           k == Len(new) - Len(line)
<1>1. line \in Seq(Letters) /\ Len(line) < LineMax
  BY LineType DEF XshTypeOK
<1>2. new \in Seq(Letters) /\ Len(new) < LineMax /\ Begins(line, new)
  BY <1>1, FittingShape
<1>3. line' = new /\ out' = [i \in 1 .. k |-> Text(<<new[Len(line) + i]>>)]
  BY DEF Extend
<1> HIDE DEF new
<1>4. Len(line) \in Nat /\ Len(new) \in Nat /\ Len(line) <= Len(new)
  BY <1>1, <1>2 DEF Begins
<1>5. k \in Nat /\ Len(new) - k = Len(line) /\ k <= Len(new)
  BY <1>4
<1> HIDE DEF k
<1>6. ASSUME NEW i \in 1 .. k
      PROVE  Len(line) + i \in 1 .. Len(new) /\ Text(<<new[Len(line) + i]>>) \in Writes
  <2>1. Len(line) + i \in 1 .. Len(new)
    BY <1>4, <1>5
  <2>2. new[Len(line) + i] \in Letters
    BY <1>2, <2>1
  <2>3. QED
    BY <2>1, <2>2, WritesIn
<1>7. out' \in Seq(Writes) /\ Len(out') = k
  <2>1. out' \in [1 .. k -> Writes]
    BY <1>3, <1>6
  <2>2. QED
    BY <1>5, <2>1
<1>8. /\ Len(Echo(new)) = Len(new)
      /\ \A i \in 1 .. Len(new) : Echo(new)[i] = Text(<<new[i]>>)
  BY <1>2, EchoShape
<1>9. ASSUME NEW i \in 1 .. k PROVE out'[i] = Echo(new)[Len(Echo(new)) - k + i]
  <2>1. Len(Echo(new)) - k + i = Len(line) + i
    BY <1>5, <1>8
  <2>2. QED
    BY <1>3, <1>6, <1>8, <2>1
<1>10. Rest(out', Echo(new))
  BY <1>5, <1>7, <1>8, <1>9 DEF Rest
<1>11. SubSeq(new, 1, Len(new) - Len(out')) = line
  BY <1>1, <1>2, <1>5, <1>7, WholeBegins
<1>12. RowIs(Before \o SubSeq(line, 1, Len(line) - Len(out)))'
  BY <1>3, <1>11 DEF RowIs, Before
<1>13. Rest(out, Echo(line))'
  BY <1>3, <1>10 DEF Echo
<1>14. QED
  BY <1>2, <1>3, <1>7, <1>12, <1>13 DEF Echoing

LEMMA FrontOfConcat ==
  ASSUME NEW S, NEW s \in Seq(S), NEW t \in Seq(S), t # <<>>
  PROVE  /\ s \o t # <<>> /\ Front(s \o t) = s \o Front(t)
         /\ Front(t) \in Seq(S) /\ Len(Front(t)) = Len(t) - 1
<1> DEFINE u == s \o t
           f == Front(t)
           g == Front(u)
           v == s \o f
<1>1. Len(s) \in Nat /\ Len(t) \in Nat \ {0}
  OBVIOUS
<1>2. /\ u \in Seq(S) /\ Len(u) = Len(s) + Len(t)
      /\ \A i \in 1 .. Len(s) + Len(t) : u[i] = IF i <= Len(s) THEN s[i] ELSE t[i - Len(s)]
  BY ConcatProperties, Zenon
<1> HIDE DEF u
<1>3. f \in Seq(S) /\ Len(f) = Len(t) - 1 /\ \A i \in 1 .. Len(t) - 1 : f[i] = t[i]
  <2>1. Len(t) - 1 \in Nat /\ Len(t) - 1 <= Len(t)
    BY <1>1
  <2>2. QED
    BY <2>1, Initial DEF Front
<1>4. g \in Seq(S) /\ Len(g) = Len(u) - 1 /\ \A i \in 1 .. Len(u) - 1 : g[i] = u[i]
  <2>1. Len(u) - 1 \in Nat /\ Len(u) - 1 <= Len(u)
    BY <1>1, <1>2
  <2>2. QED
    BY <1>2, <2>1, Initial DEF Front
<1> HIDE DEF f, g
<1>5. /\ v \in Seq(S) /\ Len(v) = Len(s) + Len(f)
      /\ \A i \in 1 .. Len(s) + Len(f) : v[i] = IF i <= Len(s) THEN s[i] ELSE f[i - Len(s)]
  BY <1>3, ConcatProperties, Zenon
<1> HIDE DEF v
<1>6. Len(g) = Len(v)
  BY <1>1, <1>2, <1>3, <1>4, <1>5
<1>7. ASSUME NEW i \in 1 .. Len(g) PROVE g[i] = v[i]
  <2>1. CASE i <= Len(s)
    <3>1. i \in 1 .. Len(u) - 1 /\ i \in 1 .. Len(s) + Len(t) /\ i \in 1 .. Len(s) + Len(f)
      BY <1>1, <1>2, <1>3, <1>4
    <3>2. g[i] = u[i] /\ u[i] = s[i]
      BY <1>2, <1>4, <2>1, <3>1
    <3>3. v[i] = s[i]
      BY <1>5, <2>1, <3>1
    <3>4. QED
      BY <3>2, <3>3
  <2>2. CASE ~(i <= Len(s))
    <3>1. i - Len(s) \in 1 .. Len(t) - 1
      BY <1>1, <1>2, <1>4, <2>2
    <3>2. g[i] = t[i - Len(s)]
      <4>1. i \in 1 .. Len(u) - 1 /\ i \in 1 .. Len(s) + Len(t)
        BY <1>1, <1>2, <1>4
      <4>2. g[i] = u[i]
        BY <1>4, <4>1
      <4>3. u[i] = t[i - Len(s)]
        BY <1>2, <2>2, <4>1
      <4>4. QED
        BY <4>2, <4>3
    <3>3. f[i - Len(s)] = t[i - Len(s)]
      BY <1>3, <3>1
    <3>4. v[i] = f[i - Len(s)]
      BY <1>1, <1>4, <1>5, <1>6, <2>2
    <3>5. QED
      BY <3>2, <3>3, <3>4
  <2>3. QED
    BY <2>1, <2>2
<1>8. g = v
  BY <1>4, <1>5, <1>6, <1>7, SeqEqual
<1>9. u # <<>>
  BY <1>1, <1>2
<1>10. QED
  BY <1>3, <1>8, <1>9 DEF u, f, g, v

LEMMA BackspaceErases ==
  ASSUME XshTypeOK, out = <<>>, RowIs(Before \o line),
         Backspace, UNCHANGED <<row, pending_prompt>>
  PROVE  /\ Echoing' \/ Erasing'
         /\ line' \in Seq(Letters) /\ Len(line') < LineMax /\ out' \in Seq(Writes)
<1>1. /\ line \in Seq(Letters) /\ line \in Seq(Shapes) /\ Len(line) < LineMax
      /\ Before \in Seq(Shapes)
  BY LineType, BeforeType DEF XshTypeOK
<1>2. CASE line = <<>>
  BY <1>2, NothingToEcho DEF Backspace
<1>3. CASE line # <<>>
  <2>1. line' = Front(line) /\ out' = <<Erase>>
    BY <1>3 DEF Backspace
  <2>2. /\ Before \o line # <<>> /\ Front(Before \o line) = Before \o Front(line)
    BY <1>1, <1>3, FrontOfConcat
  <2>3. Front(line) \in Seq(Letters) /\ Len(Front(line)) = Len(line) - 1
    BY <1>1, <1>3, FrontOfConcat
  <2>4. Len(line) \in Nat /\ LineMax \in Nat
    BY <1>1, XshAssumption
  <2>5. Erase \in Writes
    BY WritesIn
  <2>6. out' \in Seq(Writes) /\ Len(out') = 1 /\ out'[1] = Erase
    BY <2>1, <2>5
  <2>7. row' # Spoilt => row' # <<>> /\ Front(row') = Before' \o line'
    BY <2>1, <2>2 DEF RowIs, Before
  <2>8. Erasing'
    BY <2>6, <2>7 DEF Erasing
  <2>9. Len(line') < LineMax
    BY <1>1, <2>1, <2>3, <2>4
  <2>10. QED
    BY <2>1, <2>3, <2>6, <2>8, <2>9
<1>4. QED
  BY <1>2, <1>3

\* What ends in the writes of a new prompt and the line.
LEMMA EndsInRedraw ==
  ASSUME NEW l \in Seq(Letters), NEW before \in Seq(Writes), before # <<>>,
         before[Len(before)] = Newline
  PROVE  LET all == IF l = <<>> THEN before \o <<Prompt>>
                                ELSE (before \o <<Prompt>>) \o <<Text(l)>>
         IN  all \in Seq(Writes) /\ Rest(Redraw(l), all)
<1> DEFINE b == before \o <<Prompt>>
           c == b \o <<Text(l)>>
           R == Redraw(l)
           m == Len(before)
<1>1. Prompt \in Writes /\ Text(l) \in Writes
  BY WritesIn
<1>2. Len(before) \in Nat \ {0}
  OBVIOUS
<1>3. /\ b \in Seq(Writes) /\ Len(b) = Len(before) + 1
      /\ \A i \in 1 .. Len(before) : b[i] = before[i]
      /\ b[Len(before) + 1] = Prompt
  BY <1>1, OneMore, Zenon
<1> HIDE DEF b
<1>4. /\ c \in Seq(Writes) /\ Len(c) = Len(b) + 1
      /\ \A i \in 1 .. Len(b) : c[i] = b[i]
      /\ c[Len(b) + 1] = Text(l)
  BY <1>1, <1>3, OneMore, Zenon
<1> HIDE DEF c
<1>5. /\ l = <<>> => Len(R) = 2
      /\ l # <<>> => Len(R) = 3 /\ R[3] = Text(l)
      /\ R[1] = Newline /\ R[2] = Prompt
  BY RedrawShape
<1> HIDE DEF R, m
<1>6. m = Len(before) /\ m \in Nat \ {0} /\ before[m] = Newline
  BY <1>2 DEF m
<1>7. b[m] = Newline /\ b[m + 1] = Prompt /\ Len(b) = m + 1
  <2>1. m \in 1 .. Len(before)
    BY <1>6
  <2>2. b[m] = before[m]
    BY <1>3, <2>1
  <2>3. QED
    BY <1>3, <1>6, <2>2
<1>8. CASE l = <<>>
  <2>1. Len(R) = 2
    BY <1>5, <1>8
  <2>2. ASSUME NEW i \in 1 .. 2 PROVE R[i] = b[Len(b) - 2 + i]
    <3>1. CASE i = 1
      <4>1. Len(b) - 2 + i = m
        BY <1>6, <1>7, <3>1
      <4>2. QED
        BY <1>5, <1>7, <3>1, <4>1
    <3>2. CASE i = 2
      <4>1. Len(b) - 2 + i = m + 1
        BY <1>6, <1>7, <3>2
      <4>2. QED
        BY <1>5, <1>7, <3>2, <4>1
    <3>3. QED
      BY <3>1, <3>2
  <2>3. Len(R) <= Len(b)
    BY <1>6, <1>7, <2>1
  <2>4. Rest(R, b)
    BY <2>1, <2>2, <2>3 DEF Rest
  <2>5. QED
    BY <1>3, <1>8, <2>4 DEF R, b
<1>9. CASE l # <<>>
  <2>1. Len(R) = 3 /\ R[3] = Text(l)
    BY <1>5, <1>9
  <2>2. Len(c) = m + 2
    BY <1>4, <1>6, <1>7
  <2>3. c[m] = Newline /\ c[m + 1] = Prompt /\ c[m + 2] = Text(l)
    <3>1. m \in 1 .. Len(b) /\ m + 1 \in 1 .. Len(b) /\ Len(b) + 1 = m + 2
      BY <1>6, <1>7
    <3>2. QED
      BY <1>4, <1>7, <3>1
  <2>4. ASSUME NEW i \in 1 .. 3 PROVE R[i] = c[Len(c) - 3 + i]
    <3>1. CASE i = 1
      <4>1. Len(c) - 3 + i = m
        BY <1>6, <2>2, <3>1
      <4>2. QED
        BY <1>5, <2>3, <3>1, <4>1
    <3>2. CASE i = 2
      <4>1. Len(c) - 3 + i = m + 1
        BY <1>6, <2>2, <3>2
      <4>2. QED
        BY <1>5, <2>3, <3>2, <4>1
    <3>3. CASE i = 3
      <4>1. Len(c) - 3 + i = m + 2
        BY <1>6, <2>2, <3>3
      <4>2. QED
        BY <2>1, <2>3, <3>3, <4>1
    <3>4. QED
      BY <3>1, <3>2, <3>3
  <2>5. Len(R) <= Len(c)
    BY <1>6, <2>1, <2>2
  <2>6. Rest(R, c)
    BY <2>1, <2>4, <2>5 DEF Rest
  <2>7. QED
    BY <1>4, <1>9, <2>6 DEF R, c, b
<1>10. QED
  BY <1>8, <1>9

\* A newline, or what ends in one, and an answer.
LEMMA AnswerEnds ==
  ASSUME NEW s \in Seq(Writes)
  PROVE  /\ s \o <<Newline>> \in Seq(Writes) /\ s \o <<Newline>> # <<>>
         /\ (s \o <<Newline>>)[Len(s \o <<Newline>>)] = Newline
         /\ s \o Answer \in Seq(Writes) /\ s \o Answer # <<>>
         /\ (s \o Answer)[Len(s \o Answer)] = Newline
<1> DEFINE u == s \o <<Newline>>
           v == s \o Answer
<1>1. /\ Len(s) \in Nat /\ Newline \in Writes /\ Answer \in Seq(Writes) /\ Len(Answer) = 2
      /\ Answer[2] = Newline
  BY WritesIn
<1>2. /\ u \in Seq(Writes) /\ Len(u) = Len(s) + 1
      /\ \A i \in 1 .. Len(s) : u[i] = s[i]
      /\ u[Len(s) + 1] = Newline
  <2>1. Newline \in Writes
    BY <1>1
  <2>2. QED
    BY <2>1, OneMore, Zenon
<1> HIDE DEF u
<1>3. /\ v \in Seq(Writes) /\ Len(v) = Len(s) + Len(Answer)
      /\ \A i \in 1 .. Len(s) + Len(Answer) :
           v[i] = IF i <= Len(s) THEN s[i] ELSE Answer[i - Len(s)]
  BY <1>1, ConcatProperties, Zenon
<1> HIDE DEF v
<1>4. v[Len(s) + 2] = Newline /\ Len(v) = Len(s) + 2
  <2>1. /\ Len(s) + 2 \in 1 .. Len(s) + Len(Answer) /\ ~(Len(s) + 2 <= Len(s))
        /\ (Len(s) + 2) - Len(s) = 2
    BY <1>1
  <2>2. v[Len(s) + 2] = Answer[2]
    BY <1>3, <2>1
  <2>3. QED
    BY <1>1, <1>3, <2>2
<1>5. u # <<>> /\ v # <<>>
  BY <1>1, <1>2, <1>3, <1>4
<1>6. u[Len(u)] = Newline /\ v[Len(v)] = Newline
  BY <1>2, <1>4
<1>7. QED
  BY <1>2, <1>3, <1>5, <1>6 DEF u, v

LEMMA EnterRedraws ==
  ASSUME XshTypeOK, Enter
  PROVE  Redrawing' /\ line' \in Seq(Letters) /\ Len(line') < LineMax /\ out' \in Seq(Writes)
<1>1. line' = <<>> /\ <<>> \in Seq(Letters) /\ Len(<<>>) = 0 /\ 0 < LineMax
  BY XshAssumption DEF Enter
<1> DEFINE answer == IF AllBlank(line) THEN <<>> ELSE Answer
           before == <<Newline>> \o answer
<1>2. out' = before \o <<Prompt>>
  BY DEF Enter
<1>3. <<Newline>> \in Seq(Writes) /\ Newline \in Writes
  BY WritesIn
<1>4. before \in Seq(Writes) /\ before # <<>> /\ before[Len(before)] = Newline
  <2>1. CASE AllBlank(line)
    <3>1. before = <<Newline>>
      BY <1>3, <2>1, ConcatEmptySeq
    <3> HIDE DEF before
    <3>2. before \in Seq(Writes) /\ Len(before) = 1 /\ before[1] = Newline
      BY <1>3, <3>1
    <3>3. QED
      BY <3>2
  <2>2. CASE ~AllBlank(line)
    <3>1. before = <<Newline>> \o Answer
      BY <2>2
    <3> HIDE DEF before
    <3>2. QED
      BY <1>3, <3>1, AnswerEnds
  <2>3. QED
    BY <2>1, <2>2
<1> HIDE DEF before
<1>5. out' \in Seq(Writes) /\ Rest(Redraw(<<>>), out')
  BY <1>1, <1>2, <1>4, EndsInRedraw
<1>6. Redraw(line)' = Redraw(<<>>)
  BY <1>1
<1>7. QED
  BY <1>1, <1>5, <1>6 DEF Redrawing

LEMMA AppendBegins ==
  ASSUME NEW s \in Seq(Letters), NEW l \in Seq(Letters), Begins(s, l), NEW e \in Letters
  PROVE  Append(l, e) \in Seq(Letters) /\ Begins(s, Append(l, e))
<1> DEFINE a == Append(l, e)
<1>1. Len(l) \in Nat /\ Len(s) \in Nat /\ Len(s) <= Len(l)
  BY DEF Begins
<1>2. a \in Seq(Letters) /\ Len(a) = Len(l) + 1 /\ \A i \in 1 .. Len(l) : a[i] = l[i]
  OBVIOUS
<1> HIDE DEF a
<1>3. Begins(s, a)
  BY <1>1, <1>2 DEF Begins
<1>4. QED
  BY <1>2, <1>3 DEF a

LEMMA AddedType ==
  ASSUME NEW s \in Seq(Letters), NEW l \in Seq(Letters), Begins(s, l)
  PROVE  [i \in 1 .. Len(l) - Len(s) |-> Text(<<l[Len(s) + i]>>)] \in Seq(Writes)
<1> DEFINE k == Len(l) - Len(s)
<1>1. Len(s) \in Nat /\ Len(l) \in Nat /\ k \in Nat /\ Len(s) + k = Len(l)
  BY DEF Begins
<1> HIDE DEF k
<1>2. ASSUME NEW i \in 1 .. k PROVE Text(<<l[Len(s) + i]>>) \in Writes
  <2>1. Len(s) + i \in 1 .. Len(l)
    BY <1>1
  <2>2. l[Len(s) + i] \in Letters
    BY <2>1
  <2>3. QED
    BY <2>2, WritesIn
<1> DEFINE f == [i \in 1 .. k |-> Text(<<l[Len(s) + i]>>)]
<1>3. f \in [1 .. k -> Writes]
  BY <1>2
<1> HIDE DEF f
<1>4. f \in Seq(Writes)
  BY <1>1, <1>3
<1>5. QED
  BY <1>4 DEF f, k

\* xsh_complete, whichever way it ends.
LEMMA CompleteKeeps ==
  ASSUME XshTypeOK, out = <<>>, RowIs(Before \o line),
         Complete, UNCHANGED <<row, pending_prompt>>
  PROVE  /\ Echoing' \/ Redrawing'
         /\ line' \in Seq(Letters) /\ Len(line') < LineMax /\ out' \in Seq(Writes)
<1> DEFINE longer == LongestCommonPrefix(Matches)
           again  == IF line' = <<>> THEN <<>> ELSE <<Text(line')>>
           added  == [i \in 1 .. Len(line') - Len(line) |-> Text(<<line'[Len(line) + i]>>)]
<1>1. line \in Seq(Letters) /\ Len(line) < LineMax
  BY LineType DEF XshTypeOK
<1>2. CASE UNCHANGED <<line, out>>
  BY <1>2, NothingToEcho
<1>3. ASSUME Matches # {} PROVE longer \in Seq(Letters) /\ Begins(line, longer)
  <2>1. Matches \in SUBSET Seq(Chars) /\ \A word \in Matches : IsPrefix(line, word)
    BY XshAssumption DEF Matches
  <2>2. Chars \subseteq Letters
    BY DEF Letters
  <2>3. QED
    BY <1>1, <1>3, <2>1, <2>2, LongestBegins
<1>4. CASE Matches # {} /\ Extend(Append(longer, Blank))
  <2>1. Blank \in Letters
    BY DEF Letters
  <2>2. Append(longer, Blank) \in Seq(Letters) /\ Begins(line, Append(longer, Blank))
    BY <1>1, <1>3, <1>4, <2>1, AppendBegins
  <2>3. QED
    BY <1>4, <2>2, ExtendEchoes
<1>5. CASE /\ Matches # {} /\ line' = Fitting(longer)
           /\ out' = added \o <<Newline>> \o Answer \o <<Prompt>> \o again
  <2>1. line' \in Seq(Letters) /\ Len(line') < LineMax /\ Begins(line, line')
    BY <1>1, <1>3, <1>5, FittingShape
  <2>2. added \in Seq(Writes)
    BY <1>1, <2>1, AddedType
  <2> DEFINE before == (added \o <<Newline>>) \o Answer
  <2>3. before \in Seq(Writes) /\ before # <<>> /\ before[Len(before)] = Newline
    <3>1. added \o <<Newline>> \in Seq(Writes)
      BY <2>2, AnswerEnds
    <3>2. QED
      BY <3>1, AnswerEnds
  <2>4. out' = (before \o <<Prompt>>) \o again
    BY <1>5
  <2> HIDE DEF added, before
  <2> DEFINE all == IF line' = <<>> THEN before \o <<Prompt>>
                                    ELSE (before \o <<Prompt>>) \o <<Text(line')>>
  <2>5. all \in Seq(Writes) /\ Rest(Redraw(line'), all)
    BY <2>1, <2>3, EndsInRedraw
  <2>6. out' = all
    <3>1. CASE line' = <<>>
      <4>1. before \o <<Prompt>> \in Seq(Writes)
        BY <2>5, <3>1
      <4>2. (before \o <<Prompt>>) \o <<>> = before \o <<Prompt>>
        BY <4>1, ConcatEmptySeq
      <4>3. QED
        BY <2>4, <3>1, <4>2
    <3>2. CASE line' # <<>>
      BY <2>4, <3>2
    <3>3. QED
      BY <3>1, <3>2
  <2> HIDE DEF all
  <2>7. Redraw(line)' = Redraw(line')
    OBVIOUS
  <2>8. Redrawing'
    BY <2>5, <2>6, <2>7 DEF Redrawing
  <2>9. QED
    BY <2>1, <2>5, <2>6, <2>8
<1>6. QED
  BY <1>2, <1>4, <1>5 DEF Complete

\* A character is taken with nothing to be written.
LEMMA CharKeeps ==
  ASSUME EditInv, NEW key \in Keys, OnChar(key)
  PROVE  EditInv'
<1>1. XshTypeOK /\ Unstarted
  BY DEF EditInv
<1>2. /\ out = <<>> /\ burst \in 1 .. RxBurst /\ burst' = burst - 1
      /\ last_was_cr' = (key = "CR") /\ UNCHANGED <<promptVars, screen, quiet>>
  BY DEF OnChar
<1>3. /\ RxBurst \in Nat \ {0} /\ burst # Idle
      /\ burst' \in 0 .. RxBurst /\ burst' # Idle /\ burst' \in 0 .. Idle
  <2>1. RxBurst \in Nat \ {0}
    BY XshAssumption
  <2>2. QED
    BY <1>2, <2>1 DEF Idle
<1>4. started /\ started' /\ RowIs(Before \o line) /\ UNCHANGED <<row, pending_prompt>>
  <2>1. started
    BY <1>1, <1>3 DEF Unstarted
  <2>2. QED
    BY <1>2, <2>1, Settled DEF promptVars, screen
<1> DEFINE Kept == /\ Echoing' \/ Erasing' \/ Redrawing'
                   /\ line' \in Seq(Letters) /\ Len(line') < LineMax /\ out' \in Seq(Writes)
<1>5. ASSUME UNCHANGED <<line, out>> PROVE Kept
  BY <1>1, <1>2, <1>4, <1>5, NothingToEcho
<1>6. ASSUME Enter PROVE Kept
  BY <1>1, <1>6, EnterRedraws
<1>7. ASSUME Backspace PROVE Kept
  BY <1>1, <1>2, <1>4, <1>7, BackspaceErases
<1>8. ASSUME Complete PROVE Kept
  BY <1>1, <1>2, <1>4, <1>8, CompleteKeeps
<1>9. ASSUME key \in Chars \cup {Blank} /\ Extend(Append(line, key)) PROVE Kept
  <2>1. line \in Seq(Letters) /\ key \in Letters
    BY <1>1, <1>9, LineType DEF Letters
  <2>2. Begins(line, line)
    BY <2>1 DEF Begins
  <2>3. Append(line, key) \in Seq(Letters) /\ Begins(line, Append(line, key))
    BY <2>1, <2>2, AppendBegins
  <2>4. QED
    BY <1>1, <1>2, <1>4, <1>9, <2>3, ExtendEchoes
<1>10. Kept
  BY <1>5, <1>6, <1>7, <1>8, <1>9 DEF OnChar
<1>11. XshTypeOK'
  <2>1. line' \in Seq(Chars \cup {Blank})
    BY <1>10 DEF Letters
  <2>2. QED
    BY <1>1, <1>2, <1>3, <1>10, <2>1 DEF XshTypeOK, promptVars, screen
<1>12. Unstarted'
  BY <1>3, <1>4 DEF Unstarted, Idle
<1>13. QED
  BY <1>10, <1>11, <1>12 DEF EditInv

----------------------------------------------------------------------------
(* The writes, one after the other *)

LEMMA ShownRow ==
  ASSUME NEW write, Shown(write)
  PROVE  /\ write.op = "newline" => row' = <<>>
         /\ write.op = "text" /\ row' # Spoilt => row # Spoilt /\ row' = row \o write.shown
         /\ write.op = "erase" /\ row' # Spoilt =>
              row # Spoilt /\ row' = IF row = <<>> THEN <<>> ELSE Front(row)
         /\ write.op = "prompt" /\ row' # Spoilt =>
              row # Spoilt /\ row = <<>> /\ row' = write.shown
BY DEF Shown

LEMMA ShownType ==
  ASSUME XshTypeOK, NEW write \in Writes, Shown(write)
  PROVE  room' \in 0 .. TxSize /\ row' \in Seq(Shapes)
<1>1. room \in 0 .. TxSize /\ TxSize \in Nat
  BY XshAssumption DEF XshTypeOK
<1>2. room' \in 0 .. TxSize
  BY <1>1 DEF Shown
<1>3. row \in Seq(Shapes) /\ Spoilt \in Seq(Shapes) /\ <<>> \in Seq(Shapes)
  <2>1. "?" \in Shapes
    BY DEF Shapes
  <2>2. QED
    BY <2>1, LineType DEF Spoilt
<1>4. write.shown \in Seq(Shapes)
  <2>1. write.shown \in Seq(Letters \cup {"...", "prompt"})
    BY DEF Writes, Letters
  <2>2. QED
    BY <2>1, SeqMonotonic DEF Shapes
<1>5. row \o write.shown \in Seq(Shapes)
  BY <1>3, <1>4, ConcatProperties
<1>6. row # <<>> => Front(row) \in Seq(Shapes)
  BY <1>3, FrontOfConcat
<1>7. QED
  BY <1>2, <1>3, <1>4, <1>5, <1>6 DEF Shown

\* The first write is made, dropped or put off.
Leaves ==
  /\ out # <<>> /\ out' = Tail(out) /\ line' = line
  /\ \/ /\ Shown(Head(out))
        /\ pending_prompt' = (pending_prompt /\ Head(out).op # "prompt")
     \/ Head(out).op # "prompt" /\ row' = Spoilt /\ pending_prompt' = pending_prompt
     \/ Head(out).op = "prompt" /\ row' = row /\ pending_prompt' = TRUE

LEMMA OutLeaves ==
  ASSUME XshTypeOK, Leaves
  PROVE  /\ out \in Seq(Writes) /\ Head(out) \in Writes /\ out' \in Seq(Writes)
         /\ Len(out) \in Nat \ {0} /\ Len(out') = Len(out) - 1
         /\ \A i \in 1 .. Len(out) - 1 : out'[i] = out[i + 1]
<1>1. out \in Seq(Writes) /\ out # <<>> /\ out' = Tail(out)
  BY DEF XshTypeOK, Leaves
<1> DEFINE r == Tail(out)
<1>2. /\ Len(out) \in Nat \ {0} /\ Head(out) \in Writes
      /\ r \in Seq(Writes) /\ Len(r) = Len(out) - 1
      /\ \A i \in 1 .. Len(out) - 1 : r[i] = out[i + 1]
  BY <1>1, TailOf
<1> HIDE DEF r
<1>3. out' = r
  BY <1>1 DEF r
<1>4. QED
  BY <1>1, <1>2, <1>3

\* With the last write of the line, the line is there.
LEMMA LastLeaves ==
  ASSUME XshTypeOK, Leaves, Len(out) = 1, RowIs(Before \o line)'
  PROVE  Echoing'
<1>1. line' \in Seq(Letters)
  BY LineType DEF Leaves
<1>2. out' \in Seq(Writes) /\ Len(out') = 0
  BY OutLeaves
<1>3. out' = <<>>
  BY <1>2
<1>4. QED
  BY <1>1, <1>3, SettledEchoes

LEMMA EchoingLeaves ==
  ASSUME XshTypeOK, Echoing, Leaves
  PROVE  Echoing'
<1> DEFINE k == Len(line) - Len(out)
           shown == SubSeq(line, 1, k)
           more == SubSeq(line, 1, k + 1)
<1>1. /\ line \in Seq(Letters) /\ line \in Seq(Shapes) /\ Before \in Seq(Shapes)
      /\ Len(line) \in Nat /\ line' = line
  BY LineType, BeforeType DEF Leaves
<1>2. /\ Echo(line) \in Seq(Writes) /\ Len(Echo(line)) = Len(line)
      /\ \A i \in 1 .. Len(line) : Echo(line)[i] = Text(<<line[i]>>)
  BY <1>1, EchoShape
<1>3. /\ out \in Seq(Writes) /\ out # <<>> /\ out' = Tail(out)
      /\ Len(out) \in Nat \ {0} /\ Len(out') = Len(out) - 1
  BY OutLeaves DEF Leaves
<1>4. Rest(out, Echo(line)) /\ RowIs(Before \o shown)
  BY DEF Echoing
<1>5. /\ k \in Nat /\ k + 1 \in 1 .. Len(line) /\ 1 \in 1 .. Len(line) /\ (k + 1) - 1 = k
      /\ Len(line) - (Len(out) - 1) = k + 1
  BY <1>1, <1>2, <1>3, <1>4 DEF Rest
<1>6. Rest(out', Echo(line)) /\ Head(out) = Text(<<line[k + 1]>>)
  <2>1. Rest(Tail(out), Echo(line)) /\ Head(out) = Echo(line)[Len(Echo(line)) - Len(out) + 1]
    BY <1>2, <1>3, <1>4, RestOfTail
  <2>2. QED
    BY <1>2, <1>3, <1>5, <2>1
<1> HIDE DEF k
<1>7. /\ pending_prompt' = pending_prompt
      /\ row' # Spoilt => row # Spoilt /\ row' = row \o <<line[k + 1]>>
  <2>1. Head(out).op = "text" /\ Head(out).shown = <<line[k + 1]>> /\ pending_prompt \in BOOLEAN
    BY <1>6, Ops DEF XshTypeOK
  <2>2. pending_prompt' = pending_prompt
    BY <2>1 DEF Leaves
  <2>3. CASE Shown(Head(out))
    <3>1. row' # Spoilt => row # Spoilt /\ row' = row \o Head(out).shown
      BY <2>1, <2>3, ShownRow
    <3>2. QED
      BY <2>1, <2>2, <3>1
  <2>4. CASE row' = Spoilt
    BY <2>2, <2>4
  <2>5. QED
    BY <2>1, <2>3, <2>4 DEF Leaves
<1>8. Before \o more = (Before \o shown) \o <<line[k + 1]>>
  <2>1. shown \in Seq(Shapes)
    BY <1>1, <1>5, Initial
  <2>2. more = shown \o <<line[k + 1]>>
    <3>1. k + 1 \in 1 .. Len(line) /\ SubSeq(line, 1, (k + 1) - 1) = shown
      BY <1>5
    <3>2. QED
      BY <1>1, <1>5, <3>1, SubSeqRecursiveSecond
  <2>3. <<line[k + 1]>> \in Seq(Shapes)
    <3>1. line[k + 1] \in Shapes
      BY <1>1, <1>5
    <3>2. QED
      BY <3>1
  <2> HIDE DEF shown, more
  <2>4. QED
    BY <1>1, <2>1, <2>2, <2>3, ConcatAssociative
<1>9. row' # Spoilt => row' = Before \o more
  BY <1>4, <1>7, <1>8 DEF RowIs
<1>10. Before' = Before /\ SubSeq(line', 1, Len(line') - Len(out')) = more
  BY <1>1, <1>3, <1>5, <1>7 DEF Before
<1>11. RowIs(Before \o SubSeq(line, 1, Len(line) - Len(out)))'
  BY <1>9, <1>10 DEF RowIs
<1>12. Rest(out, Echo(line))'
  BY <1>1, <1>6 DEF Echo
<1>13. QED
  BY <1>11, <1>12 DEF Echoing

LEMMA ErasingLeaves ==
  ASSUME XshTypeOK, Erasing, Leaves
  PROVE  Echoing'
<1>1. Head(out) = Erase /\ Len(out) = 1
  BY DEF Erasing, Leaves
<1>2. /\ pending_prompt' = pending_prompt /\ line' = line
      /\ row' # Spoilt => row # Spoilt /\ row' = IF row = <<>> THEN <<>> ELSE Front(row)
  <2>1. Head(out).op = "erase" /\ pending_prompt \in BOOLEAN
    BY <1>1, Ops DEF XshTypeOK
  <2>2. pending_prompt' = pending_prompt /\ line' = line
    BY <2>1 DEF Leaves
  <2>3. CASE Shown(Head(out))
    BY <2>1, <2>2, <2>3, ShownRow
  <2>4. CASE row' = Spoilt
    BY <2>2, <2>4
  <2>5. QED
    BY <2>1, <2>3, <2>4 DEF Leaves
<1>3. RowIs(Before \o line)'
  BY <1>2 DEF Erasing, RowIs, Before
<1>4. QED
  BY <1>1, <1>3, LastLeaves

LEMMA RedrawingLeaves ==
  ASSUME XshTypeOK, Redrawing, Leaves
  PROVE  Echoing' \/ Redrawing'
<1> DEFINE R == Redraw(line)
<1>1. line \in Seq(Letters) /\ Before \in Seq(Shapes) /\ line' = line /\ pending_prompt \in BOOLEAN
  BY LineType, BeforeType DEF Leaves, XshTypeOK
<1>2. /\ R \in Seq(Writes) /\ Len(R) \in {2, 3} /\ R[1] = Newline /\ R[2] = Prompt
      /\ Len(R) = 3 => R[3] = Text(line)
  <2>1. Redraw(line) \in Seq(Writes) /\ Redraw(line)[1] = Newline /\ Redraw(line)[2] = Prompt
    BY <1>1, RedrawShape
  <2>2. CASE line = <<>>
    <3>1. Len(Redraw(line)) = 2
      BY <1>1, <2>2, RedrawShape
    <3>2. QED
      BY <2>1, <3>1
  <2>3. CASE line # <<>>
    <3>1. Len(Redraw(line)) = 3 /\ Redraw(line)[3] = Text(line)
      BY <1>1, <2>3, RedrawShape
    <3>2. QED
      BY <2>1, <3>1
  <2>4. QED
    BY <2>2, <2>3
<1>3. /\ out \in Seq(Writes) /\ out # <<>> /\ out' = Tail(out) /\ out' \in Seq(Writes)
      /\ Len(out) \in Nat \ {0} /\ Len(out') = Len(out) - 1
      /\ \A i \in 1 .. Len(out) - 1 : out'[i] = out[i + 1]
  BY OutLeaves DEF Leaves
<1>4. R' = R
  BY <1>1
<1> DEFINE Lined    == Rest(R, out)
           Prompted == Rest(out, R) /\ Len(out) = Len(R) - 1 /\ RowIs(<<>>)
           Texted   == Rest(out, R) /\ Len(out) = Len(R) - 2 /\ RowIs(Before)
<1>5. Lined \/ Prompted \/ Texted
  BY DEF Redrawing
<1> HIDE DEF R
<1>6. Redrawing' <=> \/ Rest(R, out')
                     \/ Rest(out', R) /\ Len(out') = Len(R) - 1 /\ RowIs(<<>>)'
                     \/ Rest(out', R) /\ Len(out') = Len(R) - 2 /\ RowIs(Before)'
  BY <1>4 DEF Redrawing, R
<1>7. ASSUME Rest(out, R) PROVE Rest(out', R) /\ Head(out) = R[Len(R) - Len(out) + 1]
  BY <1>2, <1>3, <1>7, RestOfTail
<1>8. CASE Lined /\ Len(out) > Len(R)
  <2>1. ASSUME NEW i \in 1 .. Len(R) PROVE R[i] = out'[Len(out') - Len(R) + i]
    <3>1. /\ Len(out') - Len(R) + i \in 1 .. Len(out) - 1
          /\ (Len(out') - Len(R) + i) + 1 = Len(out) - Len(R) + i
      BY <1>2, <1>3, <1>8
    <3>2. out'[Len(out') - Len(R) + i] = out[Len(out) - Len(R) + i]
      BY <1>3, <3>1
    <3>3. QED
      BY <1>8, <3>2 DEF Rest
  <2>2. Len(R) <= Len(out')
    BY <1>2, <1>3, <1>8
  <2>3. QED
    BY <1>6, <2>1, <2>2 DEF Rest
<1>9. CASE Lined /\ ~(Len(out) > Len(R))
  <2>1. Len(out) = Len(R) /\ Len(out) - Len(R) = 0 /\ Len(R) - Len(out) = 0
    BY <1>2, <1>3, <1>9 DEF Rest
  <2>2. Rest(out, R)
    BY <1>2, <1>9, <2>1 DEF Rest
  <2>3. Rest(out', R) /\ Head(out) = Newline /\ Len(out') = Len(R) - 1
    BY <1>2, <1>3, <1>7, <2>1, <2>2
  <2>4. RowIs(<<>>)'
    <3>1. Head(out).op = "newline"
      BY <2>3, Ops
    <3>2. CASE Shown(Head(out))
      BY <3>1, <3>2, ShownRow DEF RowIs
    <3>3. CASE row' = Spoilt
      BY <3>3 DEF RowIs
    <3>4. QED
      BY <3>1, <3>2, <3>3 DEF Leaves
  <2>5. QED
    BY <1>6, <2>3, <2>4
<1>10. CASE Prompted
  <2>1. Len(R) - Len(out) + 1 = 2 /\ Len(out') = Len(R) - 2
    BY <1>2, <1>3, <1>10
  <2>2. Rest(out', R) /\ Head(out) = Prompt
    BY <1>2, <1>7, <1>10, <2>1
  <2>3. Head(out).op = "prompt" /\ Head(out).shown = <<"prompt">>
    BY <2>2, Ops
  <2>4. RowIs(Before)'
    <3>1. CASE Shown(Head(out)) /\ pending_prompt' = FALSE
      <4>1. row' # Spoilt => row # Spoilt /\ (row = <<>> => row' = <<"prompt">>)
        BY <2>3, <3>1, ShownRow
      <4>2. row' # Spoilt => row' = <<"prompt">>
        BY <1>10, <4>1 DEF RowIs
      <4>3. QED
        BY <3>1, <4>2 DEF RowIs, Before
    <3>2. CASE row' = row /\ pending_prompt' = TRUE
      BY <1>10, <3>2 DEF RowIs, Before
    <3>3. QED
      BY <2>3, <3>1, <3>2 DEF Leaves
  <2>5. QED
    BY <1>6, <2>1, <2>2, <2>4
<1>11. CASE Texted
  <2>1. Len(R) = 3 /\ Len(out) = 1 /\ Len(R) - Len(out) + 1 = 3
    BY <1>2, <1>3, <1>11
  <2>2. Head(out) = Text(line)
    BY <1>2, <1>7, <1>11, <2>1
  <2>3. Head(out).op = "text" /\ Head(out).shown = line
    BY <2>2, Ops
  <2>4. pending_prompt' = pending_prompt
    BY <1>1, <2>3 DEF Leaves
  <2>5. row' # Spoilt => row # Spoilt /\ row' = row \o line
    <3>1. CASE Shown(Head(out))
      <4>1. row' # Spoilt => row # Spoilt /\ row' = row \o Head(out).shown
        BY <2>3, <3>1, ShownRow
      <4>2. QED
        BY <2>3, <4>1
    <3>2. CASE row' = Spoilt
      BY <3>2
    <3>3. QED
      BY <2>3, <3>1, <3>2 DEF Leaves
  <2>6. RowIs(Before \o line)'
    BY <1>1, <1>11, <2>4, <2>5 DEF RowIs, Before
  <2>7. QED
    BY <2>1, <2>6, LastLeaves
<1>12. QED
  BY <1>5, <1>8, <1>9, <1>10, <1>11

LEMMA LeavesKeep ==
  ASSUME EditInv, Leaves
  PROVE  started /\ (Echoing' \/ Erasing' \/ Redrawing') /\ out' \in Seq(Writes)
<1>1. XshTypeOK /\ started /\ (Echoing \/ Erasing \/ Redrawing)
  BY DEF EditInv, Unstarted, Leaves
<1>2. QED
  BY <1>1, OutLeaves, EchoingLeaves, ErasingLeaves, RedrawingLeaves

LEMMA SendKeeps == EditInv /\ Send => EditInv'
<1> SUFFICES ASSUME EditInv, Send PROVE EditInv'
  OBVIOUS
<1>1. XshTypeOK /\ Unstarted
  BY DEF EditInv
<1>2. /\ out # <<>> /\ Shown(Head(out)) /\ out' = Tail(out)
      /\ pending_prompt' = (pending_prompt /\ Head(out).op # "prompt")
      /\ UNCHANGED <<editVars, started, burst, quiet>>
  BY DEF Send
<1>3. Leaves
  BY <1>2 DEF Leaves, editVars
<1>4. started /\ (Echoing' \/ Erasing' \/ Redrawing') /\ out' \in Seq(Writes)
  BY <1>3, LeavesKeep
<1>5. room' \in 0 .. TxSize /\ row' \in Seq(Shapes)
  BY <1>1, <1>2, <1>3, OutLeaves, ShownType
<1>6. XshTypeOK'
  <2>1. row' \in Seq(Chars \cup {Blank, "...", "prompt", "?"})
    <3>1. Shapes = Chars \cup {Blank, "...", "prompt", "?"}
      BY DEF Shapes, Letters
    <3>2. QED
      BY <1>5, <3>1
  <2>2. pending_prompt' \in BOOLEAN
    BY <1>2
  <2>3. QED
    BY <1>1, <1>2, <1>4, <1>5, <2>1, <2>2 DEF XshTypeOK, editVars
<1>7. Unstarted'
  <2>1. started' /\ burst # Idle /\ burst' # Idle'
    BY <1>1, <1>2, <1>4 DEF Unstarted, Idle
  <2>2. QED
    BY <2>1 DEF Unstarted
<1>8. QED
  BY <1>4, <1>6, <1>7 DEF EditInv

LEMMA DropKeeps == EditInv /\ Drop => EditInv'
<1> SUFFICES ASSUME EditInv, Drop PROVE EditInv'
  OBVIOUS
<1>1. XshTypeOK /\ Unstarted
  BY DEF EditInv
<1>2. /\ out # <<>> /\ Head(out).op # "prompt" /\ out' = Tail(out) /\ row' = Spoilt
      /\ UNCHANGED <<editVars, promptVars, burst, room, quiet>>
  BY DEF Drop
<1>3. Leaves
  BY <1>2 DEF Leaves, editVars, promptVars
<1>4. started /\ (Echoing' \/ Erasing' \/ Redrawing') /\ out' \in Seq(Writes)
  BY <1>3, LeavesKeep
<1>5. XshTypeOK'
  <2>1. row' \in Seq(Chars \cup {Blank, "...", "prompt", "?"})
    <3>1. "?" \in Chars \cup {Blank, "...", "prompt", "?"}
      OBVIOUS
    <3>2. <<"?">> \in Seq(Chars \cup {Blank, "...", "prompt", "?"})
      BY <3>1
    <3>3. QED
      BY <1>2, <3>2 DEF Spoilt
  <2>2. QED
    BY <1>1, <1>2, <1>4, <2>1 DEF XshTypeOK, editVars, promptVars
<1>6. Unstarted'
  <2>1. started' /\ burst # Idle /\ burst' # Idle'
    BY <1>1, <1>2, <1>4 DEF Unstarted, Idle, promptVars
  <2>2. QED
    BY <2>1 DEF Unstarted
<1>7. QED
  BY <1>4, <1>5, <1>6 DEF EditInv

LEMMA PutOffKeeps == EditInv /\ PutOff => EditInv'
<1> SUFFICES ASSUME EditInv, PutOff PROVE EditInv'
  OBVIOUS
<1>1. XshTypeOK /\ Unstarted
  BY DEF EditInv
<1>2. /\ out # <<>> /\ Head(out).op = "prompt" /\ out' = Tail(out) /\ pending_prompt' = TRUE
      /\ UNCHANGED <<editVars, started, burst, screen, quiet>>
  BY DEF PutOff
<1>3. Leaves
  BY <1>2 DEF Leaves, editVars, screen
<1>4. started /\ (Echoing' \/ Erasing' \/ Redrawing') /\ out' \in Seq(Writes)
  BY <1>3, LeavesKeep
<1>5. XshTypeOK'
  BY <1>1, <1>2, <1>4 DEF XshTypeOK, editVars, screen
<1>6. Unstarted'
  <2>1. started' /\ burst # Idle /\ burst' # Idle'
    BY <1>1, <1>2, <1>4 DEF Unstarted, Idle
  <2>2. QED
    BY <2>1 DEF Unstarted
<1>7. QED
  BY <1>4, <1>5, <1>6 DEF EditInv

----------------------------------------------------------------------------
(* xsh_tick *)

LEMMA TickStarts ==
  ASSUME EditInv, NEW n \in 0 .. RxBurst, XshTick(n)
  PROVE  EditInv'
<1>1. XshTypeOK /\ Unstarted
  BY DEF EditInv
<1>2. /\ burst = Idle /\ burst' = n /\ started' = TRUE
      /\ out' = IF started THEN <<>> ELSE Answer \o <<Prompt>>
      /\ UNCHANGED <<editVars, pending_prompt, screen, quiet>>
  BY DEF XshTick
<1>3. out = <<>> /\ started \in BOOLEAN /\ line' = line /\ line \in Seq(Letters)
  BY <1>1, <1>2, LineType DEF Unstarted, XshTypeOK, editVars
<1>4. burst' \in 0 .. Idle /\ burst' # Idle
  BY <1>2, XshAssumption DEF Idle
<1>5. (Echoing' \/ Redrawing') /\ out' \in Seq(Writes)
  <2>1. CASE started
    <3>1. RowIs(Before \o line) /\ UNCHANGED <<line, out, row, pending_prompt>>
      BY <1>2, <1>3, <2>1, Settled DEF screen
    <3>2. QED
      BY <1>1, <1>3, <3>1, NothingToEcho
  <2>2. CASE ~started
    <3>1. line = <<>> /\ out' = Answer \o <<Prompt>>
      BY <1>1, <1>2, <2>2 DEF Unstarted
    <3>2. Answer \in Seq(Writes) /\ Len(Answer) = 2 /\ Answer[2] = Newline
      BY WritesIn
    <3>3. Answer # <<>> /\ Answer[Len(Answer)] = Newline
      BY <3>2
    <3>4. out' \in Seq(Writes) /\ Rest(Redraw(line'), out')
      BY <1>3, <3>1, <3>2, <3>3, EndsInRedraw
    <3>5. Redraw(line)' = Redraw(line')
      OBVIOUS
    <3>6. QED
      BY <3>4, <3>5 DEF Redrawing
  <2>3. QED
    BY <1>3, <2>1, <2>2
<1>6. XshTypeOK'
  BY <1>1, <1>2, <1>4, <1>5 DEF XshTypeOK, editVars, screen
<1>7. Unstarted'
  BY <1>2, <1>4 DEF Unstarted, Idle
<1>8. QED
  BY <1>5, <1>6, <1>7 DEF EditInv

LEMMA TickEnds == EditInv /\ XshTickEnds => EditInv'
<1> SUFFICES ASSUME EditInv, XshTickEnds PROVE EditInv'
  OBVIOUS
<1>1. XshTypeOK /\ Unstarted
  BY DEF EditInv
<1>2. /\ burst = 0 /\ out = <<>> /\ burst' = Idle /\ RetryPrompt
      /\ UNCHANGED <<editVars, started, out, quiet>>
  BY DEF XshTickEnds
<1>3. RxBurst \in Nat \ {0} /\ burst # Idle /\ burst' \in 0 .. Idle
  <2>1. RxBurst \in Nat \ {0}
    BY XshAssumption
  <2>2. QED
    BY <1>2, <2>1 DEF Idle
<1>4. started /\ started' /\ RowIs(Before \o line)
  <2>1. started
    BY <1>1, <1>3 DEF Unstarted
  <2>2. QED
    BY <1>2, <2>1, Settled
<1>5. line \in Seq(Letters) /\ line \in Seq(Shapes) /\ line' = line /\ out' = <<>>
  BY <1>1, <1>2, LineType DEF editVars
<1>6. /\ RowIs(Before \o line)' /\ room' \in 0 .. TxSize /\ pending_prompt' \in BOOLEAN
      /\ row' \in Seq(Chars \cup {Blank, "...", "prompt", "?"})
  <2>1. CASE pending_prompt /\ Shown(Prompt) /\ pending_prompt' = FALSE
    <3>1. Before = <<>> /\ Before' = <<"prompt">>
      BY <2>1 DEF Before
    <3>2. row' # Spoilt => row # Spoilt /\ row = <<>> /\ row' = <<"prompt">>
      BY <2>1, Ops, ShownRow
    <3>3. <<>> \o line = line /\ <<"prompt">> \in Seq({"prompt"})
      BY <1>5, ConcatEmptySeq
    <3>4. <<"prompt">> \o <<>> = <<"prompt">>
      BY <3>3, ConcatEmptySeq
    <3>5. row' # Spoilt => line = <<>>
      BY <1>4, <3>1, <3>2, <3>3 DEF RowIs
    <3>6. RowIs(Before \o line)'
      BY <1>5, <3>1, <3>2, <3>4, <3>5 DEF RowIs
    <3>7. room' \in 0 .. TxSize /\ row' \in Seq(Shapes)
      BY <1>1, <2>1, WritesIn, ShownType
    <3>8. Shapes = Chars \cup {Blank, "...", "prompt", "?"}
      BY DEF Shapes, Letters
    <3>9. QED
      BY <2>1, <3>6, <3>7, <3>8
  <2>2. CASE UNCHANGED <<pending_prompt, screen>>
    BY <1>1, <1>4, <1>5, <2>2 DEF XshTypeOK, screen, RowIs, Before
  <2>3. QED
    BY <1>2, <2>1, <2>2 DEF RetryPrompt
<1>7. Echoing' /\ out' \in Seq(Writes)
  BY <1>5, <1>6, SettledEchoes
<1>8. XshTypeOK'
  BY <1>1, <1>2, <1>3, <1>6, <1>7 DEF XshTypeOK, editVars
<1>9. Unstarted'
  BY <1>4, <1>5 DEF Unstarted
<1>10. QED
  BY <1>7, <1>8, <1>9 DEF EditInv

\* What is neither typed nor written.
LEMMA OthersKeep ==
  ASSUME EditInv, UNCHANGED <<editVars, promptVars, burst, out, row>>,
         room' \in 0 .. TxSize, quiet' \in BOOLEAN
  PROVE  EditInv'
<1>1. XshTypeOK'
  BY DEF EditInv, XshTypeOK, editVars, promptVars
<1>2. Unstarted'
  BY DEF EditInv, Unstarted, promptVars, editVars
<1>3. (Echoing => Echoing') /\ (Erasing => Erasing') /\ (Redrawing => Redrawing')
  BY DEF Echoing, Erasing, Redrawing, RowIs, Before, Echo, Redraw, editVars, promptVars
<1>4. QED
  BY <1>1, <1>2, <1>3 DEF EditInv, promptVars

\* The invariant of the line editor: the writes still to be made are the end
\* of the line, echoed, the one that erases a character, or the end of a
\* line end, a prompt and the line; and the row is as far as that, unless it
\* is spoilt.
THEOREM EditInvariance == XshSpec => []EditInv
<1>1. XshInit => EditInv
  <2> SUFFICES ASSUME XshInit PROVE EditInv
    OBVIOUS
  <2>1. XshTypeOK
    <3>1. /\ LineMax \in Nat /\ 0 < LineMax /\ RxBurst + 1 \in 0 .. RxBurst + 1
          /\ TxSize \in 0 .. TxSize
      BY XshAssumption
    <3>2. Len(<<>>) = 0 /\ \A S : <<>> \in Seq(S)
      OBVIOUS
    <3>3. line = <<>> /\ out = <<>> /\ row = <<>> /\ burst = RxBurst + 1 /\ Idle = RxBurst + 1
      BY DEF XshInit, Idle
    <3>4. Len(line) < LineMax
      BY <3>1, <3>2, <3>3
    <3>5. QED
      BY <3>1, <3>2, <3>3, <3>4 DEF XshInit, XshTypeOK
  <2>2. QED
    BY <2>1 DEF XshInit, EditInv, Unstarted
<1>2. EditInv /\ [XshNext]_xshVars => EditInv'
  <2> SUFFICES ASSUME EditInv, [XshNext]_xshVars PROVE EditInv'
    OBVIOUS
  <2>1. /\ room \in 0 .. TxSize /\ quiet \in BOOLEAN /\ TxSize \in Nat
    BY XshAssumption DEF EditInv, XshTypeOK
  <2>2. ASSUME NEW key \in Keys, OnChar(key) PROVE EditInv'
    BY <2>2, CharKeeps
  <2>3. CASE Send \/ Drop \/ PutOff
    BY <2>3, SendKeeps, DropKeeps, PutOffKeeps
  <2>4. ASSUME NEW n \in 0 .. RxBurst, XshTick(n) PROVE EditInv'
    BY <2>4, TickStarts
  <2>5. CASE XshTickEnds
    BY <2>5, TickEnds
  <2>6. CASE ZbusTick
    <3>1. room' \in 0 .. TxSize
      BY <2>1, <2>6 DEF ZbusTick
    <3>2. QED
      BY <2>1, <2>6, <3>1, OthersKeep DEF ZbusTick
  <2>7. CASE Quiet
    BY <2>1, <2>7, OthersKeep DEF Quiet, screen
  <2>8. CASE UNCHANGED xshVars
    BY <2>1, <2>8, OthersKeep DEF xshVars, screen
  <2>9. QED
    BY <2>2, <2>3, <2>4, <2>5, <2>6, <2>7, <2>8 DEF XshNext, Shell
<1>3. QED
  BY <1>1, <1>2, PTL DEF XshSpec

\* Whenever the shell has written what it had to, the row is the prompt, or
\* nothing while that is put off, and exactly the line that Enter will
\* execute, unless output of the row was dropped or came late
\* (xsh.c:388-550).
THEOREM LineIsShown == XshSpec => []ScreenShowsLine
<1>1. EditInv => ScreenShowsLine
  <2> SUFFICES ASSUME EditInv, started, out = <<>>, row # Spoilt
               PROVE  row = IF pending_prompt THEN line ELSE <<"prompt">> \o line
    BY DEF ScreenShowsLine
  <2>1. row = Before \o line
    BY Settled DEF RowIs
  <2>2. line \in Seq(Letters)
    BY LineType DEF EditInv
  <2>3. <<>> \o line = line
    BY <2>2, ConcatEmptySeq
  <2>4. CASE pending_prompt
    BY <2>1, <2>3, <2>4 DEF Before
  <2>5. CASE ~pending_prompt
    BY <2>1, <2>5 DEF Before
  <2>6. QED
    BY <2>4, <2>5
<1>2. QED
  BY <1>1, EditInvariance, PTL

=============================================================================
