-------------------------------- MODULE Vdp --------------------------------
(***************************************************************************)
(* The video chip and the tasks that share it: the activity indicator of   *)
(* the demo tasks, vchk and gchk.  The chip takes an address or a register *)
(* write as two bytes on one port and remembers, in a latch, that it waits *)
(* for the second; the timer interrupt reads its status, which clears the  *)
(* latch.  A task works through a sequence of port accesses, masked (DI)   *)
(* or not, and a tick may come between any two that are not.               *)
(*                                                                         *)
(* The chip itself is hardware, modelled from what src/src/drivers/vdp.c   *)
(* relies on; its read-ahead is left out.  Of the memory only the addresses *)
(* in Cells are kept.                                                      *)
(***************************************************************************)
EXTENDS Integers, Sequences

CONSTANTS
  Cells,      \* the addresses of video memory that are looked at
  DrawnCell,  \* where the indicator draws
  Glyphs,     \* what it draws
  Colors      \* GCHK_BORDER_COLOR_COUNT

MemSize == 16384

ASSUME VdpAssumption ==
  /\ Cells \subseteq 0 .. MemSize - 1 /\ DrawnCell \in Cells
  /\ Glyphs \subseteq 0 .. 255 /\ Colors \in 1 .. 15

VARIABLES
  regs, mem, addr, latch,  \* the chip: registers, memory, address, first byte
  running,                 \* g_current_task, of Tasks
  todo,                    \* what each task still has to send
  saved,                   \* original, in vchk_test_byte
  at, color, waited,       \* gchk: where it is, the color, and whether a tick
                           \* came since it began to wait
  stop,                    \* stop_requested of gchk
  drawn                    \* history: the memory as if vchk did not run

chipVars == <<regs, mem, addr, latch>>
gchkVars == <<at, color, waited>>
vars     == <<chipVars, running, todo, saved, gchkVars, stop, drawn>>

Tasks   == {"indicator", "vchk", "gchk"}
NoByte  == 256                              \* the latch is clear
TestByte == 165                             \* VCHK_VALUE
SpriteAttr == 6912                          \* VDP_SPRITE_ATTR_ADDR
Screen1 == <<0, 224, 6, 128, 0, 54, 7, 244>>

----------------------------------------------------------------------------
(* Sequences of port accesses *)

Control(byte)  == [op |-> "control", value |-> byte, to |-> 0, n |-> 0]
Data(v, a, n)  == [op |-> "data", value |-> v, to |-> a, n |-> n]
ReadData(a)    == [op |-> "read", value |-> 0, to |-> a, n |-> 1]
Save(a)        == [op |-> "save", value |-> 0, to |-> a, n |-> 1]
Restore(a)     == [op |-> "restore", value |-> 0, to |-> a, n |-> 1]

\* vdp_write_register, vdp_set_write_address, vdp_set_read_address
RegisterWrite(v, r) == << Control(v), Control(128 + r) >>
WriteAddress(a)     == << Control(a % 256), Control(64 + ((a \div 256) % 64)) >>
ReadAddress(a)      == << Control(a % 256), Control((a \div 256) % 64) >>

\* vdp_fill_vram; the accesses of a masked fill are one.
Fill(a, n, v) == Append(WriteAddress(a), Data(v, a, n))

\* The eight registers one after another.
Screen1Registers ==
  [i \in 1 .. 16 |->
     LET r == (i - 1) \div 2
     IN  RegisterWrite(Screen1[r + 1], r)[IF i % 2 = 1 THEN 1 ELSE 2]]

\* vdp_init_screen1
InitScreen1 ==
  Screen1Registers \o Fill(0, 2048, 0) \o Fill(6144, 768, 0) \o Fill(8192, 32, 244)
    \o Fill(SpriteAttr, 128, 208) \o Fill(14336, 2048, 0)

\* vchk_test_byte
TestAt(a) ==
  Append(ReadAddress(a), Save(a)) \o Fill(a, 1, TestByte)
    \o Append(ReadAddress(a), ReadData(a)) \o Append(WriteAddress(a), Restore(a))

\* Mutant: the indicator draws with interrupts enabled.
MaskedMutant(t) == todo[t] # <<>> /\ t # "indicator" /\ ~(t = "gchk" /\ at = "wait" /\ color > 0)

\* Mutant: vchk tests with interrupts enabled.
MaskedMutant2(t) == todo[t] # <<>> /\ t # "vchk" /\ ~(t = "gchk" /\ at = "wait" /\ color > 0)

\* Everything is sent with interrupts masked, but the border color.
Masked(t) == todo[t] # <<>> /\ ~(t = "gchk" /\ at = "wait" /\ color > 0)

----------------------------------------------------------------------------
(* The chip *)

\* boot.c has run vdp_init_screen1.
Init ==
  /\ regs = [r \in 0 .. 7 |-> Screen1[r + 1]]
  /\ mem = [c \in Cells |-> 0] /\ drawn = mem
  /\ addr = 0 /\ latch = NoByte
  /\ running = "gchk" /\ todo = [t \in Tasks |-> <<>>]
  /\ saved = 0
  /\ at = "start" /\ color = 0 /\ waited = FALSE /\ stop = FALSE

Advanced(n) == (addr + n) % MemSize

Stored(v, n) == [c \in Cells |-> IF (c - addr) % MemSize < n THEN v ELSE mem[c]]

OutControl(byte) ==
  \/ /\ latch = NoByte
     /\ latch' = byte
     /\ UNCHANGED <<regs, addr>>
  \/ /\ latch # NoByte /\ byte >= 128
     /\ regs' = [regs EXCEPT ![byte % 8] = latch]
     /\ latch' = NoByte /\ UNCHANGED addr
  \/ /\ latch # NoByte /\ byte < 128
     /\ addr' = (byte % 64) * 256 + latch
     /\ latch' = NoByte /\ UNCHANGED regs

OutData(t, v, n) ==
  /\ mem'   = Stored(v, n)
  /\ drawn' = IF t = "vchk" THEN drawn ELSE Stored(v, n)
  /\ addr'  = Advanced(n)
  /\ latch' = NoByte
  /\ UNCHANGED regs

InData ==
  /\ addr' = Advanced(1) /\ latch' = NoByte
  /\ UNCHANGED <<regs, mem, drawn>>

Content == IF addr \in Cells THEN mem[addr] ELSE 0

\* timer_acknowledge
Acknowledged == NoByte

----------------------------------------------------------------------------
(* The tasks *)

\* The running task's next port access.
Access(t) ==
  /\ running = t /\ todo[t] # <<>>
  /\ todo' = [todo EXCEPT ![t] = Tail(@)]
  /\ LET next == Head(todo[t]) IN
       \/ next.op = "control" /\ OutControl(next.value) /\ UNCHANGED <<mem, drawn, saved>>
       \/ next.op = "data"    /\ OutData(t, next.value, next.n) /\ UNCHANGED saved
       \/ next.op = "restore" /\ OutData(t, saved, 1) /\ UNCHANGED saved
       \/ next.op = "read"    /\ InData /\ UNCHANGED saved
       \/ next.op = "save"    /\ InData /\ saved' = Content
  /\ UNCHANGED <<running, gchkVars, stop>>

Begin(t, accesses) ==
  /\ running = t /\ todo[t] = <<>>
  /\ todo' = [todo EXCEPT ![t] = accesses]
  /\ UNCHANGED <<chipVars, running, saved, stop, drawn>>

\* activity_indicator_draw_phase
Draw(glyph) == Begin("indicator", Fill(DrawnCell, 1, glyph)) /\ UNCHANGED gchkVars

Test(cell) == Begin("vchk", TestAt(cell)) /\ UNCHANGED gchkVars

Gchk(from, to, accesses) == at = from /\ at' = to /\ Begin("gchk", accesses)

\* main_gchk: the first reset, one of the patterns drawn masked, and a wait
GchkBegins   == Gchk("start", "pattern", InitScreen1) /\ UNCHANGED <<color, waited>>
GchkPattern  == Gchk("pattern", "wait", Fill(DrawnCell, 1, 1)) /\ waited' = FALSE /\ UNCHANGED color
\* gchk_pattern_borders, before its loop and in it
BlankGrid    == Fill(6144, 768, 0) \o Fill(SpriteAttr, 4, 208)
GchkBorder   == Gchk("border", "wait", RegisterWrite(240 + color, 7)) /\ waited' = FALSE /\ UNCHANGED color
\* gchk_wait_ticks has waited
GchkNext ==
  /\ waited
  /\ \/ /\ color < Colors
        /\ Gchk("wait", "border", IF color = 0 THEN BlankGrid ELSE <<>>)
        /\ color' = color + 1
     \/ color = Colors /\ Gchk("wait", "sprite", <<>>) /\ UNCHANGED color
  /\ UNCHANGED waited
\* gchk_wait_ticks is cut short, or the check after the borders
GchkStopped  ==
  /\ stop
  /\ Gchk("wait", "finish", <<>>) \/ Gchk("sprite", "finish", <<>>)
  /\ UNCHANGED <<color, waited>>
\* gchk_pattern_sprite: the sprite is placed, moves, and the pattern is over
GchkSprite ==
  /\ \/ Gchk("sprite", "slide", Fill(SpriteAttr, 4, 100))
     \/ Gchk("slide", "slide", Fill(SpriteAttr + 1, 1, 0))
     \/ Gchk("slide", "finish", <<>>)
  /\ UNCHANGED <<color, waited>>

\* Mutant: the last color stays.
FinishMutant == <<>>

\* gchk_reset_screen
Finish == InitScreen1

GchkFinishes == Gchk("finish", "exit", Finish) /\ UNCHANGED <<color, waited>>

\* rtos_task_request_stop, from a task that runs.
RequestStop ==
  /\ running # "gchk" /\ ~stop /\ stop' = TRUE
  /\ UNCHANGED <<chipVars, running, todo, saved, gchkVars, drawn>>

\* The timer interrupt, and the task that is resumed.
Tick(t) ==
  /\ ~Masked(running)
  /\ latch'   = Acknowledged
  /\ running' = t
  /\ waited'  = (waited \/ (at = "wait" /\ todo["gchk"] = <<>>))
  /\ UNCHANGED <<regs, mem, addr, todo, saved, at, color, stop, drawn>>

Next ==
  \/ \E t \in Tasks : Access(t) \/ Tick(t)
  \/ \E glyph \in Glyphs : Draw(glyph)
  \/ \E cell \in Cells : Test(cell)
  \/ GchkBegins \/ GchkPattern \/ GchkBorder \/ GchkNext \/ GchkStopped
  \/ GchkSprite \/ GchkFinishes
  \/ RequestStop

Spec == Init /\ [][Next]_vars

----------------------------------------------------------------------------
Byte == 0 .. 255

Accesses == [op : {"control", "data", "read", "save", "restore"}, value : Byte,
             to : 0 .. MemSize - 1, n : 0 .. 2048]

TypeOK ==
  /\ regs \in [0 .. 7 -> Byte] /\ mem \in [Cells -> Byte] /\ drawn \in [Cells -> Byte]
  /\ addr \in 0 .. MemSize - 1 /\ latch \in Byte \cup {NoByte}
  /\ running \in Tasks /\ todo \in [Tasks -> Seq(Accesses)]
  /\ saved \in Byte /\ stop \in BOOLEAN
  /\ at \in {"start", "pattern", "wait", "border", "sprite", "slide", "finish", "exit"}
  /\ color \in 0 .. Colors /\ waited \in BOOLEAN

\* What the indicator and vchk read and write goes to the address they set,
\* wherever they were switched in and whatever access of another task the
\* tick came after (activity_indicator.c:56-65, main_vchk.c:150-164).
DataLandsRight ==
  running # "gchk" /\ todo[running] # <<>> /\ Head(todo[running]).op # "control" =>
    latch = NoByte /\ addr = Head(todo[running]).to

\* vchk puts every byte back: between two tests the memory is what it would
\* be without it, drawing of the others included (main_vchk.c:150-164).
VchkIsTransparent == todo["vchk"] = <<>> => mem = drawn

Restored == \A r \in 0 .. 7 : regs[r] = Screen1[r + 1]

GchkGone == at = "exit" /\ todo["gchk"] = <<>>

\* A gchk that waited at least one tick after its last border color, or
\* had not come to the borders, leaves the registers as boot.c does.
WaitedRunRestores == (GchkGone /\ (waited \/ color = 0)) => Restored

\* What main_gchk.c:91-95 and :276-278 say: every exit path leaves the VDP
\* in its boot-time state, also when gchk is cancelled in mid-pattern.
EveryExitRestores == GchkGone => Restored
=============================================================================
