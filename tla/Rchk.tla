-------------------------------- MODULE Rchk --------------------------------
(***************************************************************************)
(* The memory check (src/src/rchk): main_rchk walks the entries of the     *)
(* target manifest and has each tested in chunks by a stub (rchk.s), which *)
(* is copied to a trampoline in RAM.  With interrupts masked the stub maps *)
(* the slot under test into the page of the entry, writes and reads back   *)
(* every byte, and maps the old slot again.  Whatever it touches after the *)
(* switch must lie in a page that did not move.  The copy and the stack of *)
(* the stub are themselves writes to memory that is mapped, at places that *)
(* the target manifest chooses and nothing compares with what is there.    *)
(*                                                                         *)
(* A cell is a byte of a page of a slot.  An address is a page and an      *)
(* offset; the offsets of an entry are already cut to 14 bits.             *)
(***************************************************************************)
EXTENDS Integers, Sequences

CONSTANTS
  Slots,      \* 0 .. 3
  PageSize,   \* 0x4000
  ChunkMax,   \* RCHK_CHUNK_MAX, 255
  Home,       \* BOOT_PSR_VALUE: the slot each page is mapped to
  DataPage,   \* ADDR_DATA >> 14, the page of all variables
  Data,       \* the offsets there of what the linker puts into _DATA
  CodePages,  \* the pages of _CODE, where the stub calls _rchk_record_fail
  Places,     \* where RCHK_EXEC_ADDR and RCHK_SAFE_SP put the stub and its
              \* stack, and where their RCHK_ALT_ fellows do
  Manifests,  \* the lists of entries that g_rchk_tests may be
  Bad         \* the cells that do not read back what was written

Pages   == 0 .. 3
Offsets == 0 .. PageSize - 1
Cells   == [slot : Slots, page : Pages, off : Offsets]
Entries == [page : Pages, slot : Slots, lo : Offsets, hi : Offsets, off : Offsets, len : Nat]

Trampolines == [exec : Pages, copy : SUBSET Offsets, sp : Pages, stack : SUBSET Offsets]

\* The page of the first trampoline.
Exec == Places[1].exec

\* Some entry has to wait for the second trampoline.
Relocates(list) == \E i \in 1 .. Len(list) : list[i].page = Exec

\* The Makefile refuses two trampolines on one page when both are used.
ASSUME RchkAssumption ==
  /\ PageSize \in Nat \ {0} /\ ChunkMax \in Nat \ {0}
  /\ Home \in [Pages -> Slots]
  /\ DataPage \in Pages /\ Data \subseteq Offsets /\ CodePages \subseteq Pages
  /\ Places \in [{1, 2} -> Trampolines]
  /\ Manifests \subseteq Seq(Entries)
  /\ \A list \in Manifests : Relocates(list) => Places[2].exec # Exec
  /\ Bad \subseteq Cells

VARIABLES
  tests,        \* g_rchk_tests
  safe,         \* g_rchk_safe_mode
  pc,           \* "entry", "chunk", "mapped" (inside the stub), "done" or "lost"
  pass,         \* which pass of main_rchk over the entries, 1 or 2
  at,           \* the entry it has come to
  deferred,     \* deferred_pending
  base,         \* chunk_base, its offset in the page
  todo,         \* remaining
  failed,       \* failed_chunks
  psr,          \* the slot register, as the slot of each page
  psr_old,      \* g_rchk_psr_old
  tested,       \* history: the cells tested for this entry
  overwritten,  \* history: the cells that lost what they held
  stop          \* stop_flag of the task

progress == <<base, todo, failed, tested>>
vars == <<tests, safe, pc, pass, at, deferred, progress, psr, psr_old, overwritten, stop>>

Init ==
  /\ tests \in Manifests /\ safe \in BOOLEAN
  /\ pc = "entry" /\ pass = 1 /\ at = 1 /\ deferred = FALSE
  /\ base = 0 /\ todo = 0 /\ failed = 0 /\ tested = {}
  /\ psr = Home /\ psr_old = Home
  /\ overwritten = {} /\ stop = FALSE

Entry == tests[at]

----------------------------------------------------------------------------
(* main_rchk, and rchk_run_one up to its loop *)

\* Mutant: every entry runs in the first pass.
DuesMutant(e) == pass = 1

\* The entries on the page of the trampoline wait for the second pass.
Due(e) == (pass = 1) = (e.page # Exec)

WellFormed(e) == e.lo <= e.off /\ e.off <= e.hi

\* Mutant: one byte too many when the length is to be cut.
SpanMutant(e) ==
  LET most == e.hi - e.off + 2 IN IF e.len = 0 \/ e.len > most THEN most ELSE e.len

\* req_len
Span(e) ==
  LET most == e.hi - e.off + 1 IN IF e.len = 0 \/ e.len > most THEN most ELSE e.len

\* Mutant: nothing is refused.
RefusedMutant(e) == FALSE

\* unsafe-same-slot
Refused(e) == ~safe /\ psr[e.page] = e.slot

Begin ==
  /\ pc = "entry" /\ ~stop /\ at <= Len(tests)
  /\ Due(Entry) /\ WellFormed(Entry) /\ ~Refused(Entry)
  /\ pc' = "chunk"
  /\ base' = Entry.off /\ todo' = Span(Entry) /\ failed' = 0 /\ tested' = {}
  /\ psr_old' = psr
  /\ UNCHANGED <<tests, safe, pass, at, deferred, psr, overwritten, stop>>

Skip ==
  /\ pc = "entry" /\ ~stop /\ at <= Len(tests)
  /\ Due(Entry) => ~WellFormed(Entry) \/ Refused(Entry)
  /\ deferred' = (deferred \/ ~Due(Entry))
  /\ at' = at + 1
  /\ UNCHANGED <<tests, safe, pc, pass, progress, psr, psr_old, overwritten, stop>>

\* The second pass is made from the other trampoline.
EndPass ==
  /\ pc = "entry" /\ (stop \/ at > Len(tests))
  /\ IF pass = 1 /\ deferred /\ ~stop
     THEN pass' = 2 /\ at' = 1 /\ UNCHANGED pc
     ELSE pc' = "done" /\ UNCHANGED <<pass, at>>
  /\ UNCHANGED <<tests, safe, deferred, progress, psr, psr_old, overwritten, stop>>

----------------------------------------------------------------------------
(* One chunk: rchk_prepare_chunk and rchk_run *)

\* Where the stub and its stack are, g_rchk_exec_addr and g_rchk_safe_sp.
Place == Places[pass]

\* The bytes that the copy of the stub and its pushes fill: psr_old, and
\* below it, counted with it, the return address from _rchk_record_fail.
Filled(mapping, place) ==
  {[slot |-> mapping[place.exec], page |-> place.exec, off |-> off] : off \in place.copy}
  \cup {[slot |-> mapping[place.sp], page |-> place.sp, off |-> off] : off \in place.stack}

\* The stub is copied, and the copy runs up to its first OUT.
Switch ==
  /\ pc = "chunk" /\ todo > 0 /\ ~stop
  /\ pc' = "mapped"
  /\ overwritten' = overwritten \cup Filled(psr, Place)
  /\ psr' = [psr EXCEPT ![Entry.page] = Entry.slot]
  /\ UNCHANGED <<tests, safe, pass, at, deferred, progress, psr_old, stop>>

ChunkLen == IF todo > ChunkMax THEN ChunkMax ELSE todo

\* Past the end of a page the next one begins.
CellAt(page, off) ==
  IF off < PageSize
  THEN [slot |-> psr[page], page |-> page, off |-> off]
  ELSE LET next == (page + 1) % 4
       IN  [slot |-> psr[next], page |-> next, off |-> off - PageSize]

\* Mutant: the loop ends at the first byte that fails, as it once did.
ChunkMutant ==
  {CellAt(Entry.page, off) :
     off \in {o \in base .. base + ChunkLen - 1 :
                \A before \in base .. o - 1 : CellAt(Entry.page, before) \notin Bad}}

Chunk == {CellAt(Entry.page, off) : off \in base .. base + ChunkLen - 1}
Fails == Chunk \cap Bad

Stays(page) == psr[page] = psr_old[page]

\* After the switch the stub runs on from its copy, with its stack there,
\* and for the second OUT it reads g_rchk_psr_port; for a byte that fails
\* it calls into the code.
Survives ==
  /\ Stays(Place.exec) /\ Stays(Place.sp) /\ Stays(DataPage)
  /\ Fails # {} => \A page \in CodePages : Stays(page)

\* What the linker has placed: variables and the stacks of the tasks.
Linked == {[slot |-> Home[DataPage], page |-> DataPage, off |-> off] : off \in Data}

\* A trampoline lies in memory that is good and that nothing else uses.
WellPlaced(place) == Filled(Home, place) \cap (Bad \cup Linked) = {}

\* The value popped for the second OUT.
Restored == psr_old

TestChunk ==
  /\ pc = "mapped" /\ Survives
  /\ pc' = "chunk"
  /\ tested' = tested \cup Chunk
  /\ overwritten' = IF safe THEN overwritten ELSE overwritten \cup Chunk
  /\ failed' = IF Fails = {} THEN failed ELSE failed + 1
  /\ base' = base + ChunkLen /\ todo' = todo - ChunkLen
  /\ psr' = Restored
  /\ UNCHANGED <<tests, safe, pass, at, deferred, psr_old, stop>>

\* The stub, its stack or its variables have gone with the page, and what
\* the machine does next is up to the memory under test; or they never were
\* what they should be.
GetLost ==
  /\ pc = "mapped" /\ (~Survives \/ ~WellPlaced(Place))
  /\ pc' = "lost"
  /\ UNCHANGED <<tests, safe, pass, at, deferred, progress, psr, psr_old, overwritten, stop>>

\* rchk_emit_result
Report ==
  /\ pc = "chunk" /\ (todo = 0 \/ stop)
  /\ pc' = "entry" /\ at' = at + 1
  /\ UNCHANGED <<tests, safe, pass, deferred, progress, psr, psr_old, overwritten, stop>>

----------------------------------------------------------------------------
\* rtos_task_request_stop, from another task
RequestStop ==
  /\ pc \in {"entry", "chunk"} /\ ~stop
  /\ stop' = TRUE
  /\ UNCHANGED <<tests, safe, pc, pass, at, deferred, progress, psr, psr_old, overwritten>>

\* start rchk [safe|unsafe], once it has left
Restart ==
  /\ pc = "done"
  /\ pc' = "entry" /\ safe' \in BOOLEAN
  /\ pass' = 1 /\ at' = 1 /\ deferred' = FALSE /\ stop' = FALSE
  /\ UNCHANGED <<tests, progress, psr, psr_old, overwritten>>

Next ==
  \/ Begin \/ Skip \/ EndPass
  \/ Switch \/ TestChunk \/ GetLost \/ Report
  \/ RequestStop \/ Restart

Spec == Init /\ [][Next]_vars

----------------------------------------------------------------------------
TypeOK ==
  /\ tests \in Manifests /\ safe \in BOOLEAN /\ deferred \in BOOLEAN /\ stop \in BOOLEAN
  /\ pc \in {"entry", "chunk", "mapped", "done", "lost"}
  /\ pass \in {1, 2} /\ at \in Nat \ {0}
  /\ base \in Nat /\ todo \in Nat /\ failed \in Nat
  /\ psr \in [Pages -> Slots] /\ psr_old \in [Pages -> Slots]
  /\ tested \subseteq Cells /\ overwritten \subseteq Cells

\* The trampolines that a list makes use of.
Used(list) == IF Relocates(list) THEN {1, 2} ELSE {1}

\* What a manifest must not ask for: a trampoline in bad memory or on top of
\* variables, and to move the page of the variables, of the stack of the
\* stub, or of the code when the memory there is not good.
Sound(list) ==
  /\ \A n \in Used(list) : WellPlaced(Places[n])
  /\ \A i \in 1 .. Len(list) :
       LET e == list[i] IN
       Home[e.page] # e.slot =>
         /\ e.page # DataPage
         /\ e.page # Places[IF e.page = Exec THEN 2 ELSE 1].sp
         /\ e.page \in CodePages => \A c \in Bad : c.slot = e.slot => c.page # e.page

\* Whenever interrupts are enabled the slots are those of boot, and with a
\* sound manifest the stub always comes back: the relocation keeps code and
\* stack off the page under test in both passes (main_rchk.c:293-316,
\* rchk.s:64-118).
ComesBack ==
  /\ pc \notin {"mapped", "lost"} => psr = Home
  /\ Sound(tests) => pc # "lost"

\* Whatever lengths and offsets the manifest has, and however they fall
\* into chunks, only bytes of the window of the entry, in the slot of the
\* entry, are written (main_rchk.c:197-214, 235-258).
StaysInWindow ==
  pc \in {"chunk", "mapped"} =>
    \A c \in tested : c.slot = Entry.slot /\ c.page = Entry.page /\ c.off \in Entry.lo .. Entry.hi

\* The result line says OK only when no byte tested has failed, and unless
\* the task was stopped every byte of the range it names was tested
\* (main_rchk.c:235-263).
ReportIsTrue ==
  pc = "chunk" =>
    /\ failed = 0 <=> tested \cap Bad = {}
    /\ todo = 0 => \A off \in Entry.off .. Entry.off + Span(Entry) - 1 :
                     [slot |-> Entry.slot, page |-> Entry.page, off |-> off] \in tested

\* Of the bytes that the running system can see, only those that the manifest
\* gives to the trampolines lose their contents, those of the second one only
\* when an entry waits for it: safe mode puts everything else back, and unsafe
\* mode is refused on a slot that is mapped (main_rchk.c:225-230, rchk.s:29-108,
\* ram.s:13-32).  So no variable is lost if the manifest is sound; nothing in
\* the code makes it so.
LiveBytesKept ==
  /\ \A c \in overwritten :
       Home[c.page] = c.slot => \E n \in Used(tests) : c \in Filled(Home, Places[n])
  /\ Sound(tests) => overwritten \cap Linked = {}

\* What main_rchk.c:144-148 infers for the second trampoline from its being on
\* the home slot, that "nothing about the system is left in a different state
\* afterwards", put for the variables: it does not follow for either.
VariablesKept == overwritten \cap Linked = {}

\* What Makefile:137-143 and main_rchk.c:299-303 say of entries on the page of
\* the trampoline, and targets/vg-8010.mk:43-46 of the failures on page 2:
\* once the trampoline is elsewhere, every page can be tested, and nothing in
\* software stands against it.
AnyPageCanBeTested == pc # "lost"

=============================================================================
