----------------------------- MODULE RchkProofs -----------------------------
(***************************************************************************)
(* The properties of Rchk for every manifest, page size and chunk size,    *)
(* every layout of code, variables and trampolines, and any bad bytes.     *)
(*                                                                         *)
(* The slots are those of boot except inside the stub, where one page has  *)
(* moved (Mapping).  What has been tested is at every chunk the part of    *)
(* the range below chunk_base (Progress), so the last chunk can neither    *)
(* pass the end of the window nor leave a byte out.  A byte in use that is *)
(* overwritten lies under a trampoline that some entry needs (OnlyFilled), *)
(* the second one only once an entry has been put off (Relocated).         *)
(***************************************************************************)
EXTENDS Rchk, TLAPS

Running == pc \in {"chunk", "mapped"}

Moved(e) == [Home EXCEPT ![e.page] = e.slot]

\* Which slot each page is mapped to.
Mapping ==
  /\ psr_old = Home
  /\ pc \in {"entry", "chunk", "done"} => psr = Home
  /\ pc = "mapped" => psr = Moved(Entry)

\* The entry that is being tested is one that may be.
Admitted ==
  Running =>
    /\ at \in 1 .. Len(tests)
    /\ WellFormed(Entry) /\ Due(Entry)
    /\ ~safe => Home[Entry.page] # Entry.slot

Byte(e, off) == [slot |-> e.slot, page |-> e.page, off |-> off]

\* What has been tested of it.
Progress ==
  Running =>
    /\ base >= Entry.off /\ base + todo = Entry.off + Span(Entry)
    /\ tested = {Byte(Entry, off) : off \in Entry.off .. base - 1}
    /\ failed = 0 <=> tested \cap Bad = {}
    /\ pc = "mapped" => todo > 0

NotLost == Sound(tests) => pc # "lost"

\* The second trampoline is in use only for an entry that waits for it.
Relocated == pass = 2 => deferred
Deferring == deferred => Relocates(tests)

\* The first part of LiveBytesKept, from which the second follows.
OnlyFilled ==
  \A c \in overwritten :
    Home[c.page] = c.slot => \E n \in Used(tests) : c \in Filled(Home, Places[n])

IInv ==
  /\ TypeOK /\ Mapping /\ Admitted /\ Progress /\ NotLost
  /\ Relocated /\ Deferring /\ OnlyFilled

----------------------------------------------------------------------------
(* Entries and chunks *)

LEMMA EntryTyped ==
  ASSUME TypeOK, at \in 1 .. Len(tests)
  PROVE  Entry \in Entries
<1>1. tests \in Seq(Entries)
  BY RchkAssumption DEF TypeOK
<1>2. QED
  BY <1>1 DEF Entry

\* The length that is tested is positive and ends inside the window.
LEMMA SpanFits ==
  ASSUME NEW e \in Entries, WellFormed(e)
  PROVE  /\ Span(e) \in Nat \ {0}
         /\ e.off \in Nat /\ e.off >= e.lo /\ e.off + Span(e) <= e.hi + 1
         /\ e.hi < PageSize
  BY RchkAssumption DEF Entries, Offsets, WellFormed, Span

LEMMA ChunkLenFits ==
  ASSUME TypeOK, todo > 0
  PROVE  ChunkLen \in 1 .. todo
  BY RchkAssumption DEF TypeOK, ChunkLen

\* Inside the stub, the chunk is a run of bytes of the slot under test; it
\* does not reach the next page.
LEMMA ChunkIsRun ==
  ASSUME IInv, pc = "mapped"
  PROVE  Chunk = {Byte(Entry, off) : off \in base .. base + ChunkLen - 1}
<1>1. Entry \in Entries /\ WellFormed(Entry) /\ todo > 0
  BY EntryTyped DEF IInv, Admitted, Progress, Running
<1>2. ChunkLen \in 1 .. todo /\ base \in Nat /\ todo \in Nat
  BY <1>1, ChunkLenFits DEF IInv, TypeOK
<1>3. base + todo <= PageSize
  <2>1. base + todo = Entry.off + Span(Entry)
    BY DEF IInv, Progress, Running
  <2>2. Entry.off + Span(Entry) <= PageSize
    BY <1>1, SpanFits, RchkAssumption DEF Entries, Offsets
  <2>3. QED
    BY <2>1, <2>2
<1>4. Entry.page \in Pages /\ psr[Entry.page] = Entry.slot
  BY <1>1, RchkAssumption DEF IInv, Mapping, Moved, Entries
<1>5. \A off \in base .. base + ChunkLen - 1 : CellAt(Entry.page, off) = Byte(Entry, off)
  <2> SUFFICES ASSUME NEW off \in base .. base + ChunkLen - 1
               PROVE  CellAt(Entry.page, off) = Byte(Entry, off)
    OBVIOUS
  <2>1. off < PageSize
    BY <1>2, <1>3, RchkAssumption
  <2>2. QED
    BY <1>4, <2>1 DEF CellAt, Byte
<1>6. QED
  BY <1>5 DEF Chunk

\* The trampoline in use is one that the manifest has a use for.
LEMMA PlaceIsUsed ==
  ASSUME IInv
  PROVE  pass \in Used(tests) /\ pass \in {1, 2}
  BY DEF IInv, TypeOK, Relocated, Deferring, Used

LEMMA PlaceTyped ==
  ASSUME IInv
  PROVE  Place \in Trampolines /\ Place.exec \in Pages /\ Place.sp \in Pages
<1>1. Place \in Trampolines
  BY PlaceIsUsed, RchkAssumption DEF Place
<1>2. QED
  BY <1>1 DEF Trampolines

\* The copy and the stack are cells.
LEMMA FilledTyped ==
  ASSUME IInv, psr = Home
  PROVE  Filled(psr, Place) \subseteq Cells
<1>1. /\ Place.exec \in Pages /\ Place.sp \in Pages
      /\ Place.copy \subseteq Offsets /\ Place.stack \subseteq Offsets
  BY PlaceTyped DEF Trampolines
<1>2. \A page \in Pages : psr[page] \in Slots
  BY RchkAssumption
<1>3. QED
  BY <1>1, <1>2 DEF Filled, Cells

\* With a sound manifest, everything the stub needs stays where it was.
LEMMA SoundSurvives ==
  ASSUME IInv, pc = "mapped", Sound(tests)
  PROVE  Survives /\ WellPlaced(Place)
<1>0. WellPlaced(Place)
  BY PlaceIsUsed DEF Sound, Place
<1>1. Entry \in Entries /\ Due(Entry) /\ at \in 1 .. Len(tests)
  BY EntryTyped DEF IInv, Admitted, Running
<1>2. psr = Moved(Entry) /\ psr_old = Home
  BY DEF IInv, Mapping
<1>3. \A page \in Pages : page # Entry.page => Stays(page)
  BY <1>2, RchkAssumption DEF Stays, Moved
<1>4. Home[Entry.page] = Entry.slot => \A page \in Pages : Stays(page)
  BY <1>2, <1>1, RchkAssumption DEF Stays, Moved, Entries
<1>5. Stays(Place.exec)
  <2>1. CASE pass = 1
    <3>1. Place.exec = Exec /\ Exec # Entry.page
      BY <1>1, <2>1 DEF Place, Exec, Due
    <3>2. QED
      BY <1>3, <3>1, PlaceTyped
  <2>2. CASE pass = 2
    <3>1. Entry.page = Exec
      BY <1>1, <2>2 DEF Due
    <3>2. Relocates(tests)
      BY <1>1, <3>1 DEF Relocates, Entry
    <3>3. Place.exec # Exec
      BY <2>2, <3>2, RchkAssumption DEF Place, IInv, TypeOK
    <3>4. QED
      BY <1>3, <3>1, <3>3, PlaceTyped
  <2>3. QED
    BY <2>1, <2>2, PlaceIsUsed
<1>6. CASE Home[Entry.page] = Entry.slot
  BY <1>0, <1>4, <1>5, <1>6, PlaceTyped, RchkAssumption DEF Survives
<1>7. CASE Home[Entry.page] # Entry.slot
  <2>1. /\ Entry.page # DataPage
        /\ Entry.page # Places[IF Entry.page = Exec THEN 2 ELSE 1].sp
        /\ Entry.page \in CodePages => \A c \in Bad : c.slot = Entry.slot => c.page # Entry.page
    BY <1>1, <1>7 DEF Sound, Entry
  <2>2. Stays(DataPage)
    BY <2>1, <1>3, RchkAssumption
  <2>3. ASSUME Fails # {}
        PROVE  Entry.page \notin CodePages
    <3>1. PICK c \in Fails : TRUE
      BY <2>3
    <3>2. c \in Bad /\ c.slot = Entry.slot /\ c.page = Entry.page
      BY <3>1, ChunkIsRun DEF Fails, Byte
    <3>3. QED
      BY <2>1, <3>2
  <2>4. Fails # {} => \A page \in CodePages : Stays(page)
    BY <2>3, <1>3, RchkAssumption
  <2>5. Stays(Place.sp)
    <3>1. pass = IF Entry.page = Exec THEN 2 ELSE 1
      BY <1>1, PlaceIsUsed DEF Due
    <3>2. Entry.page # Place.sp
      BY <2>1, <3>1 DEF Place
    <3>3. QED
      BY <1>3, <3>2, PlaceTyped
  <2>6. QED
    BY <1>0, <1>5, <2>2, <2>4, <2>5 DEF Survives
<1>8. QED
  BY <1>6, <1>7

----------------------------------------------------------------------------
(* The invariant *)

LEMMA InitHolds == Init => IInv
<1> SUFFICES ASSUME Init PROVE IInv
  OBVIOUS
<1>1. TypeOK
  <2>1. safe \in BOOLEAN /\ deferred \in BOOLEAN /\ stop \in BOOLEAN
    BY Zenon DEF Init
  <2>2. QED
    BY <2>1, RchkAssumption DEF Init, TypeOK
<1>2. Mapping /\ Admitted /\ Progress /\ NotLost
  BY DEF Init, Mapping, Admitted, Progress, NotLost, Running
<1>4. Relocated /\ Deferring /\ OnlyFilled
  BY DEF Init, Relocated, Deferring, OnlyFilled
<1>3. QED
  BY <1>1, <1>2, <1>4 DEF IInv

LEMMA BeginHolds ==
  ASSUME IInv, Begin
  PROVE  IInv'
<1>1. Entry \in Entries /\ WellFormed(Entry) /\ Due(Entry) /\ at \in 1 .. Len(tests)
  BY EntryTyped DEF IInv, TypeOK, Begin
<1>2. Entry' = Entry
  BY DEF Begin, Entry
<1>3. Span(Entry) \in Nat /\ Entry.off \in Nat
  BY <1>1, SpanFits
<1>4. psr = Home /\ psr_old' = Home /\ psr' = Home
  BY DEF IInv, Mapping, Begin
<1>5. TypeOK'
  BY <1>3 DEF IInv, TypeOK, Begin
<1>6. Mapping'
  BY <1>4 DEF Mapping, Begin
<1>7. Admitted'
  <2>1. ~safe => Home[Entry.page] # Entry.slot
    BY <1>4 DEF Begin, Refused
  <2>2. QED
    BY <1>1, <1>2, <2>1 DEF Admitted, Running, Begin, Due
<1>8. Progress'
  <2>1. Entry.off .. Entry.off - 1 = {}
    BY <1>3
  <2>2. {Byte(Entry, off) : off \in Entry.off .. Entry.off - 1} = {}
    BY <2>1
  <2>3. QED
    BY <1>2, <1>3, <2>2 DEF Progress, Running, Begin, Byte
<1>9. NotLost' /\ Relocated' /\ Deferring' /\ OnlyFilled'
  BY DEF IInv, NotLost, Relocated, Deferring, OnlyFilled, Begin
<1>10. QED
  BY <1>5, <1>6, <1>7, <1>8, <1>9 DEF IInv

LEMMA SwitchHolds ==
  ASSUME IInv, Switch
  PROVE  IInv'
<1>1. Entry \in Entries /\ Entry' = Entry
  BY EntryTyped DEF IInv, Admitted, Running, Switch, Entry
<1>a. psr = Home /\ overwritten' = overwritten \cup Filled(Home, Place)
  BY DEF IInv, Mapping, Switch
<1>2. TypeOK'
  <2>1. Filled(Home, Place) \subseteq Cells
    BY <1>a, FilledTyped
  <2>2. overwritten' \subseteq Cells
    BY <1>a, <2>1 DEF IInv, TypeOK
  <2>3. QED
    BY <1>1, <2>2 DEF IInv, TypeOK, Switch, Entries, progress
<1>3. Mapping'
  BY <1>1 DEF IInv, Mapping, Switch, Moved
<1>4. Admitted'
  BY <1>1 DEF IInv, Admitted, Running, Switch, Due
<1>5. Progress'
  BY <1>1 DEF IInv, Progress, Running, Switch, progress
<1>6. NotLost' /\ Relocated' /\ Deferring'
  BY DEF IInv, NotLost, Relocated, Deferring, Switch
<1>7. OnlyFilled'
  <2>1. \A c \in Filled(Home, Place) : \E n \in Used(tests) : c \in Filled(Home, Places[n])
    BY PlaceIsUsed DEF Place
  <2>2. tests' = tests
    BY DEF Switch
  <2>3. QED
    BY <1>a, <2>1, <2>2 DEF IInv, OnlyFilled
<1>8. QED
  BY <1>2, <1>3, <1>4, <1>5, <1>6, <1>7 DEF IInv

LEMMA TestChunkHolds ==
  ASSUME IInv, TestChunk
  PROVE  IInv'
<1>1. /\ Entry \in Entries /\ Entry' = Entry /\ WellFormed(Entry)
      /\ base \in Nat /\ todo \in Nat /\ failed \in Nat
      /\ ChunkLen \in 1 .. todo /\ base >= Entry.off /\ Entry.off \in Nat
      /\ base + todo = Entry.off + Span(Entry) /\ Entry.off + Span(Entry) <= PageSize
  <2>1. Entry \in Entries /\ WellFormed(Entry)
    BY EntryTyped DEF IInv, Admitted, Running, TestChunk
  <2>2. /\ base \in Nat /\ todo \in Nat /\ failed \in Nat
        /\ todo > 0 /\ base >= Entry.off /\ base + todo = Entry.off + Span(Entry)
    BY DEF IInv, TypeOK, Progress, Running, TestChunk
  <2>3. Entry.off \in Nat /\ Entry.off + Span(Entry) <= PageSize
    BY <2>1, SpanFits, RchkAssumption DEF Entries, Offsets
  <2>4. ChunkLen \in 1 .. todo
    BY <2>2, ChunkLenFits DEF IInv
  <2>5. Entry' = Entry
    BY DEF TestChunk, Entry
  <2>6. QED
    BY <2>1, <2>2, <2>3, <2>4, <2>5
<1>2. Chunk = {Byte(Entry, off) : off \in base .. base + ChunkLen - 1}
  BY ChunkIsRun DEF TestChunk
<1>3. Chunk \subseteq Cells
  <2>1. \A off \in base .. base + ChunkLen - 1 : off \in Offsets
    BY <1>1, RchkAssumption DEF Offsets
  <2>2. ASSUME NEW off \in Offsets
        PROVE  Byte(Entry, off) \in Cells
    <3>1. Entry.slot \in Slots /\ Entry.page \in Pages
      BY <1>1 DEF Entries
    <3>2. QED
      BY <3>1 DEF Byte, Cells
  <2>3. QED
    BY <1>2, <2>1, <2>2
<1>4. psr' = Home /\ psr_old' = Home
  BY DEF IInv, Mapping, TestChunk, Restored
<1>5. TypeOK'
  <2>1. overwritten' \subseteq Cells /\ tested' \subseteq Cells
    BY <1>3 DEF IInv, TypeOK, TestChunk
  <2>2. failed' \in Nat /\ base' \in Nat /\ todo' \in Nat
    BY <1>1 DEF TestChunk
  <2>3. QED
    BY <1>4, <2>1, <2>2, RchkAssumption DEF IInv, TypeOK, TestChunk
<1>6. Mapping'
  BY <1>4 DEF Mapping, TestChunk
<1>7. Admitted'
  BY <1>1 DEF IInv, Admitted, Running, TestChunk, Due
<1>8. Progress'
  <2>1. base' >= Entry.off /\ base' + todo' = Entry.off + Span(Entry)
    BY <1>1, SpanFits DEF TestChunk
  <2>2. tested' = {Byte(Entry, off) : off \in Entry.off .. base' - 1}
    <3>1. tested = {Byte(Entry, off) : off \in Entry.off .. base - 1}
      BY DEF IInv, Progress, Running, TestChunk
    <3>2. Entry.off .. base + ChunkLen - 1 = (Entry.off .. base - 1) \cup (base .. base + ChunkLen - 1)
      BY <1>1
    <3>3. tested' = tested \cup Chunk /\ base' = base + ChunkLen
      BY DEF TestChunk
    <3>4. Entry.off .. base' - 1 = (Entry.off .. base - 1) \cup (base .. base + ChunkLen - 1)
      BY <1>1, <3>2, <3>3
    <3>5. tested' = {Byte(Entry, off) : off \in Entry.off .. base - 1}
                    \cup {Byte(Entry, off) : off \in base .. base + ChunkLen - 1}
      BY <1>2, <3>1, <3>3
    <3>6. QED
      BY <3>4, <3>5
  <2>3. failed' = 0 <=> tested' \cap Bad = {}
    <3>1. failed = 0 <=> tested \cap Bad = {}
      BY DEF IInv, Progress, Running, TestChunk
    <3>2. tested' \cap Bad = (tested \cap Bad) \cup Fails
      BY DEF TestChunk, Fails
    <3>3. CASE Fails = {}
      BY <3>1, <3>2, <3>3 DEF TestChunk
    <3>4. CASE Fails # {}
      <4>1. failed' # 0
        BY <1>1, <3>4 DEF TestChunk
      <4>2. QED
        BY <3>2, <3>4, <4>1
    <3>5. QED
      BY <3>3, <3>4
  <2>4. pc' = "chunk"
    BY DEF TestChunk
  <2>5. QED
    BY <1>1, <2>1, <2>2, <2>3, <2>4 DEF Progress, Running
<1>9. OnlyFilled'
  <2>1. ~safe => \A c \in Chunk : Home[c.page] # c.slot
    BY <1>2 DEF IInv, Admitted, Running, TestChunk, Byte
  <2>2. QED
    BY <2>1 DEF IInv, OnlyFilled, TestChunk
<1>10. NotLost' /\ Relocated' /\ Deferring'
  BY DEF IInv, NotLost, Relocated, Deferring, TestChunk
<1>11. QED
  BY <1>5, <1>6, <1>7, <1>8, <1>9, <1>10 DEF IInv

\* The steps that leave the memory and the range alone.
LEMMA OtherStepsHold ==
  ASSUME IInv, Skip \/ EndPass \/ GetLost \/ Report \/ RequestStop \/ Restart \/ UNCHANGED vars
  PROVE  IInv'
<1>1. CASE Skip
  <2>1. (deferred \/ ~Due(Entry)) \in BOOLEAN
    BY Zenon
  <2>2. TypeOK'
    BY <1>1, <2>1 DEF IInv, TypeOK, Skip, progress
  <2>3. Relocated' /\ Deferring'
    <3>1. Relocated' /\ tests' = tests
      BY <1>1 DEF IInv, Relocated, Skip
    <3>2. CASE deferred \/ Due(Entry)
      BY <1>1, <3>1, <3>2 DEF IInv, Deferring, Skip
    <3>3. CASE pass = 2
      BY <1>1, <3>1, <3>3 DEF IInv, Relocated, Deferring, Skip
    <3>4. CASE pass = 1 /\ ~Due(Entry)
      <4>1. at \in 1 .. Len(tests) /\ tests[at].page = Exec
        BY <1>1, <3>4 DEF IInv, TypeOK, Skip, Due, Entry
      <4>2. Relocates(tests)
        BY <4>1 DEF Relocates
      <4>3. QED
        BY <3>1, <4>2 DEF Deferring
    <3>5. QED
      BY <3>2, <3>3, <3>4 DEF IInv, TypeOK
  <2>4. Mapping' /\ Admitted' /\ Progress' /\ NotLost' /\ OnlyFilled'
    BY <1>1 DEF IInv, Mapping, Admitted, Progress, Running, NotLost, OnlyFilled, Skip
  <2>5. QED
    BY <2>2, <2>3, <2>4 DEF IInv
<1>2. CASE EndPass
  <2>1. TypeOK'
    BY <1>2 DEF IInv, TypeOK, EndPass, progress
  <2>2. QED
    BY <1>2, <2>1 DEF IInv, Mapping, Admitted, Progress, Running, NotLost, Relocated, Deferring, OnlyFilled, EndPass
<1>3. CASE GetLost
  <2>1. ~Sound(tests)
    BY <1>3, SoundSurvives DEF GetLost
  <2>2. TypeOK'
    BY <1>3 DEF IInv, TypeOK, GetLost, progress
  <2>3. NotLost'
    BY <1>3, <2>1 DEF NotLost, GetLost, Sound
  <2>4. QED
    BY <1>3, <2>2, <2>3 DEF IInv, Mapping, Admitted, Progress, Running, Relocated, Deferring, OnlyFilled, GetLost
<1>4. CASE Report
  <2>1. TypeOK'
    BY <1>4 DEF IInv, TypeOK, Report, progress
  <2>2. QED
    BY <1>4, <2>1 DEF IInv, Mapping, Admitted, Progress, Running, NotLost, Relocated, Deferring, OnlyFilled, Report
<1>5. CASE RequestStop
  <2>1. stop' \in BOOLEAN
    BY <1>5, Zenon DEF RequestStop
  <2>2. TypeOK'
    BY <1>5, <2>1 DEF IInv, TypeOK, RequestStop, progress
  <2>3. Mapping' /\ Admitted' /\ Progress'
    BY <1>5 DEF IInv, Mapping, Admitted, Progress, Running, RequestStop, progress, Entry, Moved, Due
  <2>4. NotLost' /\ Relocated' /\ Deferring' /\ OnlyFilled'
    BY <1>5 DEF IInv, NotLost, Relocated, Deferring, OnlyFilled, RequestStop
  <2>5. QED
    BY <2>2, <2>3, <2>4 DEF IInv
<1>6. CASE Restart
  <2>1. safe' \in BOOLEAN /\ deferred' \in BOOLEAN /\ stop' \in BOOLEAN
    BY <1>6, Zenon DEF Restart
  <2>2. TypeOK'
    BY <1>6, <2>1 DEF IInv, TypeOK, Restart, progress
  <2>3. QED
    BY <1>6, <2>2 DEF IInv, Mapping, Admitted, Progress, Running, NotLost, Relocated, Deferring, OnlyFilled, Restart
<1>7. CASE UNCHANGED vars
  BY <1>7 DEF vars, progress, IInv, TypeOK, Mapping, Admitted, Progress, Running, NotLost,
     Relocated, Deferring, OnlyFilled, Entry, Moved, Due
<1>8. QED
  BY <1>1, <1>2, <1>3, <1>4, <1>5, <1>6, <1>7

THEOREM Inductive == Spec => []IInv
<1>1. Init => IInv
  BY InitHolds
<1>2. IInv /\ [Next]_vars => IInv'
  BY BeginHolds, SwitchHolds, TestChunkHolds, OtherStepsHold DEF Next
<1>3. QED
  BY <1>1, <1>2, PTL DEF Spec

----------------------------------------------------------------------------
(* What follows *)

\* Interrupts are enabled only under the mapping of boot, and a sound
\* manifest never loses the stub, its stack or its variables.
THEOREM StubComesBack == Spec => []ComesBack
<1>1. IInv => ComesBack
  BY DEF IInv, TypeOK, Mapping, NotLost, ComesBack
<1>2. QED
  BY <1>1, Inductive, PTL

\* Only bytes of the window, in the slot under test, are written.
THEOREM WindowIsKept == Spec => []StaysInWindow
<1>1. IInv => StaysInWindow
  <2> SUFFICES ASSUME IInv, Running, NEW c \in tested
               PROVE  c.slot = Entry.slot /\ c.page = Entry.page /\ c.off \in Entry.lo .. Entry.hi
    BY DEF StaysInWindow, Running
  <2>1. Entry \in Entries /\ WellFormed(Entry) /\ base \in Nat /\ todo \in Nat
    BY EntryTyped DEF IInv, TypeOK, Admitted
  <2>2. /\ base + todo = Entry.off + Span(Entry)
        /\ tested = {Byte(Entry, off) : off \in Entry.off .. base - 1}
    BY DEF IInv, Progress
  <2>3. base <= Entry.hi + 1
    BY <2>1, <2>2, SpanFits DEF Entries, Offsets
  <2>4. PICK off \in Entry.off .. base - 1 : c = Byte(Entry, off)
    BY <2>2
  <2>5. off \in Entry.lo .. Entry.hi
    BY <2>1, <2>3, RchkAssumption DEF WellFormed, Entries, Offsets
  <2>6. QED
    BY <2>4, <2>5 DEF Byte
<1>2. QED
  BY <1>1, Inductive, PTL

\* Of the bytes that the running system can see only those under a
\* trampoline in use are lost, and with a sound manifest no variable.
THEOREM LiveBytesAreKept == Spec => []LiveBytesKept
<1>1. IInv => LiveBytesKept
  <2> SUFFICES ASSUME IInv
               PROVE  Sound(tests) => overwritten \cap Linked = {}
    BY DEF IInv, OnlyFilled, LiveBytesKept
  <2>1. ASSUME Sound(tests), NEW c \in overwritten, c \in Linked
        PROVE  FALSE
    <3>1. Home[c.page] = c.slot
      BY <2>1 DEF Linked
    <3>2. PICK n \in Used(tests) : c \in Filled(Home, Places[n])
      BY <2>1, <3>1 DEF IInv, OnlyFilled
    <3>3. QED
      BY <2>1, <3>2 DEF Sound, WellPlaced
  <2>2. QED
    BY <2>1
<1>2. QED
  BY <1>1, Inductive, PTL

\* OK means that every byte tested was good, and without a stop that is
\* every byte of the range.
THEOREM ReportsAreTrue == Spec => []ReportIsTrue
<1>1. IInv => ReportIsTrue
  <2> SUFFICES ASSUME IInv, pc = "chunk"
               PROVE  /\ failed = 0 <=> tested \cap Bad = {}
                      /\ todo = 0 => \A off \in Entry.off .. Entry.off + Span(Entry) - 1 :
                                       Byte(Entry, off) \in tested
    BY DEF ReportIsTrue, Byte
  <2>1. /\ base + todo = Entry.off + Span(Entry)
        /\ tested = {Byte(Entry, off) : off \in Entry.off .. base - 1}
        /\ failed = 0 <=> tested \cap Bad = {}
        /\ base \in Nat /\ todo \in Nat
    BY DEF IInv, TypeOK, Progress, Running
  <2>2. ASSUME todo = 0
        PROVE  base - 1 = Entry.off + Span(Entry) - 1
    <3>1. Entry.off \in Nat /\ Span(Entry) \in Nat
      BY EntryTyped, SpanFits DEF IInv, Admitted, Running
    <3>2. QED
      BY <2>1, <2>2, <3>1
  <2>3. QED
    BY <2>1, <2>2
<1>2. QED
  BY <1>1, Inductive, PTL

=============================================================================
