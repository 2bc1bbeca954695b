# TLA+ specifications of Z-Tick

Z-Tick is a small preemptive operating system for the Z80 of an MSX: a
weighted round-robin scheduler driven by the 50 Hz interrupt of the video chip,
semaphores and queues, a heap per task, and a stack of drivers (`zbus` over
`zlink`) through which tasks talk to a host over virtual terminals.  This
directory specifies the parts of it whose correctness depends on what
happens *between* two instructions, checks them with TLC on small
instances, and proves the central invariants with TLAPS for every instance.

Source paths below are relative to the repository root.  `PROJECT.json` lists
components, runs, hazards, findings and theorems, and maps every definition to
the lines it stands for.

## 1. The system

| Component | State it keeps | Operations | Talks to |
|---|---|---|---|
| Scheduler (`src/bootstrap/rtos.c`, `rtos.s`) | `g_tasks[]` (state, weight, budget, stop flag), `g_current_task` | tick, register, unregister, exit, set weight, request stop | calls ipc, zbus and heap when a slot changes hands; called by the interrupt |
| Semaphores (`src/bootstrap/ipc.c`) | count, wait mask; per task state, `wait_obj`, `wait_status` | wait, try_wait, signal, forget a task | writes task states; `rtos_task_request_stop` writes its fields |
| Queues (`src/bootstrap/ipc.c`) | ring, head, tail, used, two semaphores | send, recv, try_send, try_recv | semaphores, three separate masked sections per operation |
| Demo programs, `start`/`stop` of the shell (`src/task_b`, `src/task_c`, `src/lib/ipc_demo.c`, `src/xsh/xsh_cmd.c`) | program counters, latched start arguments | produce, consume, start, stop | one queue, the scheduler |
| zbus (`src/drivers/zbus.c`), pipe (`src/lib/pipe.c`) | owner, two rings and polling flag per TTY; a cached TTY per task; the round-robin cursor | attach, detach, write, read, flush, tick | zlink below, tasks above, the scheduler through start and exit |
| Kernel control channel (`src/drivers/zbus.c`, `openmsx/zlink.tcl`) | the host's pending requests, JSON flags and list accumulator; the frames of an answer still to be sent | ask, ask for JSON, answer, collect fragments, reset | the task table, read inside the tick |
| zlink (`src/drivers/zlink.c`) and its host (`openmsx/zlink.tcl`) | last number per TTY; the host's pending list, its one counter, the fifo; the bytes on the way | send, poll, acknowledge, drop duplicates, find the beginning of a frame | each other through a byte port |
| Heap (`src/bootstrap/heap.c`) | list of blocks per task | malloc, free, reset | none: masked, own task only |
| VDP users (`src/lib/activity_indicator.c`, `src/vchk`, `src/gchk`, `src/drivers/vdp.*`) | the chip: registers, memory, address, the latch between two control bytes | draw, test a byte, show patterns, restore | share one chip with each other and with the interrupt, whose status read clears the latch |
| Line editor (`src/xsh/xsh.c`) | line, CR flag, pending prompt | each key, completion, prompt, tick | a TTY that may be full |
| Memory check (`src/rchk`, `src/common/ram.s`) | the slot register, the pass and entry it has come to, the chunk, a stub that is copied to a trampoline for every chunk | begin, copy and switch, test a chunk, report, stop | takes memory away from everything else while interrupts are masked |
| Registry and arguments, reports and formatting, zbridge, startup, port I/O, build | see section 7 | | |

What makes this code hard to test is one thing in many forms: **interrupts are
enabled almost everywhere**, so a tick, and after it any other task, may come
between any two sections that mask them.  Tasks may also be stopped,
unregistered and started again in the same slot at any such point.  Hence
the hazards: lost wake-ups, permits that leave with a task, state of an old
tenant found by a new one, values looked up and used later, two bytes of a port
protocol torn apart, and the liveness of everything that halts and waits for
something.  On the link, sequence numbers wrap and answers queue up behind
acknowledgements, an answer does not say which request it is for, and bytes may
be damaged.  The memory check is hard for another reason: it takes the ground
away from under its own feet, and a test of it needs the machine it may lose.

What correctness means for each component is stated as properties in its
module, each with a comment that names the code it is about.

## 2. The modules

`A -> B` means that A extends B.

```
MCScheduler -> Scheduler        SchedulerProofs -> Scheduler
MCSemaphore -> Semaphore
MCQueue  -> Queue -> Semaphore
MCKernel -> Kernel -> Queue     KernelProofs -> Kernel (queue and semaphores too)
MCZbus -> Zbus                  ZbusProofs -> Zbus
MCRchk -> Rchk                  RchkProofs -> Rchk
MCZlink -> Zlink                ZlinkProofs -> Zlink
MCHeap -> Heap                  HeapProofs -> Heap
MCControl -> Control            ControlProofs -> Control
MCVdp -> Vdp, MCXsh -> Xsh      ScreenProofs -> Vdp, Xsh
MCLink -> Link
```

By INSTANCE, with a refinement mapping, `Queue` takes `Channel`, `Kernel` takes
`Scheduler`, and `KernelProofs` takes the theorems of `SchedulerProofs`.
`ScreenProofs` extends two components that do not interact, because their proofs share
lemmas.

Two modules are abstract specifications.  `Channel` is what a queue promises: a
bounded FIFO of accepted items.  `Scheduler` is what the kernel promises its
tasks, with one waiting state and no reason for it; `Kernel`, with semaphores,
a queue and real programs, is shown to implement it.

**Scheduler.**  One action per kernel call, since each masks interrupts for
its whole length, and three for the tick: the quantum goes on, another
task gets the CPU, or nobody is READY.  `passed` is a history variable: how many
ticks each READY slot has been passed over.  Stack frames and stack painting
are left out, no decision depends on them.

**Semaphore.**  A wait is three steps (take or block; sleep; look at the
status), because the HALT loop runs with interrupts enabled; `spinning` is the
set of tasks inside that loop.  The client is the most general one.  A mask is
the set of its bits.

**Queue.**  Send and receive are take a permit (or block), touch the ring,
signal the other semaphore: three masked sections with anything in between.
The ring is indexed as in the code.  `msg` is the item a task sends, and after
a pop the one it returns with; `Channel` hands it to the same task.  `kills`
counts unregistrations inside an operation.

**Kernel.**  Scheduler and queue under `main_b`, `main_c` and the shell's
commands.  Only `g_current_task` executes.  A command is two steps, what it
looks up and what it does with it, because `xsh_cmd.c` masks nothing in
between.  `override` is the argument latched for each program (`args_b.c`,
`args_c.c`), `told` what the last start said.  A loop of the producer that
sends nothing, because its animation counter is not due, is a stuttering step.

**Zbus.**  Tasks step between the points where a tick may come; the steps of a
tick follow each other (`tx_remaining` is the local of `zbus_tick`).  The
lookup of the cached TTY and its use are two steps.  Chunked writes of
`pipe.c` and `xsh.c` retry up to 64 times; the model lets any attempt be the
last.  `life` numbers the tenants of a slot, so that a frame or a byte knows
whose it is.

**Zlink.**  Frames, not bytes.  The emulator calls the host inside the OUT
instruction, so the host's answer to a frame is in the fifo at once.  `budget`
is the frame budget of one `zlink_poll_once`.

**Link.**  The same exchange byte by byte, on a link that loses, doubles or
alters bytes.  A byte is its value, by which the ends go, and the place it was
sent in, which stands for the CRC: it tells a frame from bytes that only look
like one.  The values are few, so that numbers, CRCs and payloads often look
like a start or a length.  Only the kinds of frame that a poll needs are there;
the emulator's acknowledgements of MSX data are in `Zlink`.

**Control.**  Requests on TTY 15, the answers of the tick, and what the host
makes of them.  Frames of one answer are sent inside one tick, but the user may
give the host a command between any two of them.  `used` is all that matters
of the task table.  `asked` is history: which request set a JSON flag, since
nothing in the code tells.

**Rchk.**  `main_rchk`, `rchk_run_one`, the copy of the stub (`ram.s`) and the
stub.  Memory is a set of cells; `Bad` are those that do not read back what was
written, `Linked` those of the variables and task stacks.  `Places` are the two
trampolines: the page of the copy and the bytes it fills, the page of the stack and
the bytes pushed there.  `Switch` is the copy and the stub up to its first OUT,
`TestChunk` the rest of it, when what it needs has stayed mapped (`Survives`), and
`GetLost` when it has not, or when the trampoline was never good (`WellPlaced`).
`overwritten` collects every cell that lost what it held: under the copy, under
the stack, and in unsafe mode under test.  A page and an offset stand for an
address, so a chunk that ran past the end of its page would be seen.

**Heap.**  Operations are atomic; sizes are computed in 16 bits (`Word`).

**Vdp.**  The chip is an external part: register, address and data behaviour as
`vdp.c` relies on them.  A task has a list of port accesses still to make; those
between DI and EI go in one piece, a tick may come before any other.

**Xsh.**  A key is one step, and its output a list of writes, each of which may
find the TTY full.  `row` is the line on the terminal.  Nothing bounds the
number of keys.

## 3. The runs

| Run | Bounds | Why they are enough |
|---|---|---|
| `scheduler` | 3 slots, weights up to 3, callers pass 0 or 4 | two slots may be ahead of a waiting one; 3 is the code's `TASK_WEIGHT_MAX`; 0 and 4 are sanitized to both ends |
| `queue` | 3 tasks, ring of 2, 2 values, 1 removal inside an operation | two waiters and a signaller on each of two semaphores; head and tail wrap, full and empty both occur, order can be told |
| `kernel` | 3 slots, queue of 1, weight 2 for xsh | xsh, producer and consumer fill the table; a start that finds no free slot does not occur |
| `zbus` | 2 tasks, 2 TTYs, rings of 1, 1 frame per tick, 2 starts | the ring is full after one frame; a TTY changes hands |
| `zlink` | code's budget 4 and chunk 8, counter modulo 2, 4 frames | more acknowledgements than the budget; two turns of the counter |
| `link` | 8 values, payloads to 2 bytes, 2 data frames, 2 bytes damaged | the second damage may come while the ends are still looking for the first; header, payload and CRC may all look like a start |
| `control` | 3 slots, 2 entries per frame, 2 requests waiting | lists of none, one full, one part-full and two frames; a second request between the fragments |
| `rchk` | pages of 3 bytes, one each for a variable, a copy and a stack; chunks of 2, 2 slots, 1 or 2 entries | every page as the first entry, both trampolines, a last chunk that is short; windows whole, cut, empty and missed; bad bytes mapped and not |
| `rchk_page2` | the pages of `vg-8010`, the copy kept off the variables, no bad bytes | finds a violation, which neither bad memory nor the place of the copy has a part in |
| `heap` | 40 bytes, headers of 5, 16-bit arithmetic scaled to 6 bits | up to five blocks: one free on either side of one released, and others |
| `vdp` | 3 cells, 2 glyphs, 2 border colors | one cell that is drawn on, one whose low byte passes for a register number, the last |
| `xsh` | line of 4, 3 names, bursts of 2, TTY of 2 frames | names that share a beginning, one that is too long; unlimited typing |

Deadlock is checked in all runs but `queue` and the two of `Rchk`.  `queue` has
no tick, and all its tasks may end up waiting, as the clients are free to do; a
machine whose stub is lost does nothing the model knows.

What each shows:

* `scheduler`: free slots are clean, quanta never exceed weights
  (`SlotHygiene`), a READY slot is passed over for fewer than
  `WeightMax * (MaxTasks - 1)` ticks (`BoundedWait`) and gets the CPU
  (`StarvationFree`).
* `queue`: mask, `wait_obj` and state agree (`WaitersConsistent`); nobody
  sleeps beside a permit (`NoLostWakeup`); a stop request that reaches a task
  a signal has just released does not turn its permit into a failure
  (`PermitSurvives`).  Each permit is a free place, an item, or inside an
  operation (`PermitsConserved`); each removal inside one costs at most one;
  sleepers have a wake-up under way (`NobodyStranded`); the ring is a FIFO channel
  that hands each item to the task that took its place (`ImplementsChannel`).
* `kernel`: everything done to task states is something `Scheduler` allows;
  a stop request never hits another program than the one named; the
  producer stops when asked; the consumer stops too, *as long as the producer
  runs* (it may block right after it looked at its flag).
* `zbus`: nothing in a TTY outlives its owner (`TtyIsolation`); a cached TTY is
  owned even when it is used later (`CachedTtyIsOwned`); messages lose only
  their ends (`NoHoles`); no TTY with frames is passed over twice
  (`BoundedSkips`); `pipe_flush` returns (`FlushEnds`).
* `zlink`: the fifo is never read empty, each host frame is read exactly once
  and in order, and is dropped as a duplicate only a whole turn of the counter
  after the last one its TTY got.
* `link`: however bytes are lost, doubled or altered, from some poll on every
  poll reads a frame (`Resynchronises`).
* `control`: fragments of two answers never mix (`NoMix`); a JSON request that
  was alone gets its own, whole answer (`JsonIsItsAnswer`); every one gets an
  answer (`JsonComes`).
* `rchk`: the slots are those of boot whenever interrupts are enabled, and the
  stub comes back if the manifest is sound (`ComesBack`); only bytes of the
  window are written (`StaysInWindow`); OK means that every byte of the range
  was tested and none failed, unless the task was stopped (`ReportIsTrue`); of
  the bytes that the system sees only those under a trampoline the manifest uses lose
  their contents, and no variable is among them if the manifest is sound
  (`LiveBytesKept`).  `Sound` is a condition on the manifest that nothing in the
  code checks; section 5 says where it fails.
* `heap`: blocks tile the area, no two free ones touch, grants are blocks of
  their own and large enough (but for a request of 0xFFFF, rounded up to 0).
* `vdp`: data lands where it was addressed, vchk is transparent, gchk restores
  the registers unless it is cut off inside its border write.
* `xsh`: the line stays one short of its buffer, the terminal shows what Enter
  executes, and a prompt that was put off comes once the keyboard is left
  alone.

The runs check `TypeOK` of `Scheduler` and `Queue`.  `KTypeOK` of `Kernel` and the
`TypeOK` of `Zbus`, `Rchk`, `Heap`, `Zlink`, `Control` and `Vdp` are proved with
their invariants, as is `XshTypeOK`.

Supplementary configurations, which are not among the runs but hold or fail in
the same way: `MCSemaphore` (the semaphores with the most general client,
which may wait on one and signal the other and saturates them; the programs
use semaphores in queues only), and `MCKernelArgs`, `MCVdpExit`, `MCZlinkWrap` and
`MCRchkOnData`, which find the violations of section 5.

Each property was also checked against a plausible bug in the code it is about:
the definitions whose names end in `Mutant`, listed in `PROJECT.json`.

## 4. Fairness

* Ticks: weak fairness everywhere.  The frame interrupt of the VDP does not
  stop, and every masked section is finite.
* Programs in `Kernel`: strong fairness of each task's program.  A tick is
  20 ms, some tens of thousands of instructions; a task that gets the CPU again
  and again passes through sections a few dozen instructions long.  The
  scheduler giving it the CPU is *not* assumed, it is what the specification does.
* `EndFlush` in `Zbus`: strong fairness.  The flushing task is woken from HALT by
  the tick and looks at its TTY before the next.  The TTY becoming empty is not
  assumed.
* The shell in `Xsh`: weak fairness of its steps, from `StarvationFree`; none of
  the user, who may type for ever or stop (`Quiet`).
* `Control`: weak fairness of the tick that takes a request and of the arrival
  of its frames, which the emulator works off inside the OUT; none of the user.
* `Link`: weak fairness of `Next`.  The tick polls again and again, and one end
  waits for the other, so this says no more than that the clock goes on.

## 5. Findings

* **A page-2 entry of the memory check loses the machine** (`rchk_page2`).
  After the switch the stub still reads `g_rchk_psr_port` and `g_rchk_saved_sp`
  (`rchk.s:107` and `:111`), which are variables, on page 2 in every target; with
  page 2 switched away it reads the memory under test and writes to an
  arbitrary port.  No placement of trampoline and stack helps, which explains
  the attempts that `targets/vg-8010.mk:32-47` records and puts down to hardware;
  `targets/ztick-unitcard.mk:36` has such an entry.  Keeping port and stack
  pointer in registers or on the safe stack would do.

Four more disagreements between code and comment were found; their
configurations are kept, each finds its violation.

* **zlink drops new frames as duplicates** (`MCZlinkWrap.cfg`, `NoFalseDuplicates`;
  `zlink.c:243`).  The host numbers the frames of all TTYs with one byte, the
  MSX compares per TTY: a frame exactly 256 frames after the last of its TTY is
  acknowledged and thrown away.  `LossNeedsWrap` in the run `zlink` shows that it
  takes no less.
* **start can begin a program with stale arguments** (`MCKernelArgs.cfg`,
  `StartsAsTold`; `xsh_cmd.c:338`).  `cmd_start` finds the program running, skips
  the arguments, and `xsh_cmd_start_task_spec` looks again; if the program left
  in between it is started with what its last start latched, although
  `args_b.c:45` says that no argument clears any previous override.
* **gchk can leave the video chip in the wrong mode** (`MCVdpExit.cfg`,
  `EveryExitRestores`; `main_gchk.c:227`).  A tick between the two bytes of the
  unmasked border write, with a stop request pending, puts the reset of the
  screen out of phase.  `WaitedRunRestores` in the run `vdp` shows that it takes a
  stop request.

* **The copy of the stub lands on variables and task stacks** (`MCRchkOnData.cfg`,
  `VariablesKept`; `rchk.s:35`).  In `targets/vg-8010.mk:53`, `hb-55p.mk:39` and
  `hb-75p.mk:69` it goes to 0x8100, and `_DATA`, which begins at 0x8000 in all of them,
  does not end before that: the six task stacks alone are 1920 bytes.  `ram.s`
  copies without a look at what is there, before every chunk and in both modes, and
  puts nothing back.  `main_rchk.c:144-148` says of the second trampoline that
  nothing "is left in a different state afterwards" since it stays on the home slot;
  that does not follow for either.  `ztick` and `ztick-unitcard` copy to 0xE000.

Observations that are not runs: `README.md` gives `ZBUS_TX_CHUNK=2`, `zbus.h`
has 8; with 8, acknowledgements of one tick can exceed the frame budget, so the
answer to a POLL may be read some ticks later (all are read, in order).  When a
completion listing meets a full TTY, the prompt is put off but the line is
still written, and the prompt then appears behind it, where the comment of
`xsh_complete` promises prompt and line; `ScreenShowsLine` exempts that row.

A byte that fails makes the stub of rchk call `_rchk_record_fail` at its ROM
address, so an entry on the page of the code is safe only where the memory is good
(`Sound`); `targets/hb-75p.mk:61-63` calls pages 0 and 1 candidates.  After a stop the
result line names the whole range, not the part that was tested
(`main_rchk.c:262`).  A `get_task_list` between two fragments throws away the first
ones, and the rest passes for a whole list, where `README.md:225` promises the
aggregated one; of two JSON requests of a kind, one reply answers both flags, and an unknown
command answers a request for statistics.  `JsonIsItsAnswer` therefore speaks of
requests that were alone.  After damage, a lag of whole frames may
stay in the fifo for ever: every poll then reads the answer to an earlier one.
The ends find each other because an EMPTY is five bytes long and a refused header
four; frames whose length is a multiple of four would never come into step.

## 6. The proofs

All are for any number of tasks, any capacity, any weights, under the ASSUMEs of
the modules (natural numbers, disjoint names, `InitCount` in range, finitely
many tasks that are numbers, as slots are).

* `SchedulerProofs`: `TypeCorrect`, `SlotsHygienic`, `WaitIsBounded`.
  `BoundedWait` is not inductive: it does not say how far the scan is from
  the waiting slot.  The invariant `IInv` adds `WaitDebt`: the ticks a
  slot has been passed over, plus a full quantum for each slot the scan
  meets first, plus the rest of the running quantum, stay under the bound.
  A tick moves one unit from the future to the past; no call may increase the
  sum, which is where `SlotHygiene` (budget at most weight) is needed, and
  `PassedOnlyWaiting` says that a slot that becomes READY starts from zero.
* `KernelProofs` begins with the semaphores alone: `WaitersAlwaysConsistent`,
  `WakeupsAreNotLost`, `PermitsSurvive`; the two invariants are inductive
  together with the types.  Then `QueueUsesSemaphores` (every step of `Queue` is a step of
  `Semaphore` or leaves it alone), from which the semaphore invariants are
  inherited; `QueueTypeCorrect`; and `QueueImplementsChannel`.  The latter
  needs `RingShape`, that head lies `used` places after tail, and lemmas that
  a push appends to and a pop removes from the contents read off the ring, and that
  between its pop and its end a receiver keeps the item it took.
  `PermitsAreConserved` and `NobodyIsStranded` count tasks: four sets, who holds
  a permit of each semaphore and who has still to signal it.  A step changes each
  set at one task at most, or moves a permit from the signaller to the sleeper
  it picks.  `Pairing` says what the count needs: who sleeps on which
  semaphore is in which operation, and nobody holds a permit of both.
  Last comes the composition, for any number of slots and any weights.
  `KernelUsesQueue`: every step is a step of `Queue` or leaves it alone, so the
  theorems about the queue and the semaphores hold of it
  (`KernelImplementsChannel`, `KernelLosesNoWakeup`).  `KernelImplementsScheduler`
  takes the steps one by one: a wait that blocks and a signal that wakes map
  to the abstract block and wake-up, everything the semaphores do besides to a
  stutter.  That a task woken was waiting comes from `WaitersConsistent`.
  With it, the bound of `SchedulerProofs` is a theorem of the kernel
  (`KernelWaitIsBounded`).  `StopReachesItsProgram` is inductive with the
  types: the shell runs between lookup and request only when it has the CPU,
  and a slot that another program takes over can be taken by the shell alone.
* `HeapProofs`: `HeapTypeCorrect`, `HeapIsTiled`, `HeapIsCoalesced`, `HeapGrantsAreGood`, for any
  heap and header size, any word size and requests.  Both operations replace a run of
  blocks by one or two over the same bytes (`Replaced`), so most lemmas are about
  that.  `Tiled` only speaks of neighbours; the invariant says of any two
  blocks which lies first (`Ordered`), or an address would not name one block.
* `ZlinkProofs`: `ZlinkTypeCorrect`, `OnlyFramesAreRead`, `FramesAreAccounted`, `LossNeedsAWrap`, for
  any TTYs, modulus and frame budget.  A whole frame is there because the
  answer to the poll is in the fifo until it is read (`AnswerIsThere`).  Frames are
  accounted because those on the way are numbered by what has been read before
  (`Accounted`).  A frame has the number of its place in the host's queue
  (`Numbered`), and the MSX remembers the number of the last frame its TTY got
  (`RemembersLast`), so equal numbers are whole turns apart.
* `ZbusProofs`: `TtysAreIsolated`, `CachedTtysAreOwned`, `MessagesHaveNoHoles`,
  `SkipsAreBounded`, for any tasks, TTYs, ring sizes and message lengths.  Only the first
  is inductive with the types.  A cached TTY is owned when it is used because
  the job of a writer names it (`Jobs`).  A message has no holes because a
  writer in the middle of one owns the TTY its last chunk is at the end of
  (`Halfway`), and the ring is a chain of chunks (`Chained`).  A TTY waits less than a
  round because the ticks it has been passed over and its distance from the
  cursor stay under the number of TTYs together (`Patience`).
* `RchkProofs`: `StubComesBack`, `WindowIsKept`, `LiveBytesAreKept`, `ReportsAreTrue`, for
  every manifest, layout, page and chunk size and any bad bytes.  The
  invariant says which page has moved (`Mapping`), that the entry under test
  is one that may be (`Admitted`), and that what has been tested is exactly the
  range below the current chunk (`Progress`).  `LiveBytesAreKept` comes from
  `OnlyFilled`, which says of each byte in use that was lost which trampoline lies
  on it; that it is one the manifest uses needs `Relocated` and `Deferring`, that the
  second pass is made only when an entry has waited for it.
* `ControlProofs`: `ListsNeverMix`, `JsonGetsItsAnswer`, for any slots, length
  of a frame and queue of the host.  What the host has collected is a part of the
  list under way that ends where the next frame begins (`Collecting`); frames cut
  from one snapshot one after another keep that (`Carries`), whatever command
  comes between them.  Answers carry no number, so that the answer is the
  one to the request is an argument on order: the first of its kind still to come,
  arrived or not, belongs to the request that was alone (`ComesFirst`).  `TypeOK` of
  `Control` is stated there.
* `ScreenProofs`, the video chip: `DataLands`, `TestsAreTransparent`,
  `WaitedRunsRestore`, for any cells, glyphs and number of colors.  What a task has still
  to send is the end of one of its sequences (`Drawing`, `Testing`), the chip has been told
  of the address what has been sent of it (`Aimed`), and a task that is not
  running is at the beginning of one, but for gchk at its border write
  (`OneAtATime`); so the tick, which clears the latch, takes nothing from anybody else.  While vchk
  tests, the memory differs from what was drawn in the byte under test, and only
  between two of its accesses (`Tested`).  A gchk that waited since its last
  border color enters the reset of the screen in step, and then each register is
  written from its own pair of bytes (`InStep`, `Written`).
* `ScreenProofs`, the line editor: `EditInvariance`, `LineIsShown`, for any
  characters, command names, line length, burst and TTY size.  `ScreenShowsLine` speaks
  of the moments when nothing is to be written; the invariant says of all others how
  far the row is: the writes to come are the end of the line, echoed (`Echoing`), the
  erasing of one character (`Erasing`), or end in a new prompt and the line
  (`Redrawing`), whichever of them are dropped or put off.  That completion only
  adds to the line follows from `LongestBegins`: whatever begins all the matches
  begins their longest common prefix.

Only model-checked: the liveness properties (`StarvationFree`, `ProducerStops`,
`ConsumerStops`, `FlushEnds`, `EveryFrameIsRead`, `JsonComes`, `PromptComes`, and
`Resynchronises`, which is all that `Link` is for).  They need fairness and ENABLED,
which are outside the prover.  Every invariant and every action property of a
passing run is a theorem.

## 7. Not modelled, and why

* The bridge board's state machine (`zbridge/zbrc.py`): planned, see below.
* NACK: `zlink_poll_once` sends it for a TTY or a length that
  `zlink_read_frame` and the host never let through, and the host ignores it.
* The real link's timing, and acknowledgements of MSX data in `Link`.
* What control replies say of a task besides its number and whether it is there.
* Registry lookup, argument parsing, reports and number formatting: sequential
  code without shared state; what the arguments latch is in `Kernel` and `Rchk`.
* Startup, port I/O, build and emulator set-up: straight-line initialisation,
  single instructions, and constants that are the CONSTANTS here.
* Statistics counters saturate and nothing reads them but reports.
* Stack overflow: the code only paints and measures stacks.

## 8. Plan

The order followed the damage a fault would do: scheduler, semaphores, queue
and their proofs; the composition with real programs; zbus and zlink; heap,
video chip, line editor; then the memory check, the control channel, the bytes
of the link, and the proofs of all of them but the last.  All of these are in place.  Next:

1. `Bridge`: the registered state machine of `zbrc.py` against the Z80 bus
   cycle and the FT245 flags, one write per access, no bus contention.
2. `Link` as an implementation of `Zlink` when nothing is damaged.

## 9. Running

    tlc -config MCQueue.cfg MCQueue      # any run: module and cfg of PROJECT.json
    tlc -config MCZlinkWrap.cfg MCZlink  # a supplementary configuration
    tlapm KernelProofs.tla               # any module that ends in Proofs
