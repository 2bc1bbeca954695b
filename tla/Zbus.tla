-------------------------------- MODULE Zbus --------------------------------
(***************************************************************************)
(* The channel layer of src/src/drivers/zbus.c: which task owns which TTY, *)
(* the two rings of every TTY, and zbus_tick, which the timer interrupt    *)
(* calls.  With it, the two users that lean on its details: the chunked    *)
(* writes with bounded retries of pipe.c and xsh.c, and pipe_flush.        *)
(*                                                                         *)
(* A task step is one section between two points where a tick may come;    *)
(* the steps of a tick follow each other with nothing in between.  Rings   *)
(* are sequences here (Queue models a ring index by index), the saturating *)
(* statistics are left out, and zlink, below, takes every frame.           *)
(***************************************************************************)
EXTENDS Integers, Sequences

CONSTANTS
  Tasks,      \* the slots of g_tasks
  MaxTty,     \* ZBUS_MAX_TTY
  TxSize,     \* ZBUS_TX_QUEUE_SIZE, in frames
  RxSize,     \* ZBUS_BUFFER_SIZE, in bytes
  TxChunk,    \* ZBUS_TX_CHUNK, the frames a tick sends
  MaxChunks,  \* the longest message a task writes, in frames
  RxLens,     \* the lengths of the frames the host sends
  MaxStarts   \* bound on the number of tasks started

ASSUME ZbusAssumption ==
  /\ Tasks \subseteq 0 .. 254
  /\ MaxTty \in Nat \ {0} /\ TxSize \in Nat \ {0} /\ RxSize \in Nat \ {0}
  /\ TxChunk \in Nat \ {0} /\ MaxChunks \in Nat \ {0}
  /\ RxLens \subseteq Nat \ {0} /\ MaxStarts \in Nat

VARIABLES
  owner,         \* g_zbus_tty_table[].owner_task_id, Nobody when detached
  rx_polling,    \* g_zbus_tty_table[].rx_polling_enabled
  tx, rx,        \* the rings of each TTY
  legacy,        \* g_zbus_legacy_tty_by_task
  rr_cursor,     \* g_zbus_tx_rr_cursor
  tx_remaining,  \* zbus_tick's local of that name; TxChunk between two ticks
  pc, job,       \* what each task is doing and with which locals
  life,          \* which start the task in each slot is; 0 in an unused slot
  starts,        \* history: the number of starts
  last,          \* history: the chunk last sent on each TTY
  skipped        \* history: frames of other TTYs sent while this one had some

ttyVars  == <<owner, rx_polling, tx, rx, legacy, last, skipped>>
tickVars == <<rr_cursor, tx_remaining>>
lifeVars == <<life, starts>>
taskVars == <<pc, job, lifeVars>>
vars     == <<ttyVars, tickVars, taskVars>>

Ttys   == 0 .. MaxTty - 1
NoTty  == MaxTty                     \* ZBUS_INVALID_TTY_ID
AnyTty == MaxTty                     \* ZBUS_TTY_AUTO
Nobody == 255                        \* ZBUS_INVALID_TTY_ID, in owner_task_id
NoJob  == [tty |-> NoTty, chunk |-> 0, chunks |-> 0]

InTick == tx_remaining < TxChunk

Attached(y) == owner[y] # Nobody
Frame(t, c) == [life |-> life[t], chunk |-> c]
Byte(y)     == life[owner[y]]

\* zbus_init
Init ==
  /\ owner      = [y \in Ttys |-> Nobody]
  /\ rx_polling = [y \in Ttys |-> FALSE]
  /\ tx = [y \in Ttys |-> <<>>] /\ rx = [y \in Ttys |-> <<>>]
  /\ legacy     = [t \in Tasks |-> NoTty]
  /\ rr_cursor = 0 /\ tx_remaining = TxChunk
  /\ pc    = [t \in Tasks |-> "idle"]
  /\ job   = [t \in Tasks |-> NoJob]
  /\ life  = [t \in Tasks |-> 0] /\ starts = 0
  /\ last    = [y \in Ttys |-> 0]
  /\ skipped = [y \in Ttys |-> 0]

----------------------------------------------------------------------------
(* Attaching and detaching *)

\* Mutant: the ring keeps what it holds.
EmptiedMutant(ring, Y) == ring

\* zbus_reset_tx_queue, zbus_reset_rx_queue
Emptied(ring, Y) == [y \in Ttys |-> IF y \in Y THEN <<>> ELSE ring[y]]

Forgotten(history, Y) == [y \in Ttys |-> IF y \in Y THEN 0 ELSE history[y]]

\* What both changes of owner do to the set Y of TTYs.
Renew(Y) ==
  /\ tx' = Emptied(tx, Y)
  /\ rx' = Emptied(rx, Y)
  /\ last'    = Forgotten(last, Y)
  /\ skipped' = Forgotten(skipped, Y)

\* zbus_tty_attach_exact_internal, and the body of zbus_tty_attach_internal
Attach(y, t, polling) ==
  /\ owner'      = [owner EXCEPT ![y] = t]
  /\ rx_polling' = [rx_polling EXCEPT ![y] = polling]
  /\ legacy'     = [legacy EXCEPT ![t] = y]
  /\ Renew({y})

FreeTtys == {y \in Ttys : ~Attached(y)}

\* The TTY zbus_tty_attach_internal settles on.
FirstFree(y) == y \in FreeTtys /\ \A z \in FreeTtys : y <= z

\* zbus_tty_attach_for_task_preferred: the wanted TTY, or any.
AttachFor(t, wanted) ==
  \/ wanted \in FreeTtys /\ Attach(wanted, t, TRUE)
  \/ wanted \notin FreeTtys /\ \E y \in Ttys : FirstFree(y) /\ Attach(y, t, TRUE)
  \/ FreeTtys = {} /\ UNCHANGED ttyVars

\* rtos_task_register_spec, with task_try_attach_kernel_tty
Start(t, wanted) ==
  /\ ~InTick
  /\ life[t] = 0 /\ starts < MaxStarts
  /\ starts' = starts + 1
  /\ life'  = [life EXCEPT ![t] = starts + 1]
  /\ AttachFor(t, wanted)
  /\ UNCHANGED <<tickVars, pc, job>>

\* task_mark_unused, with zbus_tty_detach_for_task: task_exit, or an
\* unregistration wherever the task happens to be.
Remove(t) ==
  /\ ~InTick /\ life[t] # 0
  /\ LET mine == {y \in Ttys : owner[y] = t} IN
       /\ owner'      = [y \in Ttys |-> IF y \in mine THEN Nobody ELSE owner[y]]
       /\ rx_polling' = [y \in Ttys |-> y \notin mine /\ rx_polling[y]]
       /\ Renew(mine)
  /\ legacy' = [legacy EXCEPT ![t] = NoTty]
  /\ life'   = [life EXCEPT ![t] = 0]
  /\ pc'     = [pc EXCEPT ![t] = "idle"]
  /\ job'    = [job EXCEPT ![t] = NoJob]
  /\ UNCHANGED <<tickVars, starts>>

----------------------------------------------------------------------------
(* Sections of the tasks *)

Executes(t, at) == ~InTick /\ life[t] # 0 /\ pc[t] = at

Goto(t, to, j) == pc' = [pc EXCEPT ![t] = to] /\ job' = [job EXCEPT ![t] = j]

\* zbus_legacy_get_or_attach up to its early return, with interrupts enabled.
Lookup(t, j) ==
  /\ LET y == legacy[t] IN
       IF y \in Ttys /\ owner[y] = t
       THEN Goto(t, "write", [j EXCEPT !.tty = y])
       ELSE Goto(t, "attach", j)
  /\ UNCHANGED <<ttyVars, tickVars, lifeVars>>

\* pipe_write_bytes_retry, xsh_write_bytes: the first of n chunks.
BeginWrite(t, n) ==
  /\ Executes(t, "idle")
  /\ Lookup(t, [tty |-> NoTty, chunk |-> 1, chunks |-> n])

\* The next chunk, or the next attempt at the same.
ContinueWrite(t) == Executes(t, "again") /\ Lookup(t, job[t])

NextChunk(t) ==
  IF job[t].chunk < job[t].chunks
  THEN Goto(t, "again", [job[t] EXCEPT !.tty = NoTty, !.chunk = @ + 1])
  ELSE Goto(t, "idle", NoJob)

SameChunk(t) == Goto(t, "again", [job[t] EXCEPT !.tty = NoTty])

\* Mutant: the chunk that was refused is skipped, the rest still sent.
RefusedMutant(t) == SameChunk(t) \/ NextChunk(t)

\* One attempt failed: the same chunk again or, after the last attempt, the
\* rest of the message is given up.  PIPE_WRITE_RETRY_MAX and
\* XSH_WRITE_RETRY_MAX are 64; here any number of attempts is the last.
Refused(t) == SameChunk(t) \/ Goto(t, "idle", NoJob)

\* zbus_tty_attach, and line 470 after it.
AttachSelf(t) ==
  /\ Executes(t, "attach")
  /\ \/ \E y \in Ttys :
          /\ FirstFree(y)
          /\ Attach(y, t, FALSE)
          /\ Goto(t, "write", [job[t] EXCEPT !.tty = y])
     \/ FreeTtys = {} /\ Refused(t) /\ UNCHANGED ttyVars
  /\ UNCHANGED <<tickVars, lifeVars>>

Accepts(t, y) == y \in Ttys /\ owner[y] = t /\ Len(tx[y]) < TxSize

\* zbus_write_tty
WriteTty(t) ==
  /\ Executes(t, "write")
  /\ LET j == job[t] IN
       \/ /\ Accepts(t, j.tty)
          /\ tx' = [tx EXCEPT ![j.tty] = Append(@, Frame(t, j.chunk))]
          /\ NextChunk(t)
       \/ ~Accepts(t, j.tty) /\ Refused(t) /\ UNCHANGED tx
  /\ UNCHANGED <<owner, rx_polling, rx, legacy, last, skipped, tickVars, lifeVars>>

\* zbus_read_tty, for up to n bytes
ReadTty(t, n) ==
  /\ Executes(t, "idle")
  /\ \E y \in Ttys :
       /\ owner[y] = t
       /\ rx' = [rx EXCEPT ![y] = IF Len(@) <= n THEN <<>> ELSE SubSeq(@, n + 1, Len(@))]
  /\ UNCHANGED <<owner, rx_polling, tx, legacy, last, skipped, tickVars, taskVars>>

\* zbus_tty_set_rx_polling
SetRxPolling(t, enabled) ==
  /\ Executes(t, "idle")
  /\ \E y \in Ttys : owner[y] = t /\ rx_polling' = [rx_polling EXCEPT ![y] = enabled]
  /\ UNCHANGED <<owner, tx, rx, legacy, last, skipped, tickVars, taskVars>>

\* Mutant: the cache still names the TTY that was given back.
DetachMutant(t) ==
  /\ Executes(t, "idle")
  /\ \E y \in Ttys :
       /\ owner[y] = t
       /\ owner'      = [owner EXCEPT ![y] = Nobody]
       /\ rx_polling' = [rx_polling EXCEPT ![y] = FALSE]
       /\ Renew({y})
  /\ UNCHANGED <<legacy, tickVars, taskVars>>

\* zbus_tty_detach
Detach(t) ==
  /\ Executes(t, "idle")
  /\ \E y \in Ttys :
       /\ owner[y] = t
       /\ owner'      = [owner EXCEPT ![y] = Nobody]
       /\ rx_polling' = [rx_polling EXCEPT ![y] = FALSE]
       /\ legacy'     = [legacy EXCEPT ![t] = IF @ = y THEN NoTty ELSE @]
       /\ Renew({y})
  /\ UNCHANGED <<tickVars, taskVars>>

BeginFlush(t) ==
  /\ Executes(t, "idle")
  /\ Goto(t, "flush", NoJob)
  /\ UNCHANGED <<ttyVars, tickVars, lifeVars>>

\* pipe_flush leaves its HALT loop (zbus_tty_tx_pending_current is 0).
EndFlush(t) ==
  /\ Executes(t, "flush")
  /\ LET y == legacy[t] IN (y \in Ttys /\ owner[y] = t) => tx[y] = <<>>
  /\ Goto(t, "idle", NoJob)
  /\ UNCHANGED <<ttyVars, tickVars, lifeVars>>

----------------------------------------------------------------------------
(* zbus_tick *)

\* Mutant: off by one, the last frame waits for another.
SendableMutant(y) == Attached(y) /\ Len(tx[y]) > 1

Sendable(y) == Attached(y) /\ tx[y] # <<>>

\* zbus_rr_tty: how far from the cursor the scan meets y.
Offset(y) == IF y >= rr_cursor THEN y - rr_cursor ELSE y - rr_cursor + MaxTty

NextTty(y) == Sendable(y) /\ \A z \in Ttys : Sendable(z) => Offset(y) <= Offset(z)

\* Mutant: the cursor stays on the TTY that has just sent.
AdvanceMutant(y) == y

\* zbus_ring_advance(tty_id, ZBUS_MAX_TTY)
Advance(y) == IF y + 1 >= MaxTty THEN 0 ELSE y + 1

\* History: counted up to MaxTty, one more than ever happens.
OneMore(n) == IF n < MaxTty THEN n + 1 ELSE n

\* One frame goes to zlink (zbus_tx_pop_frame).
TickTx ==
  /\ tx_remaining > 0
  /\ \E y \in Ttys :
       /\ NextTty(y)
       /\ tx'   = [tx EXCEPT ![y] = Tail(@)]
       /\ last' = [last EXCEPT ![y] = Head(tx[y]).chunk]
       /\ rr_cursor' = Advance(y)
       /\ skipped' = [z \in Ttys |-> IF z # y /\ Sendable(z) THEN OneMore(skipped[z]) ELSE 0]
  /\ tx_remaining' = tx_remaining - 1
  /\ UNCHANGED <<owner, rx_polling, rx, legacy, taskVars>>

\* zbus_rx_enqueue_payload: what does not fit is dropped.
Enqueued(y, n) ==
  LET room == RxSize - Len(rx[y])
  IN  rx[y] \o [i \in 1 .. (IF n <= room THEN n ELSE room) |-> Byte(y)]

\* ZBUS_RX_CHUNK = 1 poll: nothing or a frame nobody takes (for the kernel
\* TTY, whose replies bypass the rings, a TTY detached or not polled), or
\* one for a TTY.
TickRx ==
  /\ tx_remaining = 0 \/ \A y \in Ttys : ~Sendable(y)
  /\ \/ UNCHANGED rx
     \/ \E y \in Ttys, n \in RxLens :
          /\ Attached(y) /\ rx_polling[y]
          /\ rx' = [rx EXCEPT ![y] = Enqueued(y, n)]
  /\ tx_remaining' = TxChunk
  /\ UNCHANGED <<owner, rx_polling, tx, legacy, last, skipped, rr_cursor, taskVars>>

Tick == TickTx \/ TickRx

TaskStep(t) ==
  \/ \E n \in 1 .. MaxChunks : BeginWrite(t, n)
  \/ ContinueWrite(t) \/ AttachSelf(t) \/ WriteTty(t)
  \/ \E n \in RxLens : ReadTty(t, n)
  \/ \E enabled \in BOOLEAN : SetRxPolling(t, enabled)
  \/ Detach(t)
  \/ BeginFlush(t) \/ EndFlush(t)

Next ==
  \/ Tick
  \/ \E t \in Tasks :
       TaskStep(t) \/ Remove(t) \/ \E wanted \in Ttys \cup {AnyTty} : Start(t, wanted)

Spec == Init /\ [][Next]_vars

\* The timer interrupt keeps coming, and a flushing task keeps being woken
\* by it and looks at its TTY before the next one.
FairSpec == Spec /\ WF_vars(Tick) /\ \A t \in Tasks : SF_vars(EndFlush(t))

----------------------------------------------------------------------------
Frames == [life : 0 .. MaxStarts, chunk : 1 .. MaxChunks]
Bytes  == 0 .. MaxStarts

TypeOK ==
  /\ owner \in [Ttys -> Tasks \cup {Nobody}]
  /\ rx_polling \in [Ttys -> BOOLEAN]
  /\ tx \in [Ttys -> Seq(Frames)] /\ \A y \in Ttys : Len(tx[y]) <= TxSize
  /\ rx \in [Ttys -> Seq(Bytes)]  /\ \A y \in Ttys : Len(rx[y]) <= RxSize
  /\ legacy \in [Tasks -> Ttys \cup {NoTty}]
  /\ rr_cursor \in Ttys
  /\ tx_remaining \in 0 .. TxChunk
  /\ pc \in [Tasks -> {"idle", "again", "attach", "write", "flush"}]
  /\ job \in [Tasks -> [tty : Ttys \cup {NoTty}, chunk : 0 .. MaxChunks,
                        chunks : 0 .. MaxChunks]]
  /\ starts \in 0 .. MaxStarts /\ life \in [Tasks -> 0 .. starts]
  /\ last \in [Ttys -> 0 .. MaxChunks] /\ skipped \in [Ttys -> 0 .. MaxTty]

\* Task isolation: whatever a TTY holds was written by its present owner,
\* or received for it; nothing outlives the task it belongs to, although
\* slots, TTYs and the cache of each are reused (zbus.c:99-138, 614-632).
TtyIsolation ==
  \A y \in Ttys :
    LET holder == IF owner[y] \in Tasks THEN life[owner[y]] ELSE 0
    IN  /\ owner[y] \in Tasks => holder # 0
        /\ \A i \in 1 .. Len(tx[y]) : holder # 0 /\ tx[y][i].life = holder
        /\ \A i \in 1 .. Len(rx[y]) : holder # 0 /\ rx[y][i] = holder

\* The cached TTY of a task is a TTY it owns, and the TTY read from the
\* cache with interrupts enabled is still the task's own when it is used.
CachedTtyIsOwned ==
  \A t \in Tasks :
    /\ legacy[t] \in Ttys => owner[legacy[t]] = t
    /\ pc[t] = "write" => owner[job[t].tty] = t

\* A message may lose its end when the ring stays full, never its middle:
\* on every TTY a chunk follows the one before it or starts a message
\* (pipe.c:38-64, xsh.c:161-183).
NoHoles ==
  \A y \in Ttys :
    LET chunks == <<last[y]>> \o [i \in 1 .. Len(tx[y]) |-> tx[y][i].chunk]
    IN  \A i \in 1 .. Len(chunks) - 1 : chunks[i + 1] \in {1, chunks[i] + 1}

\* Round robin: a TTY with frames waits for at most one frame of each other
\* TTY, however fast they are filled again (zbus.c:113-118, 790-822).
BoundedSkips == \A y \in Ttys : skipped[y] < MaxTty

\* pipe_flush returns: a task that flushes does not hang in its HALT loop,
\* whatever the other tasks write.
FlushEnds == \A t \in Tasks : pc[t] = "flush" ~> pc[t] # "flush"

=============================================================================
