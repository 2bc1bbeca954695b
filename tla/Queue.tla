------------------------------- MODULE Queue -------------------------------
(***************************************************************************)
(* ipc_queue_t of src/src/bootstrap/ipc.c: a ring of fixed-size items      *)
(* behind two semaphores, slots (free places) and items (stored items).    *)
(* A send or a receive is three masked-interrupt sections - take a permit, *)
(* move the item, signal the other semaphore - and other tasks, a stop     *)
(* request or an unregistration may come between any two of them.          *)
(***************************************************************************)
EXTENDS Semaphore, Sequences

CONSTANTS
  Capacity,   \* queue->capacity; up to 127, the largest int8_t
  Items,      \* the values sent
  MaxKills    \* bound on the unregistrations counted in kills

NoItem == "no item"

QSems == {"slots", "items"}
QInitCount == [s \in QSems |-> IF s = "slots" THEN Capacity ELSE 0]

ASSUME QueueAssumption ==
  /\ Capacity \in 1 .. MaxCount
  /\ NoItem \notin Items
  /\ Sems = QSems
  /\ InitCount = QInitCount
  /\ MaxKills \in Nat

VARIABLES
  storage,    \* queue->storage
  head,       \* queue->head, where the next item is written
  tail,       \* queue->tail, where the next item is read
  used,       \* queue->used
  pc,         \* what each task is in the middle of
  msg,        \* the item a task is sending, or has received
  kills       \* history: how many tasks were removed inside an operation

ringVars == <<storage, head, tail, used>>
vars     == <<svars, storage, head, tail, used, pc, msg, kills>>

\* The sections still ahead of a task.  push and pop come after the permit
\* is taken, signal after the item has moved (or could not be moved).
PCs == {"idle", "wait_slots", "wait_items", "push", "pop",
        "signal_items", "signal_slots"}

Init ==
  /\ SemInit
  /\ storage = [i \in 0 .. Capacity - 1 |-> NoItem]
  /\ head = 0 /\ tail = 0 /\ used = 0
  /\ pc    = [t \in Tasks |-> "idle"]
  /\ msg   = [t \in Tasks |-> NoItem]
  /\ kills = 0

\* Mutant: the index runs off the end of storage.
WrapMutant(i) == i

Wrap(i) == IF i >= Capacity THEN 0 ELSE i

Goto(t, from, to) == pc[t] = from /\ pc' = [pc EXCEPT ![t] = to]

----------------------------------------------------------------------------
(* ipc_queue_send, ipc_queue_try_send *)

\* Both send operations when a permit is there.
SendTakes(t, v) ==
  /\ Goto(t, "idle", "push")
  /\ Take(t, "slots")
  /\ msg' = [msg EXCEPT ![t] = v]
  /\ UNCHANGED <<ringVars, kills>>

\* ipc_queue_send on a full queue; ipc_queue_try_send returns 0 instead.
SendWaits(t, v) ==
  /\ Goto(t, "idle", "wait_slots")
  /\ Wait(t, "slots", "WAIT_Q_SEND")
  /\ msg' = [msg EXCEPT ![t] = v]
  /\ UNCHANGED <<ringVars, kills>>

\* The wait is over: with a permit, or with nothing after a stop request.
SendResumes(t) ==
  /\ Goto(t, "wait_slots", IF wait_status[t] THEN "push" ELSE "idle")
  /\ Resume(t)
  /\ msg' = [msg EXCEPT ![t] = IF wait_status[t] THEN @ ELSE NoItem]
  /\ UNCHANGED <<ringVars, kills>>

\* Mutant: the item is written one place late.
WrittenMutant(v) == [storage EXCEPT ![Wrap(head + 1)] = v]

Written(v) == [storage EXCEPT ![head] = v]

\* ipc_queue_push_locked; without room the permit is put back.
Push(t) ==
  /\ CanRun(t)
  /\ Goto(t, "push", IF used < Capacity THEN "signal_items" ELSE "signal_slots")
  /\ IF used < Capacity
     THEN /\ storage' = Written(msg[t])
          /\ head' = Wrap(head + 1)
          /\ used' = used + 1
     ELSE UNCHANGED <<storage, head, used>>
  /\ msg' = [msg EXCEPT ![t] = NoItem]
  /\ UNCHANGED <<svars, tail, kills>>

----------------------------------------------------------------------------
(* ipc_queue_recv, ipc_queue_try_recv *)

RecvTakes(t) ==
  /\ Goto(t, "idle", "pop")
  /\ Take(t, "items")
  /\ UNCHANGED <<ringVars, msg, kills>>

\* ipc_queue_recv on an empty queue; ipc_queue_try_recv returns 0 instead.
RecvWaits(t) ==
  /\ Goto(t, "idle", "wait_items")
  /\ Wait(t, "items", "WAIT_Q_RECV")
  /\ UNCHANGED <<ringVars, msg, kills>>

\* Mutant: the receiver takes the end of its wait for a permit.
RecvResumesMutant(t) ==
  /\ Goto(t, "wait_items", "pop")
  /\ Resume(t)
  /\ UNCHANGED <<ringVars, msg, kills>>

RecvResumes(t) ==
  /\ Goto(t, "wait_items", IF wait_status[t] THEN "pop" ELSE "idle")
  /\ Resume(t)
  /\ UNCHANGED <<ringVars, msg, kills>>

\* ipc_queue_pop_locked; without an item the permit is put back.
Pop(t) ==
  /\ CanRun(t)
  /\ Goto(t, "pop", IF used > 0 THEN "signal_slots" ELSE "signal_items")
  /\ IF used > 0
     THEN /\ msg' = [msg EXCEPT ![t] = storage[tail]]
          /\ tail' = Wrap(tail + 1)
          /\ used' = used - 1
     ELSE UNCHANGED <<msg, tail, used>>
  /\ UNCHANGED <<svars, storage, head, kills>>

----------------------------------------------------------------------------
\* The last section of each operation, which a receiver leaves with its item.
Finish(t) ==
  /\ \/ Goto(t, "signal_items", "idle") /\ Signal(t, "items")
     \/ Goto(t, "signal_slots", "idle") /\ Signal(t, "slots")
  /\ msg' = [msg EXCEPT ![t] = NoItem]
  /\ UNCHANGED <<ringVars, kills>>

QStop(t) ==
  /\ RequestStop(t)
  /\ UNCHANGED <<ringVars, pc, msg, kills>>

QStart(t) ==
  /\ Start(t)
  /\ UNCHANGED <<ringVars, pc, msg, kills>>

\* A task leaves between operations (task_exit), or is unregistered by
\* another one wherever it happens to be.
InOperation(t) == pc[t] # "idle"

QRemove(t) ==
  /\ Remove(t)
  /\ pc'    = [pc EXCEPT ![t] = "idle"]
  /\ msg'   = [msg EXCEPT ![t] = NoItem]
  /\ IF InOperation(t)
     THEN kills < MaxKills /\ kills' = kills + 1
     ELSE UNCHANGED kills
  /\ UNCHANGED ringVars

Next ==
  \E t \in Tasks :
    \/ \E v \in Items : SendTakes(t, v) \/ SendWaits(t, v)
    \/ SendResumes(t) \/ Push(t)
    \/ RecvTakes(t) \/ RecvWaits(t) \/ RecvResumes(t) \/ Pop(t)
    \/ Finish(t)
    \/ QStop(t) \/ QStart(t) \/ QRemove(t)

Spec == Init /\ [][Next]_vars

----------------------------------------------------------------------------
TypeOK ==
  /\ SemTypeOK
  /\ storage \in [0 .. Capacity - 1 -> Items \cup {NoItem}]
  /\ head \in 0 .. Capacity - 1
  /\ tail \in 0 .. Capacity - 1
  /\ used \in 0 .. Capacity
  /\ pc  \in [Tasks -> PCs]
  /\ msg \in [Tasks -> Items \cup {NoItem}]
  /\ kills \in 0 .. MaxKills

\* The tasks on their way to a section that consumes a permit they hold.
Holding(s, waiting, moving) ==
  Cardinality({t \in Tasks :
    \/ pc[t] = moving
    \/ pc[t] = waiting /\ state[t] = "READY" /\ wait_status[t]})

Signalling(at) == Cardinality({t \in Tasks : pc[t] = at})

\* The places and the items that no permit, held, free or about to be
\* signalled, stands for any more.
LostSlots ==
  Capacity - used - count["slots"]
    - Holding("slots", "wait_slots", "push") - Signalling("signal_slots")
LostItems ==
  used - count["items"]
    - Holding("items", "wait_items", "pop") - Signalling("signal_items")

\* Permits are conserved across the three separate sections of every
\* operation: a place or an item is unaccounted for only when a task was
\* removed inside an operation, and each such removal costs at most one
\* (ipc.c:229-315, rtos.c:217-223).
PermitsConserved ==
  /\ LostSlots >= 0 /\ LostItems >= 0
  /\ LostSlots + LostItems <= kills

\* While no task was removed inside an operation, a receiver sleeps beside
\* a stored item only if the wake-up for it is still on its way, and a
\* sender beside a free place likewise.
NobodyStranded ==
  kills = 0 =>
    /\ wait_mask["items"] # {} /\ used > 0 =>
         \E t \in Tasks :
           \/ pc[t] \in {"signal_items", "pop"}
           \/ pc[t] = "wait_items" /\ state[t] = "READY"
    /\ wait_mask["slots"] # {} /\ used < Capacity =>
         \E t \in Tasks :
           \/ pc[t] \in {"signal_slots", "push"}
           \/ pc[t] = "wait_slots" /\ state[t] = "READY"

\* The stored items, oldest first.
Contents ==
  [i \in 1 .. used |->
     storage[IF tail + i - 1 >= Capacity THEN tail + i - 1 - Capacity ELSE tail + i - 1]]

\* The items received by operations that have not ended.
Received == [t \in Tasks |-> IF pc[t] = "signal_slots" THEN msg[t] ELSE NoItem]

\* The ring implements the bounded channel: whatever tasks are stopped or
\* removed in between, an accepted item comes out once and in order, and the
\* task that takes its place is the one that gets it (ipc.c:94-133, 251-271).
Chan == INSTANCE Channel WITH chan <- Contents, taken <- Received

ImplementsChannel == Chan!Spec

=============================================================================
