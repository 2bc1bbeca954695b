----------------------------- MODULE Scheduler -----------------------------
(***************************************************************************)
(* The task table and the weighted round-robin of src/src/bootstrap/rtos.c *)
(* A slot is UNUSED, READY or in one of the three waiting states; here the *)
(* waiting states are one, "WAIT", because the scheduler only compares     *)
(* with TASK_READY and TASK_UNUSED.  Module Kernel refines WAIT.           *)
(*                                                                         *)
(* Every kernel call runs with interrupts masked, so a call is one step.   *)
(* The timer interrupt, scheduler_select_next, is the action Tick.         *)
(***************************************************************************)
EXTENDS Integers

CONSTANTS
  MaxTasks,    \* MAX_TASKS, the number of slots of g_tasks
  WeightMax,   \* TASK_WEIGHT_MAX
  WeightArgs   \* the weights callers pass, sanitized or not

ASSUME SchedulerAssumption ==
  /\ MaxTasks \in Nat \ {0}
  /\ WeightMax \in Nat \ {0}
  /\ WeightArgs \subseteq Nat

VARIABLES
  state,       \* g_tasks[].state
  weight,      \* g_tasks[].weight
  budget,      \* g_tasks[].budget, the ticks left of the quantum
  stop_flag,   \* g_tasks[].stop_flag = TASK_STOP_REQUESTED
  current,     \* g_current_task
  passed       \* history: ticks a READY slot has been passed over for
               \* since it last became READY or last held the CPU

tcb  == <<state, weight, budget, stop_flag>>
vars == <<state, weight, budget, stop_flag, current, passed>>

WeightMin == 1
Slots  == 0 .. MaxTasks - 1
States == {"UNUSED", "READY", "WAIT"}

\* Mutant: a weight above TASK_WEIGHT_MAX is taken as it is.
SanitizeMutant(w) == IF w < WeightMin THEN WeightMin ELSE w

Sanitize(w) ==
  IF w < WeightMin THEN WeightMin ELSE IF w > WeightMax THEN WeightMax ELSE w

----------------------------------------------------------------------------
(* boot_autostart_apply fills the slots from 0 up, as many as the target   *)
(* lists; rtos_init halts when it fills none.                              *)
Init ==
  \E last \in Slots, w \in [Slots -> WeightArgs] :
    /\ state     = [t \in Slots |-> IF t <= last THEN "READY" ELSE "UNUSED"]
    /\ weight    = [t \in Slots |-> IF t <= last THEN Sanitize(w[t]) ELSE 0]
    /\ budget    = weight
    /\ stop_flag = [t \in Slots |-> FALSE]
    /\ current   = 0
    /\ passed    = [t \in Slots |-> 0]

----------------------------------------------------------------------------
(* The timer interrupt.                                                    *)

Ready(t) == state[t] = "READY"

\* How many probes after g_current_task the scan reaches slot t; the
\* interrupted slot itself comes last.
Probes(t) == IF t > current THEN t - current ELSE t - current + MaxTasks

\* Mutant: the scan starts at slot 0 instead of after g_current_task.
NextReadyMutant(p) == Ready(p) /\ \A q \in Slots : Ready(q) => p <= q

\* The slot the scan stops at.
NextReady(p) == Ready(p) /\ \A q \in Slots : Ready(q) => Probes(p) <= Probes(q)

\* History: counts to the bound of BoundedWait and no further, so that it is
\* finite however long a slot is passed over.
OneMore(n) == IF n < WeightMax * (MaxTasks - 1) THEN n + 1 ELSE n

\* running is the slot that has the CPU after the tick.
Aged(running) ==
  [t \in Slots |-> IF Ready(t) /\ t \notin {current, running} THEN OneMore(passed[t]) ELSE 0]

KeepsCpu == Ready(current) /\ budget[current] > 1

\* The interrupted task's quantum is not over.
TickKeep ==
  /\ KeepsCpu
  /\ budget' = [budget EXCEPT ![current] = @ - 1]
  /\ passed' = Aged(current)
  /\ UNCHANGED <<state, weight, stop_flag, current>>

\* A READY slot whose quantum ends gets a full one for its next turn.
Refilled == IF Ready(current) THEN [budget EXCEPT ![current] = weight[current]] ELSE budget

TickSwitch ==
  /\ ~KeepsCpu
  /\ \E p \in Slots :
       /\ NextReady(p)
       /\ current' = p
       /\ budget' = [Refilled EXCEPT ![p] = IF @ = 0 THEN weight[p] ELSE @]
       /\ passed' = Aged(p)
  /\ UNCHANGED <<state, weight, stop_flag>>

\* Nothing is READY: the interrupted context resumes its HALT loop.
TickIdle ==
  /\ \A t \in Slots : ~Ready(t)
  /\ UNCHANGED vars

Tick == TickKeep \/ TickSwitch \/ TickIdle

----------------------------------------------------------------------------
(* Kernel calls of the running task.  A context whose slot is not READY    *)
(* sits in a HALT loop (task_exit, ipc_sem_wait_internal) and calls        *)
(* nothing until a tick; a task that unregisters itself is taken to do     *)
(* the same.                                                               *)

Running == Ready(current)

\* Mutant: task_reset_runtime_fields forgets the request made to the old tenant.
ClearedStopMutant(t) == stop_flag

ClearedStop(t) == [stop_flag EXCEPT ![t] = FALSE]

\* What task_mark_unused leaves of the slot.
MarkUnused(t) ==
  /\ state'     = [state EXCEPT ![t] = "UNUSED"]
  /\ weight'    = [weight EXCEPT ![t] = 0]
  /\ budget'    = [budget EXCEPT ![t] = 0]
  /\ stop_flag' = ClearedStop(t)
  /\ passed'    = [passed EXCEPT ![t] = 0]
  /\ UNCHANGED current

LowestUnused(s) == state[s] = "UNUSED" /\ \A q \in Slots : q < s => state[q] # "UNUSED"

Register(w) ==
  /\ Running
  /\ \E s \in Slots :
       /\ LowestUnused(s)
       /\ state'  = [state EXCEPT ![s] = "READY"]
       /\ weight' = [weight EXCEPT ![s] = Sanitize(w)]
       /\ budget' = [budget EXCEPT ![s] = Sanitize(w)]
  /\ UNCHANGED <<stop_flag, current, passed>>

Unregister(t) == Running /\ state[t] # "UNUSED" /\ MarkUnused(t)

TaskExit == Running /\ MarkUnused(current)

\* Mutant: a new weight always starts a new quantum.
BudgetUnderMutant(b, w) == w

\* Mutant: a lowered weight leaves the running quantum alone.
BudgetUnderMutant2(b, w) == IF b = 0 THEN w ELSE b

\* task_weight_set_existing: the running quantum may shrink, never grow.
BudgetUnder(b, w) == IF b = 0 \/ b > w THEN w ELSE b

SetWeight(t, w) ==
  /\ Running
  /\ state[t] # "UNUSED"
  /\ weight' = [weight EXCEPT ![t] = Sanitize(w)]
  /\ budget' = [budget EXCEPT ![t] = BudgetUnder(@, Sanitize(w))]
  /\ UNCHANGED <<state, stop_flag, current, passed>>

\* A waiting task is released so that it can see the request.
RequestStop(t) ==
  /\ Running
  /\ state[t] # "UNUSED"
  /\ stop_flag' = [stop_flag EXCEPT ![t] = TRUE]
  /\ state' = [state EXCEPT ![t] = "READY"]
  /\ UNCHANGED <<weight, budget, current, passed>>

----------------------------------------------------------------------------
(* The two ways ipc.c changes a state: the running task blocks on a        *)
(* semaphore, and a signal of the running task releases a waiter.          *)

Block ==
  /\ Running
  /\ state'  = [state EXCEPT ![current] = "WAIT"]
  /\ UNCHANGED <<weight, budget, stop_flag, current, passed>>

Wake(t) ==
  /\ Running
  /\ state[t] = "WAIT"
  /\ state' = [state EXCEPT ![t] = "READY"]
  /\ UNCHANGED <<weight, budget, stop_flag, current, passed>>

Call ==
  \/ \E w \in WeightArgs : Register(w)
  \/ \E t \in Slots : Unregister(t) \/ RequestStop(t) \/ Wake(t)
  \/ \E t \in Slots, w \in WeightArgs : SetWeight(t, w)
  \/ TaskExit
  \/ Block

Next == Tick \/ Call

Spec == Init /\ [][Next]_vars

\* The frame interrupt of the VDP keeps coming.
FairSpec == Spec /\ WF_vars(Tick)

----------------------------------------------------------------------------
TypeOK ==
  /\ state     \in [Slots -> States]
  /\ weight    \in [Slots -> 0 .. WeightMax]
  /\ budget    \in [Slots -> 0 .. WeightMax]
  /\ stop_flag \in [Slots -> BOOLEAN]
  /\ current   \in Slots
  /\ passed    \in [Slots -> Nat]

\* A free slot keeps nothing of its last tenant, in particular no stop
\* request that the next task started in it would obey; a used slot always
\* has a tick to run and never more than its weight, however weights are
\* changed in the middle of a quantum (task_reset_runtime_fields,
\* task_weight_set_existing, scheduler_select_next).
SlotHygiene ==
  \A t \in Slots :
    IF state[t] = "UNUSED"
    THEN weight[t] = 0 /\ budget[t] = 0 /\ ~stop_flag[t]
    ELSE 1 <= budget[t] /\ budget[t] <= weight[t]

\* Round robin: a READY slot is passed over by fewer than TASK_WEIGHT_MAX
\* ticks for each other slot, whatever starts, stops, blocks, wakes or
\* changes weight meanwhile (scheduler_select_next).
BoundedWait ==
  \A t \in Slots :
    Ready(t) /\ t # current => passed[t] < WeightMax * (MaxTasks - 1)

\* A READY slot gets the CPU or stops being READY.
StarvationFree ==
  \A t \in Slots : Ready(t) ~> (current = t \/ ~Ready(t))

=============================================================================
