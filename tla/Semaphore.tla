----------------------------- MODULE Semaphore -----------------------------
(***************************************************************************)
(* The counting semaphores of src/src/bootstrap/ipc.c and what rtos.c does *)
(* to tasks that wait on one.  Each action is one masked-interrupt section *)
(* of the code; between two of them the scheduler may run any other READY  *)
(* task, so READY tasks interleave freely (Scheduler says which runs).     *)
(*                                                                         *)
(* The specification is the most general client: any task waits on, tries  *)
(* or signals any semaphore at any time.  Queue implements it.             *)
(***************************************************************************)
EXTENDS Integers, FiniteSets

CONSTANTS
  Tasks,      \* the slots of g_tasks, numbers: the lowest waiter goes first
  Sems,       \* the semaphores
  InitCount,  \* their initial counts
  MaxCount    \* 127, the largest int8_t, where a signal saturates

NoObj == "none"                       \* wait_obj = 0
WaitStates == {"WAIT_SEM", "WAIT_Q_SEND", "WAIT_Q_RECV"}

ASSUME SemaphoreAssumption ==
  /\ Tasks \subseteq Nat /\ IsFiniteSet(Tasks)
  /\ NoObj \notin Sems
  /\ MaxCount \in Nat
  /\ InitCount \in [Sems -> 0 .. MaxCount]

VARIABLES
  count,        \* sem->count
  wait_mask,    \* sem->wait_mask, as the set of tasks whose bit is set
  state,        \* g_tasks[].state
  wait_obj,     \* g_tasks[].wait_obj
  wait_status,  \* g_tasks[].wait_status = IPC_TASK_WAIT_OK
  spinning      \* the tasks in the HALT loop of ipc_sem_wait_internal

semVars  == <<count, wait_mask>>
taskVars == <<state, wait_obj, wait_status, spinning>>
svars    == <<count, wait_mask, state, wait_obj, wait_status, spinning>>

SemInit ==
  /\ count       = InitCount
  /\ wait_mask   = [s \in Sems |-> {}]
  /\ state       \in [Tasks -> {"UNUSED", "READY"}]
  /\ wait_obj    = [t \in Tasks |-> NoObj]
  /\ wait_status = [t \in Tasks |-> FALSE]
  /\ spinning    = {}
  /\ \E t \in Tasks : state[t] = "READY"      \* or rtos_init halts

\* Task t can execute code of its own.
CanRun(t) == state[t] = "READY" /\ t \notin spinning

SomeoneRuns == \E t \in Tasks : CanRun(t)

----------------------------------------------------------------------------
(* ipc_sem_wait_internal, ipc_sem_try_wait *)

Take(t, s) ==
  /\ CanRun(t)
  /\ count[s] > 0
  /\ count' = [count EXCEPT ![s] = @ - 1]
  /\ UNCHANGED <<wait_mask, taskVars>>

\* The count is zero: the task announces itself and stops being scheduled.
Wait(t, s, wait_state) ==
  /\ CanRun(t)
  /\ count[s] <= 0
  /\ wait_mask'   = [wait_mask EXCEPT ![s] = @ \cup {t}]
  /\ wait_obj'    = [wait_obj EXCEPT ![t] = s]
  /\ wait_status' = [wait_status EXCEPT ![t] = FALSE]
  /\ state'       = [state EXCEPT ![t] = wait_state]
  /\ spinning'    = spinning \cup {t}
  /\ UNCHANGED <<count>>

\* Back out of the HALT loop: the wait succeeded iff wait_status[t].
Resume(t) ==
  /\ t \in spinning
  /\ state[t] = "READY"
  /\ spinning' = spinning \ {t}
  /\ UNCHANGED <<semVars, state, wait_obj, wait_status>>

----------------------------------------------------------------------------
(* ipc_sem_signal *)

\* ipc_find_waiter
IsFirstWaiter(w, s) ==
  w \in wait_mask[s] /\ \A u \in wait_mask[s] : w <= u

\* The permit goes straight to the first waiter and count stays as it is.
HandOff(s) ==
  \E w \in Tasks :
    /\ IsFirstWaiter(w, s)
    /\ wait_mask' = [wait_mask EXCEPT ![s] = @ \ {w}]
    /\ IF state[w] = "UNUSED"
       THEN UNCHANGED <<wait_obj, wait_status, state>>
       ELSE /\ wait_obj'    = [wait_obj EXCEPT ![w] = NoObj]
            /\ wait_status' = [wait_status EXCEPT ![w] = TRUE]
            /\ state'       = [state EXCEPT ![w] = "READY"]
    /\ UNCHANGED <<count, spinning>>

\* Mutant: the count goes on past the largest int8_t.
RaisedMutant(c) == c + 1

Raised(c) == IF c < MaxCount THEN c + 1 ELSE c

\* Mutant: the count is raised although a waiter may be there.
ReleaseMutant(s) ==
  /\ count' = [count EXCEPT ![s] = Raised(@)]
  /\ UNCHANGED <<wait_mask, taskVars>>

Release(s) ==
  /\ wait_mask[s] = {}
  /\ count' = [count EXCEPT ![s] = Raised(@)]
  /\ UNCHANGED <<wait_mask, taskVars>>

Signal(t, s) == CanRun(t) /\ (HandOff(s) \/ Release(s))

----------------------------------------------------------------------------
(* What rtos.c does to a task that may be waiting. *)

\* Mutant: the semaphore keeps the bit of a task that is gone.
MaskWithoutMutant(t) == wait_mask

\* ipc_task_on_exit(t, wait_obj)
MaskWithout(t) ==
  [s \in Sems |-> IF s = wait_obj[t] THEN wait_mask[s] \ {t} ELSE wait_mask[s]]

\* Mutant: any live task is taken to be asleep.
AsleepMutant(t) == state[t] # "UNUSED"

Asleep(t) == wait_obj[t] # NoObj /\ state[t] \notin {"UNUSED", "READY"}

\* rtos_task_request_stop of a waiting task releases it with a failed wait.
\* (Of any task it sets stop_flag, which no semaphore operation reads:
\* Scheduler and Kernel keep that flag.)
RequestStop(t) ==
  /\ SomeoneRuns
  /\ Asleep(t)
  /\ wait_mask'   = MaskWithout(t)
  /\ wait_obj'    = [wait_obj EXCEPT ![t] = NoObj]
  /\ wait_status' = [wait_status EXCEPT ![t] = FALSE]
  /\ state'       = [state EXCEPT ![t] = "READY"]
  /\ UNCHANGED <<count, spinning>>

\* task_mark_unused: the slot is freed and its context never runs again.
MarkUnused(t) ==
  /\ wait_mask'   = MaskWithout(t)
  /\ state'       = [state EXCEPT ![t] = "UNUSED"]
  /\ wait_obj'    = [wait_obj EXCEPT ![t] = NoObj]
  /\ wait_status' = [wait_status EXCEPT ![t] = FALSE]
  /\ spinning'    = spinning \ {t}
  /\ UNCHANGED count

\* rtos_task_unregister of another task, or task_exit of the task itself.
Remove(t) == SomeoneRuns /\ state[t] # "UNUSED" /\ MarkUnused(t)

\* rtos_task_register_spec: init_task_slot relies on the slot being clean.
Start(t) ==
  /\ SomeoneRuns
  /\ state[t] = "UNUSED"
  /\ state' = [state EXCEPT ![t] = "READY"]
  /\ UNCHANGED <<semVars, wait_obj, wait_status, spinning>>

----------------------------------------------------------------------------
SemNext ==
  \E t \in Tasks :
    \/ \E s \in Sems :
         \/ Take(t, s)
         \/ \E wait_state \in WaitStates : Wait(t, s, wait_state)
         \/ Signal(t, s)
    \/ Resume(t)
    \/ RequestStop(t)
    \/ Remove(t)
    \/ Start(t)

SemSpec == SemInit /\ [][SemNext]_svars

----------------------------------------------------------------------------
SemTypeOK ==
  /\ count       \in [Sems -> 0 .. MaxCount]
  /\ wait_mask   \in [Sems -> SUBSET Tasks]
  /\ state       \in [Tasks -> {"UNUSED", "READY"} \cup WaitStates]
  /\ wait_obj    \in [Tasks -> Sems \cup {NoObj}]
  /\ wait_status \in [Tasks -> BOOLEAN]
  /\ spinning    \in SUBSET Tasks

\* The kernel's three records of who waits for what agree: a set mask bit,
\* the task's wait_obj and its waiting state.  A stale bit would hand the
\* next permit, and a wake-up, to a later tenant of the slot; a missing one
\* would leave the task asleep for ever (ipc.c:29-67, 181-207, 331-341,
\* rtos.c:217-223, 423-450).
WaitersConsistent ==
  \A t \in Tasks :
    /\ \A s \in Sems : t \in wait_mask[s] <=> wait_obj[t] = s
    /\ wait_obj[t] # NoObj <=> state[t] \in WaitStates
    /\ wait_obj[t] # NoObj => t \in spinning

\* No lost wake-up: a task never waits on a semaphore that has a permit
\* (ipc.c:29-67, 181-207).
NoLostWakeup == \A s \in Sems : wait_mask[s] # {} => count[s] = 0

\* A task released with a permit is out of the mask and READY until it
\* takes it: neither a stop request nor another signal can turn its
\* successful wait into a failed one or wake it twice (ipc.c:66, rtos.c:440).
PermitSurvives ==
  [][ \A t \in Tasks :
        t \in spinning /\ wait_status[t] /\ state[t] = "READY" /\ state'[t] # "UNUSED"
          => wait_status'[t] /\ state'[t] = "READY" ]_svars

============================================================================
