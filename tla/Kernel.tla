------------------------------- MODULE Kernel -------------------------------
(***************************************************************************)
(* The scheduler and the IPC queue composed, under the programs that use   *)
(* them: xsh (the shell), b (the demo producer, task_b/main_b.c) and c     *)
(* (the demo consumer, task_c/main_c.c).  Only the slot g_current_task     *)
(* executes; a tick may come between any two masked-interrupt sections.    *)
(* The demo queue of lib/ipc_demo.c is the queue of module Queue.          *)
(***************************************************************************)
EXTENDS Queue

CONSTANTS
  MaxTasks, WeightMax,  \* as in Scheduler
  WeightOf,             \* the weight xsh starts each program with
  Overrides             \* the start arguments that b and c take

VARIABLES
  weight, budget, stop_flag, current, passed,   \* as in Scheduler
  prog,       \* g_tasks[].name: the program in each slot
  at,         \* where the program of each slot is, outside the queue
  command,    \* the command xsh is in the middle of
  override,   \* the start arguments latched for each program
  told        \* history: the arguments each program was last started with

schedVars == <<weight, budget, stop_flag, current, passed>>
argVars   == <<override, told>>
progVars  == <<prog, at, command, argVars>>
kvars     == <<vars, schedVars, progVars>>

Programs == {"b", "c"}
Nobody   == "nobody"
Default  == "default"    \* start_valid = 0: the value the program is built with

NoCommand == [op |-> "none", name |-> Nobody, slot |-> MaxTasks, args |-> Default, fresh |-> FALSE]

ASSUME KernelAssumption ==
  /\ MaxTasks \in Nat \ {0}
  /\ Tasks = 0 .. MaxTasks - 1
  /\ WeightMax \in Nat \ {0}
  /\ WeightOf \in [{"xsh"} \cup Programs -> 1 .. WeightMax]
  /\ Default \in Overrides

\* The scheduler sees one waiting state.
Coarse(t) == IF state[t] \in WaitStates THEN "WAIT" ELSE state[t]

Sched == INSTANCE Scheduler WITH
  WeightArgs <- {WeightOf[p] : p \in {"xsh"} \cup Programs},
  state <- [t \in Tasks |-> Coarse(t)]

\* BOOT_AUTOSTART of every target: xsh alone, in slot 0.
KInit ==
  /\ Init
  /\ state = [t \in Tasks |-> IF t = 0 THEN "READY" ELSE "UNUSED"]
  /\ weight = [t \in Tasks |-> IF t = 0 THEN WeightOf["xsh"] ELSE 0]
  /\ budget = weight
  /\ stop_flag = [t \in Tasks |-> FALSE]
  /\ current = 0
  /\ passed = [t \in Tasks |-> 0]
  /\ prog = [t \in Tasks |-> IF t = 0 THEN "xsh" ELSE Nobody]
  /\ at = [t \in Tasks |-> "begin"]
  /\ command = NoCommand
  /\ override = [p \in Programs |-> Default] /\ told = override

\* The tick, inside a tick handler that touches nothing else of this module.
KTick == UNCHANGED <<vars, progVars>> /\ Sched!Tick

\* Program p executes in the current slot t, outside a HALT loop.
Executes(t, p) == t = current /\ prog[t] = p /\ CanRun(t)

Move(t, from, to) == at[t] = from /\ at' = [at EXCEPT ![t] = to]

----------------------------------------------------------------------------
(* main_b and main_c *)

\* What comes before the loop: the program reads its start arguments.
Begins(t) ==
  /\ Executes(t, "b") \/ Executes(t, "c")
  /\ Move(t, "begin", "check")
  /\ UNCHANGED <<vars, schedVars, prog, command, argVars>>

\* Mutant: the loop of the program looks only at the result of the queue.
CheckStopMutant(t) ==
  /\ Executes(t, "b") \/ Executes(t, "c")
  /\ Move(t, "check", "use")
  /\ UNCHANGED <<vars, schedVars, prog, command, argVars>>

\* rtos_task_stop_requested at the top of either loop.
CheckStop(t) ==
  /\ Executes(t, "b") \/ Executes(t, "c")
  /\ Move(t, "check", IF stop_flag[t] THEN "leave" ELSE "use")
  /\ UNCHANGED <<vars, schedVars, prog, command, argVars>>

\* task_exit at the end of each program.
Exits(t) ==
  /\ QRemove(t)
  /\ Sched!TaskExit
  /\ prog' = [prog EXCEPT ![t] = Nobody]
  /\ UNCHANGED <<command, argVars>>

Leave(t) ==
  /\ Executes(t, "b") \/ Executes(t, "c")
  /\ Move(t, "leave", "begin")
  /\ Exits(t)

\* ipc_demo_send_u16: ipc_queue_try_send, its result ignored.
TrySend(t) ==
  /\ Executes(t, "b")
  /\ \/ /\ Move(t, "use", "busy")
        /\ \E v \in Items : SendTakes(t, v)
     \/ /\ Move(t, "use", "check")
        /\ count["slots"] <= 0
        /\ UNCHANGED vars
  /\ UNCHANGED <<schedVars, prog, command, argVars>>

\* ipc_demo_recv_u16: ipc_queue_recv.
Recv(t) ==
  /\ Executes(t, "c")
  /\ Move(t, "use", "busy")
  /\ RecvTakes(t) \/ RecvWaits(t)
  /\ UNCHANGED <<schedVars, prog, command, argVars>>

\* The rest of either operation; a failed wait goes straight to the check.
InsideQueue(t) ==
  /\ t = current
  /\ at[t] = "busy"
  /\ Push(t) \/ Pop(t) \/ Finish(t) \/ RecvResumes(t)
  /\ at' = [at EXCEPT ![t] = IF pc'[t] = "idle" THEN "check" ELSE @]
  /\ UNCHANGED <<schedVars, prog, command, argVars>>

----------------------------------------------------------------------------
(* xsh: the commands that change kernel state, typed at any time.  Each     *)
(* looks the name up with interrupts enabled and acts on what it found.      *)

\* Mutant: names of the same length are taken for equal.
NamedMutant(s, p) == prog[s] \in Programs

\* xsh_cmd_find_task_by_name stops at slot s.
Named(s, p) == prog[s] = p

Runs(p) == \E s \in Tasks : Named(s, p)

ShellReady == Executes(current, "xsh") /\ command = NoCommand

\* cmd_start latches the arguments when the program does not run ...
StartCommandLooks(p, args) ==
  /\ ShellReady
  /\ command'  = [NoCommand EXCEPT !.op = "start", !.name = p, !.args = args, !.fresh = ~Runs(p)]
  /\ override' = IF Runs(p) THEN override ELSE [override EXCEPT ![p] = args]
  /\ UNCHANGED <<vars, schedVars, prog, at, told>>

\* ... and resets them when it does not take them.
StartCommandRejects(p) ==
  /\ ShellReady
  /\ ~Runs(p)
  /\ override' = [override EXCEPT ![p] = Default]
  /\ UNCHANGED <<vars, schedVars, prog, at, command, told>>

\* It looks a second time and registers the program, or reports that it runs
\* already, or that there is no slot.
StartCommandActs ==
  /\ Executes(current, "xsh") /\ command.op = "start"
  /\ command' = NoCommand
  /\ LET p == command.name IN
       IF Runs(p)
       THEN UNCHANGED <<vars, schedVars, prog, at, argVars>>
       ELSE IF \A s \in Tasks : state[s] # "UNUSED"
       THEN /\ override' = IF command.fresh THEN [override EXCEPT ![p] = Default] ELSE override
            /\ UNCHANGED <<vars, schedVars, prog, at, told>>
       ELSE \E s \in Tasks :
              /\ Sched!LowestUnused(s)
              /\ QStart(s)
              /\ Sched!Register(WeightOf[p])
              /\ prog' = [prog EXCEPT ![s] = p]
              /\ at'   = [at EXCEPT ![s] = "begin"]
              /\ told' = [told EXCEPT ![p] = command.args]
              /\ UNCHANGED override

\* cmd_stop finds the slot ...
StopCommandFinds(p) ==
  /\ ShellReady
  /\ \E s \in Tasks :
       Named(s, p) /\ command' = [NoCommand EXCEPT !.op = "stop", !.name = p, !.slot = s]
  /\ UNCHANGED <<vars, schedVars, prog, at, argVars>>

\* Mutant: a waiting task gets the flag and stays asleep.
WakeForStopMutant(t) == UNCHANGED vars

WakeForStop(t) == IF Asleep(t) THEN QStop(t) ELSE UNCHANGED vars

\* ... and asks the slot it found to stop, if it is still used.
StopCommandAsks ==
  /\ Executes(current, "xsh") /\ command.op = "stop"
  /\ LET s == command.slot IN
     IF state[s] = "UNUSED"
     THEN UNCHANGED <<vars, schedVars>>
     ELSE /\ WakeForStop(s)
          /\ UNCHANGED <<weight, budget, current, passed>>
          /\ stop_flag' = [stop_flag EXCEPT ![s] = TRUE]
  /\ command' = NoCommand
  /\ UNCHANGED <<prog, at, argVars>>

\* main_xsh, asked to stop like any other program.
ShellLeaves ==
  /\ ShellReady
  /\ stop_flag[current]
  /\ Exits(current)
  /\ UNCHANGED at

----------------------------------------------------------------------------
Program(t) ==
  Begins(t) \/ CheckStop(t) \/ Leave(t) \/ TrySend(t) \/ Recv(t) \/ InsideQueue(t)

Shell ==
  \/ \E p \in Programs : StartCommandRejects(p) \/ \E args \in Overrides : StartCommandLooks(p, args)
  \/ StartCommandActs
  \/ \E p \in {"xsh"} \cup Programs : StopCommandFinds(p)
  \/ StopCommandAsks
  \/ ShellLeaves

KNext == KTick \/ Shell \/ \E t \in Tasks : Program(t)

KSpec == KInit /\ [][KNext]_kvars

\* Ticks keep coming, and a tick period is long enough for a program that
\* gets the CPU again and again to pass through its sections.
KFairSpec ==
  /\ KSpec
  /\ WF_kvars(KTick)
  /\ \A t \in Tasks : SF_kvars(Program(t))

----------------------------------------------------------------------------
KTypeOK ==
  /\ TypeOK
  /\ Sched!TypeOK
  /\ prog \in [Tasks -> {"xsh", Nobody} \cup Programs]
  /\ at \in [Tasks -> {"begin", "check", "use", "busy", "leave"}]
  /\ command \in [op : {"none", "start", "stop"}, name : {"xsh", Nobody} \cup Programs,
                  slot : 0 .. MaxTasks, args : Overrides, fresh : BOOLEAN]
  /\ override \in [Programs -> Overrides] /\ told \in [Programs -> Overrides]

\* Blocking, waking, stopping, starting and leaving, as ipc.c and the
\* programs do them, are what Scheduler allows; so its bounded waiting
\* holds of the composed kernel.
ImplementsScheduler == Sched!Spec

\* The slot xsh looked up is, when the stop request reaches it, still the
\* program the user named, or free (xsh_cmd.c:377-383): a program that
\* leaves in between never makes the request hit another one.
StopNotMisdirected ==
  command.op = "stop" => prog[command.slot] \in {command.name, Nobody}

\* What task_b/args_b.c:45 and :66 say: a start with no argument clears any
\* previous override, and a fresh start is deterministic.  A program begins
\* with the arguments of the command that started it.
StartsAsTold ==
  \A t \in Tasks, p \in Programs :
    prog[t] = p /\ at[t] = "begin" => override[p] = told[p]

\* The producer honours every stop request.
ProducerStops ==
  \A t \in Tasks : (prog[t] = "b" /\ stop_flag[t]) ~> (prog[t] # "b")

\* The consumer honours a stop request as long as the producer runs: it may
\* have read its flag just before the request and block after it, and then
\* only the next item wakes it (main_c.c:73-76).
ConsumerStops ==
  \A t \in Tasks : (prog[t] = "c" /\ stop_flag[t]) ~> (prog[t] # "c" \/ ~Runs("b"))

=============================================================================
