------------------------------ MODULE Control ------------------------------
(***************************************************************************)
(* The kernel control channel, TTY 15: the host queues requests            *)
(* (src/openmsx/zlink.tcl), the tick takes one of them per poll and        *)
(* answers it at once from the task table, with interrupts masked          *)
(* (zbus_kernel_handle_control in src/src/drivers/zbus.c), and the host    *)
(* prints each answer.  A task list that does not fit in one frame comes   *)
(* in several; between any two frames the user may give the host another   *)
(* command.  The host has one flag for each kind of answer that somebody   *)
(* wants as JSON, and one accumulator for task lists; an answer does not   *)
(* say which request it is for.                                            *)
(*                                                                         *)
(* The requests for JSON carry a number here, which the code does not      *)
(* have: it lets the properties say what an answer belongs to.             *)
(***************************************************************************)
EXTENDS Integers, FiniteSets, FiniteSetsExt, SequencesExt

CONSTANTS
  MaxTasks,   \* MAX_TASKS
  PerFrame,   \* task list entries in a frame of 64 bytes, 5
  Boot,       \* the slots of BOOT_AUTOSTART
  Targets,    \* the task numbers that users ask for
  MaxQueued   \* bound: requests that wait at the host

Slots == 0 .. MaxTasks - 1

ASSUME ControlAssumption ==
  /\ MaxTasks \in Nat \ {0} /\ PerFrame \in Nat \ {0} /\ MaxQueued \in Nat \ {0}
  /\ Boot \subseteq Slots /\ Targets \subseteq Nat

Kinds    == {"stats", "info", "list"}           \* the answers with a JSON form
Commands == Kinds \cup {"stack", "reset", "unknown"}
Current  == -1                                  \* no task number: g_current_task

VARIABLES
  used,      \* the slots of g_tasks that are not TASK_UNUSED
  requests,  \* pending_data, the part of it for TTY 15
  replies,   \* what the tick under way has still to send; empty outside of it
  items,     \* kernel_task_list_items
  pending,   \* kernel_stats_json_pending, .._task_info_.., .._task_list_..
  asked      \* history: the request that set each flag, and whether its
             \*   answer could be told from others

vars == <<used, requests, replies, items, pending, asked>>

\* The answers that a request has: an unknown command gets statistics.
Answer(cmd) == IF cmd = "unknown" THEN "stats" ELSE cmd

Numbers == 1 .. MaxQueued + 4
InUse   == {r.number : r \in ToSet(requests)} \cup {f.number : f \in ToSet(replies)}
           \cup {asked[kind].number : kind \in {k \in Kinds : pending[k]}}
Fresh   == Min(Numbers \ InUse)

Outstanding(kind) ==
  \/ \E r \in ToSet(requests) : Answer(r.cmd) = kind
  \/ \E f \in ToSet(replies) : f.answer = kind

Nobody == [number |-> 0, alone |-> FALSE]

Init ==
  /\ used = Boot
  /\ requests = <<>> /\ replies = <<>> /\ items = <<>>
  /\ pending = [kind \in Kinds |-> FALSE]
  /\ asked = [kind \in Kinds |-> Nobody]

----------------------------------------------------------------------------
(* The user, at the host *)

Request(cmd, good, target, number) ==
  [cmd |-> cmd, good |-> good, target |-> target, number |-> number]

Queued(r) ==
  /\ Len(requests) < MaxQueued
  /\ requests' = Append(requests, r)

\* get_task_list empties the accumulator, also between two frames of a list.
Accumulator(cmd) == IF cmd = "list" THEN <<>> ELSE items

\* History: a list that loses its beginning is no longer the answer.
Spoils(kind, cmd) == kind = "list" /\ cmd = "list" /\ \E f \in ToSet(replies) : f.answer = "list"

\* get_stats, get_task_info, get_task_list, get_stack_wm
Ask ==
  \E cmd \in Kinds \cup {"stack"} :
  \E target \in IF cmd \in {"info", "stack"} THEN Targets \cup {Current} ELSE {Current} :
    /\ Queued(Request(cmd, TRUE, target, 0))
    /\ items' = Accumulator(cmd)
    /\ asked' = [kind \in Kinds |->
                   [asked[kind] EXCEPT !.alone = asked[kind].alone /\ ~Spoils(kind, cmd)]]
    /\ UNCHANGED <<used, replies, pending>>

\* queue_hex: any command, with its length right or wrong, and no more.
AskRaw ==
  \E cmd \in Commands, good \in BOOLEAN :
    /\ Queued(Request(cmd, good, Current, 0))
    /\ UNCHANGED <<used, replies, items, pending, asked>>

\* get_stats_json, get_task_info_json, get_task_list_json
AskJson ==
  \E cmd \in Kinds :
  \E target \in IF cmd = "info" THEN Targets \cup {Current} ELSE {Current} :
    LET r == Request(cmd, TRUE, target, Fresh) IN
    /\ Queued(r)
    /\ items' = Accumulator(cmd)
    /\ pending' = [pending EXCEPT ![cmd] = TRUE]
    /\ asked' = [asked EXCEPT ![cmd] = [number |-> r.number,
                                         alone |-> ~Outstanding(cmd) /\ ~pending[cmd]]]
    /\ UNCHANGED <<used, replies>>

----------------------------------------------------------------------------
(* The kernel *)

\* Programs start and leave, but not inside the tick.
TableChanges ==
  /\ replies = <<>>
  /\ \E slot \in Slots :
       used' = IF slot \in used THEN used \ {slot} ELSE used \cup {slot}
  /\ UNCHANGED <<requests, replies, items, pending, asked>>

Frame(r, good, more, part, whole) ==
  [answer |-> Answer(r.cmd), good |-> good, more |-> more, items |-> part, whole |-> whole,
   number |-> r.number]

Error(r) == <<Frame(r, FALSE, FALSE, <<>>, <<>>)>>

Entry(slot) == [slot |-> slot, used |-> slot \in used]

\* The loop over g_tasks comes to the slots in use in rising order.
Nth(slots, i) == CHOOSE slot \in slots : Cardinality({s \in slots : s < slot}) = i - 1

TaskList == [i \in 1 .. Cardinality(used) |-> Entry(Nth(used, i))]

\* Mutant: no fragment says that more will come.
FramesMutant2(r) ==
  LET count == Max({1, (Len(TaskList) + PerFrame - 1) \div PerFrame}) IN
  [i \in 1 .. count |->
     Frame(r, TRUE, FALSE,
           SubSeq(TaskList, (i - 1) * PerFrame + 1, Min({i * PerFrame, Len(TaskList)})), TaskList)]

\* A frame is sent when the next entry does not fit, and the last at the end.
Frames(r) ==
  LET count == Max({1, (Len(TaskList) + PerFrame - 1) \div PerFrame}) IN
  [i \in 1 .. count |->
     Frame(r, TRUE, i < count,
           SubSeq(TaskList, (i - 1) * PerFrame + 1, Min({i * PerFrame, Len(TaskList)})), TaskList)]

\* What is said of one task: its number, and whether the slot is in use.
\* The watermark of an unused slot is an error; so is a number too high.
AboutTask(r, slot) ==
  IF slot \notin Slots \/ (r.cmd = "stack" /\ slot \notin used) THEN Error(r)
  ELSE <<Frame(r, TRUE, FALSE, <<Entry(slot)>>, <<Entry(slot)>>)>>

\* zbus_kernel_handle_control
Handle(r, current) ==
  IF ~r.good \/ r.cmd = "unknown" THEN Error(r)
  ELSE CASE r.cmd = "list" -> Frames(r)
         [] r.cmd \in {"info", "stack"} ->
              AboutTask(r, IF r.target = Current THEN current ELSE r.target)
         [] OTHER -> <<Frame(r, TRUE, FALSE, <<>>, <<>>)>>

\* The tick polls; whatever task it interrupted is g_current_task.
KernelTick ==
  /\ replies = <<>> /\ requests # <<>>
  /\ requests' = Tail(requests)
  /\ \E current \in Slots : replies' = Handle(Head(requests), current)
  /\ UNCHANGED <<used, items, pending, asked>>

----------------------------------------------------------------------------
(* handle_msx_frame, for DATA on TTY 15 *)

\* Mutant: the JSON flag of a list is left set by a fragment that fails.
AnsweredMutant(f) == f.answer \in Kinds /\ f.good /\ ~f.more

\* The frame answers the flag of its kind: a fragment of a list does not.
Answered(f) == f.answer \in Kinds /\ ~f.more

\* Mutant: what has been collected is kept after the last fragment.
CollectedMutant(f) == IF f.answer # "list" THEN items ELSE items \o f.items

\* The accumulator once the frame is read.
Collected(f) ==
  IF f.answer # "list" THEN items
  ELSE IF f.good /\ f.more THEN items \o f.items ELSE <<>>

\* What is printed for a frame: a list with the fragments before it.
Shown(f) == IF f.answer = "list" THEN items \o f.items ELSE f.items

Deliver ==
  /\ replies # <<>>
  /\ LET f == Head(replies) IN
       /\ items' = Collected(f)
       /\ IF Answered(f)
          THEN /\ pending' = [pending EXCEPT ![f.answer] = FALSE]
               /\ asked' = [asked EXCEPT ![f.answer] = Nobody]
          ELSE UNCHANGED <<pending, asked>>
  /\ replies' = Tail(replies)
  /\ UNCHANGED <<used, requests>>

\* on_reset: the machine is reset, also in the middle of an answer, and
\* the host forgets everything; the boot programs are in the table again.
Reset ==
  /\ used' = Boot
  /\ requests' = <<>> /\ replies' = <<>> /\ items' = <<>>
  /\ pending' = [kind \in Kinds |-> FALSE]
  /\ asked' = [kind \in Kinds |-> Nobody]

Next == Ask \/ AskRaw \/ AskJson \/ TableChanges \/ KernelTick \/ Deliver \/ Reset

\* The tick goes on, and what it sends arrives.
Fairness == WF_vars(KernelTick) /\ WF_vars(Deliver)

Spec == Init /\ [][Next]_vars /\ Fairness

----------------------------------------------------------------------------
\* The frame that comes next
Arriving == IF replies = <<>> THEN {} ELSE {Head(replies)}

\* A task list is never put together from two answers: whatever requests,
\* errors and resets come between its frames, what is printed is the end of
\* one snapshot of the table (zlink.tcl:572-577, 833-890).
NoMix ==
  \A f \in Arriving : f.answer = "list" /\ f.good /\ ~f.more => IsSuffix(Shown(f), f.whole)

\* An answer carries no number, so a JSON flag is answered by the next reply
\* of its kind.  It is the whole reply to the right request when none of
\* that kind was under way at the time and no second list was asked for in
\* the middle of the first (zlink.tcl:544-583, 818-890, README.md:225).
JsonIsItsAnswer ==
  \A f \in Arriving :
    Answered(f) /\ asked[f.answer].alone =>
      /\ f.number = asked[f.answer].number
      /\ Shown(f) = f.whole

\* Every JSON request is answered, whatever else the user asks for and
\* however many programs run: no list is without a last fragment
\* (zbus.c:288-331).
JsonComes == \A kind \in Kinds : pending[kind] ~> ~pending[kind]

=============================================================================
