---------------------------- MODULE KernelProofs ----------------------------
(***************************************************************************)
(* ipc.c, and the kernel it is composed into, for every number of tasks    *)
(* and semaphores, capacity, set of items and of weights: the semaphores   *)
(* lose no wake-up under the most general client, the queue is a client of *)
(* its semaphores, and its ring implements the bounded channel; the kernel *)
(* is a client of the queue and an implementation of the abstract          *)
(* scheduler, so the theorems about both hold of it.                       *)
(*                                                                         *)
(* WaitersConsistent and NoLostWakeup are inductive together with the      *)
(* types: a signal finds a non-empty mask only with a zero count, and a    *)
(* waiter it finds is asleep because mask bit, wait_obj and state agree.   *)
(*                                                                         *)
(* The ring needs one fact beyond the types: head is used places after     *)
(* tail, modulo the capacity (RingShape).  It holds whatever permits are   *)
(* lost, because ipc_queue_push_locked and ipc_queue_pop_locked test used  *)
(* themselves.                                                             *)
(*                                                                         *)
(* That permits are conserved is a count: each is free, an item, or held   *)
(* by one task between two sections of its operation (see Permits below).  *)
(*                                                                         *)
(* What the steps of the composition need of each other is little: who is  *)
(* current, and that the slot a command found is a slot (ControlOK).  From *)
(* the queue's invariant the refinement takes that a task handed a permit  *)
(* was asleep, and that a task that is not asleep is READY or gone.        *)
(***************************************************************************)
EXTENDS Kernel, SequenceTheorems, FiniteSetTheorems, TLAPS

----------------------------------------------------------------------------
(* The semaphores. *)

SemIInv == SemTypeOK /\ WaitersConsistent /\ NoLostWakeup

LEMMA SemInitIInv == SemInit => SemIInv
  BY SemaphoreAssumption
     DEF SemInit, SemIInv, SemTypeOK, WaitersConsistent, NoLostWakeup, WaitStates

LEMMA TakeIInv ==
  ASSUME SemIInv, NEW t \in Tasks, NEW s \in Sems, Take(t, s)
  PROVE  SemIInv'
<1> USE SemaphoreAssumption DEF SemIInv, Take, taskVars
<1>1. SemTypeOK'
  BY DEF SemTypeOK
<1>2. WaitersConsistent'
  BY DEF WaitersConsistent
<1>3. NoLostWakeup'
  BY DEF NoLostWakeup, SemTypeOK
<1>4. QED
  BY <1>1, <1>2, <1>3

LEMMA WaitIInv ==
  ASSUME SemIInv, NEW t \in Tasks, NEW s \in Sems, NEW ws \in WaitStates, Wait(t, s, ws)
  PROVE  SemIInv'
<1> USE SemaphoreAssumption DEF SemIInv, Wait, CanRun, WaitStates
<1>1. SemTypeOK'
  BY DEF SemTypeOK
<1>2. WaitersConsistent'
  <2>1. wait_obj[t] = NoObj
    BY DEF WaitersConsistent, SemTypeOK
  <2> SUFFICES ASSUME NEW u \in Tasks
               PROVE  /\ \A r \in Sems : u \in wait_mask'[r] <=> wait_obj'[u] = r
                      /\ wait_obj'[u] # NoObj <=> state'[u] \in WaitStates
                      /\ wait_obj'[u] # NoObj => u \in spinning'
    BY DEF WaitersConsistent
  <2>2. \A r \in Sems : u \in wait_mask'[r] <=> wait_obj'[u] = r
    BY <2>1 DEF WaitersConsistent, SemTypeOK
  <2>3. wait_obj'[u] # NoObj <=> state'[u] \in WaitStates
    BY <2>1 DEF WaitersConsistent, SemTypeOK
  <2>4. wait_obj'[u] # NoObj => u \in spinning'
    BY <2>1 DEF WaitersConsistent, SemTypeOK
  <2>5. QED
    BY <2>2, <2>3, <2>4
<1>3. NoLostWakeup'
  BY DEF NoLostWakeup, SemTypeOK
<1>4. QED
  BY <1>1, <1>2, <1>3

LEMMA ResumeIInv ==
  ASSUME SemIInv, NEW t \in Tasks, Resume(t)
  PROVE  SemIInv'
<1> USE DEF SemIInv, Resume, semVars
<1>1. SemTypeOK'
  BY DEF SemTypeOK
<1>2. WaitersConsistent'
  BY DEF WaitersConsistent, WaitStates
<1>3. NoLostWakeup'
  BY DEF NoLostWakeup
<1>4. QED
  BY <1>1, <1>2, <1>3

\* The waiter a signal finds is asleep on that very semaphore.
LEMMA FirstWaiterSleeps ==
  ASSUME SemIInv, NEW w \in Tasks, NEW s \in Sems, IsFirstWaiter(w, s)
  PROVE  wait_obj[w] = s /\ state[w] \in WaitStates /\ w \in spinning
  BY SemaphoreAssumption DEF SemIInv, IsFirstWaiter, WaitersConsistent

LEMMA HandOffIInv ==
  ASSUME SemIInv, NEW s \in Sems, HandOff(s)
  PROVE  SemIInv'
<1> USE SemaphoreAssumption DEF SemIInv
<1>1. PICK w \in Tasks :
        /\ IsFirstWaiter(w, s)
        /\ wait_mask' = [wait_mask EXCEPT ![s] = @ \ {w}]
        /\ wait_obj'    = [wait_obj EXCEPT ![w] = NoObj]
        /\ wait_status' = [wait_status EXCEPT ![w] = TRUE]
        /\ state'       = [state EXCEPT ![w] = "READY"]
        /\ UNCHANGED <<count, spinning>>
  BY FirstWaiterSleeps DEF HandOff, WaitStates
<1>2. SemTypeOK'
  BY <1>1 DEF SemTypeOK
<1>3. WaitersConsistent'
  BY <1>1, FirstWaiterSleeps DEF WaitersConsistent, SemTypeOK, WaitStates
<1>4. NoLostWakeup'
  BY <1>1 DEF NoLostWakeup, SemTypeOK, IsFirstWaiter
<1>5. QED
  BY <1>2, <1>3, <1>4

LEMMA ReleaseIInv ==
  ASSUME SemIInv, NEW s \in Sems, Release(s)
  PROVE  SemIInv'
<1> USE SemaphoreAssumption DEF SemIInv, Release, Raised, taskVars
<1>1. SemTypeOK'
  BY DEF SemTypeOK
<1>2. WaitersConsistent'
  BY DEF WaitersConsistent
<1>3. NoLostWakeup'
  BY DEF NoLostWakeup, SemTypeOK
<1>4. QED
  BY <1>1, <1>2, <1>3

\* A stop request and a removal clear the waiter's records the same way.
LEMMA ForgetIInv ==
  ASSUME SemIInv, NEW t \in Tasks, NEW v \in {"READY", "UNUSED"},
         wait_mask'   = MaskWithout(t),
         wait_obj'    = [wait_obj EXCEPT ![t] = NoObj],
         wait_status' = [wait_status EXCEPT ![t] = FALSE],
         state'       = [state EXCEPT ![t] = v],
         spinning' \in {spinning, spinning \ {t}},
         UNCHANGED count
  PROVE  SemIInv'
<1> USE SemaphoreAssumption DEF SemIInv, MaskWithout
<1>1. SemTypeOK'
  BY DEF SemTypeOK
<1>2. WaitersConsistent'
  <2> SUFFICES ASSUME NEW u \in Tasks
               PROVE  /\ \A r \in Sems : u \in wait_mask'[r] <=> wait_obj'[u] = r
                      /\ wait_obj'[u] # NoObj <=> state'[u] \in WaitStates
                      /\ wait_obj'[u] # NoObj => u \in spinning'
    BY DEF WaitersConsistent
  <2>1. \A r \in Sems : u \in wait_mask'[r] <=> wait_obj'[u] = r
    BY DEF WaitersConsistent, SemTypeOK
  <2>2. wait_obj'[u] # NoObj <=> state'[u] \in WaitStates
    BY DEF WaitersConsistent, SemTypeOK, WaitStates
  <2>3. wait_obj'[u] # NoObj => u \in spinning'
    BY DEF WaitersConsistent, SemTypeOK
  <2>4. QED
    BY <2>1, <2>2, <2>3
<1>3. NoLostWakeup'
  BY DEF NoLostWakeup, SemTypeOK
<1>4. QED
  BY <1>1, <1>2, <1>3

LEMMA StartIInv ==
  ASSUME SemIInv, NEW t \in Tasks, Start(t)
  PROVE  SemIInv'
<1> USE DEF SemIInv, Start, semVars
<1>1. SemTypeOK'
  BY DEF SemTypeOK
<1>2. WaitersConsistent'
  BY DEF WaitersConsistent, SemTypeOK, WaitStates
<1>3. NoLostWakeup'
  BY DEF NoLostWakeup
<1>4. QED
  BY <1>1, <1>2, <1>3

LEMMA SemNextIInv ==
  ASSUME SemIInv, [SemNext]_svars
  PROVE  SemIInv'
<1>1. CASE UNCHANGED svars
  BY <1>1 DEF svars, SemIInv, SemTypeOK, WaitersConsistent, NoLostWakeup
<1>2. ASSUME NEW t \in Tasks, NEW s \in Sems,
             Take(t, s) \/ (\E ws \in WaitStates : Wait(t, s, ws)) \/ Signal(t, s)
      PROVE  SemIInv'
  BY <1>2, TakeIInv, WaitIInv, HandOffIInv, ReleaseIInv DEF Signal
<1>3. ASSUME NEW t \in Tasks, Resume(t) \/ Start(t)
      PROVE  SemIInv'
  BY <1>3, ResumeIInv, StartIInv
<1>4. ASSUME NEW t \in Tasks, RequestStop(t)
      PROVE  SemIInv'
  BY <1>4, ForgetIInv DEF RequestStop, Asleep
<1>5. ASSUME NEW t \in Tasks, Remove(t)
      PROVE  SemIInv'
  BY <1>5, ForgetIInv DEF Remove, MarkUnused
<1>6. QED
  BY <1>1, <1>2, <1>3, <1>4, <1>5 DEF SemNext

----------------------------------------------------------------------------
THEOREM SemInvariance == SemSpec => []SemIInv
  BY SemInitIInv, SemNextIInv, PTL DEF SemSpec

\* Mask bits, wait objects and waiting states never disagree, so a permit is
\* only ever handed to the task that waits for it (ipc.c:181-207, 331-341).
THEOREM WaitersAlwaysConsistent == SemSpec => []WaitersConsistent
  BY SemInvariance, PTL DEF SemIInv

\* No task sleeps on a semaphore that has a permit (ipc.c:29-67).
THEOREM WakeupsAreNotLost == SemSpec => []NoLostWakeup
  BY SemInvariance, PTL DEF SemIInv

\* Once a wait has succeeded nothing but the removal of the task takes the
\* permit back (ipc.c:66, rtos.c:440).
THEOREM PermitsSurvive == SemSpec => PermitSurvives
<1>1. ASSUME SemIInv, [SemNext]_svars, NEW t \in Tasks,
             t \in spinning, wait_status[t], state[t] = "READY", state'[t] # "UNUSED"
      PROVE  wait_status'[t] /\ state'[t] = "READY"
  <2> USE <1>1 DEF SemIInv
  <2>1. wait_obj[t] = NoObj
    BY DEF WaitersConsistent, SemTypeOK, WaitStates
  <2>2. CASE UNCHANGED svars
    BY <2>2 DEF svars
  <2>3. ASSUME NEW u \in Tasks, NEW s \in Sems,
               Take(u, s) \/ (\E ws \in WaitStates : Wait(u, s, ws)) \/ Release(s)
        PROVE  wait_status'[t] /\ state'[t] = "READY"
    BY <2>3 DEF Take, Wait, Release, CanRun, taskVars, SemTypeOK
  <2>4. ASSUME NEW s \in Sems, HandOff(s)
        PROVE  wait_status'[t] /\ state'[t] = "READY"
    BY <2>4 DEF HandOff, SemTypeOK
  <2>5. ASSUME NEW u \in Tasks, Resume(u) \/ RequestStop(u) \/ Remove(u) \/ Start(u)
        PROVE  wait_status'[t] /\ state'[t] = "READY"
    BY <2>1, <2>5 DEF Resume, RequestStop, Asleep, Remove, MarkUnused, Start, semVars, SemTypeOK
  <2>6. QED
    BY <2>2, <2>3, <2>4, <2>5 DEF SemNext, Signal
<1>2. SemIInv /\ [SemNext]_svars =>
        [ \A t \in Tasks :
            t \in spinning /\ wait_status[t] /\ state[t] = "READY" /\ state'[t] # "UNUSED"
              => wait_status'[t] /\ state'[t] = "READY" ]_svars
  BY <1>1
<1>3. QED
  BY <1>2, SemInvariance, PTL DEF SemSpec, PermitSurvives

----------------------------------------------------------------------------
(* The ring. *)

\* Where the i-th place from tail is.
Place(i) == IF tail + i >= Capacity THEN tail + i - Capacity ELSE tail + i

RingShape ==
  /\ storage \in [0 .. Capacity - 1 -> Items \cup {NoItem}]
  /\ head \in 0 .. Capacity - 1
  /\ tail \in 0 .. Capacity - 1
  /\ used \in 0 .. Capacity
  /\ head = Place(used)

ProgramShape ==
  /\ pc  \in [Tasks -> PCs]
  /\ msg \in [Tasks -> Items \cup {NoItem}]
  /\ \A t \in Tasks : pc[t] \in {"wait_slots", "push"} => msg[t] \in Items
  /\ kills \in 0 .. MaxKills

QIInv == SemIInv /\ RingShape /\ ProgramShape

----------------------------------------------------------------------------
\* A step of the queue is a step of the general client of its semaphores.
LEMMA QueueStepIsSemStep ==
  ASSUME [Next]_vars
  PROVE  [SemNext]_svars
<1> USE QueueAssumption DEF QSems, WaitStates
<1>1. ASSUME NEW t \in Tasks, NEW v \in Items, SendTakes(t, v) \/ SendWaits(t, v)
      PROVE  SemNext
  BY <1>1 DEF SendTakes, SendWaits, SemNext
<1>2. ASSUME NEW t \in Tasks, SendResumes(t) \/ RecvResumes(t)
      PROVE  SemNext
  BY <1>2 DEF SendResumes, RecvResumes, SemNext
<1>3. ASSUME NEW t \in Tasks, RecvTakes(t) \/ RecvWaits(t)
      PROVE  SemNext
  BY <1>3 DEF RecvTakes, RecvWaits, SemNext
<1>4. ASSUME NEW t \in Tasks, Push(t) \/ Pop(t)
      PROVE  UNCHANGED svars
  BY <1>4 DEF Push, Pop, svars
<1>5. ASSUME NEW t \in Tasks, Finish(t)
      PROVE  SemNext
  BY <1>5 DEF Finish, SemNext
<1>6. ASSUME NEW t \in Tasks, QStop(t) \/ QStart(t) \/ QRemove(t)
      PROVE  SemNext
  BY <1>6 DEF QStop, QStart, QRemove, SemNext
<1>7. CASE UNCHANGED vars
  BY <1>7 DEF vars
<1>8. QED
  BY <1>1, <1>2, <1>3, <1>4, <1>5, <1>6, <1>7 DEF Next

\* The queue refines the general semaphore client.
THEOREM QueueUsesSemaphores == Spec => SemSpec
<1>1. Init => SemInit
  BY DEF Init
<1>2. QED
  BY <1>1, QueueStepIsSemStep, PTL DEF Spec, SemSpec

\* So the queue's tasks miss no wake-up either (ipc.c:229-315).
THEOREM QueueWakeupsAreNotLost == Spec => [](WaitersConsistent /\ NoLostWakeup)
  BY QueueUsesSemaphores, SemInvariance, PTL DEF SemIInv

----------------------------------------------------------------------------
(* The inductive invariant of the ring. *)

LEMMA QInitIInv == Init => QIInv
<1> SUFFICES ASSUME Init PROVE QIInv
  OBVIOUS
<1> USE QueueAssumption, SemaphoreAssumption
<1>1. SemIInv
  BY SemInitIInv DEF Init
<1>2. RingShape
  BY DEF Init, RingShape, Place
<1>3. ProgramShape
  BY DEF Init, ProgramShape, PCs
<1>4. QED
  BY <1>1, <1>2, <1>3 DEF QIInv

LEMMA PushRing ==
  ASSUME QIInv, NEW t \in Tasks, Push(t)
  PROVE  RingShape'
<1> USE QueueAssumption, SemaphoreAssumption DEF QIInv, RingShape, Push, Place
<1>1. CASE used < Capacity
  <2>1. msg[t] \in Items
    BY DEF ProgramShape, Goto
  <2>2. storage' \in [0 .. Capacity - 1 -> Items \cup {NoItem}]
    BY <1>1, <2>1 DEF Written
  <2>3. head' = Wrap(head + 1) /\ used' = used + 1 /\ tail' = tail
    BY <1>1
  <2>4. QED
    BY <1>1, <2>2, <2>3 DEF Wrap
<1>2. CASE ~(used < Capacity)
  BY <1>2
<1>3. QED
  BY <1>1, <1>2

LEMMA PopRing ==
  ASSUME QIInv, NEW t \in Tasks, Pop(t)
  PROVE  RingShape'
<1> USE QueueAssumption, SemaphoreAssumption DEF QIInv, RingShape, Pop, Place
<1>1. CASE used > 0
  BY <1>1 DEF Wrap
<1>2. CASE ~(used > 0)
  BY <1>2
<1>3. QED
  BY <1>1, <1>2

\* Every other step leaves the ring alone.
LEMMA OtherStepsKeepRing ==
  ASSUME [Next]_vars, \A t \in Tasks : ~Push(t) /\ ~Pop(t)
  PROVE  UNCHANGED ringVars
  BY DEF Next, vars, ringVars, SendTakes, SendWaits, SendResumes, RecvTakes, RecvWaits,
         RecvResumes, Finish, QStop, QStart, QRemove

LEMMA NextProgram ==
  ASSUME QIInv, [Next]_vars
  PROVE  ProgramShape'
<1> USE QueueAssumption DEF QIInv, ProgramShape, Goto, PCs
<1>1. ASSUME NEW t \in Tasks, NEW v \in Items, SendTakes(t, v) \/ SendWaits(t, v)
      PROVE  ProgramShape'
  BY <1>1 DEF SendTakes, SendWaits
<1>2. ASSUME NEW t \in Tasks, SendResumes(t)
      PROVE  ProgramShape'
  BY <1>2 DEF SendResumes
<1>3. ASSUME NEW t \in Tasks, RecvTakes(t) \/ RecvWaits(t) \/ RecvResumes(t)
      PROVE  ProgramShape'
  BY <1>3 DEF RecvTakes, RecvWaits, RecvResumes
<1>4. ASSUME NEW t \in Tasks, Push(t)
      PROVE  ProgramShape'
  BY <1>4 DEF Push
<1>5. ASSUME NEW t \in Tasks, Pop(t)
      PROVE  ProgramShape'
  <2>1. used > 0 => storage[tail] \in Items \cup {NoItem}
    BY DEF RingShape
  <2>2. QED
    BY <1>5, <2>1 DEF Pop
<1>6. ASSUME NEW t \in Tasks, Finish(t) \/ QStop(t) \/ QStart(t)
      PROVE  ProgramShape'
  BY <1>6 DEF Finish, QStop, QStart
<1>7. ASSUME NEW t \in Tasks, QRemove(t)
      PROVE  ProgramShape'
  BY <1>7 DEF QRemove
<1>8. CASE UNCHANGED vars
  BY <1>8 DEF vars
<1>9. QED
  BY <1>1, <1>2, <1>3, <1>4, <1>5, <1>6, <1>7, <1>8 DEF Next

LEMMA QNextIInv ==
  ASSUME QIInv, [Next]_vars
  PROVE  QIInv'
<1>1. SemIInv'
  BY QueueStepIsSemStep, SemNextIInv DEF QIInv
<1>2. RingShape'
  <2>1. CASE UNCHANGED ringVars
    BY <2>1 DEF QIInv, RingShape, ringVars, Place
  <2>2. CASE ~UNCHANGED ringVars
    BY <2>2, OtherStepsKeepRing, PushRing, PopRing
  <2>3. QED
    BY <2>1, <2>2
<1>3. QED
  BY <1>1, <1>2, NextProgram DEF QIInv

THEOREM QInvariance == Spec => []QIInv
  BY QInitIInv, QNextIInv, PTL DEF Spec

\* Indices, counts and program positions stay in range for every capacity
\* (ipc.c:104-132): no access outside queue->storage.
THEOREM QueueTypeCorrect == Spec => []TypeOK
<1>1. QIInv => TypeOK
  BY DEF QIInv, SemIInv, RingShape, ProgramShape, TypeOK
<1>2. QED
  BY <1>1, QInvariance, PTL

----------------------------------------------------------------------------
(* Refinement of the bounded channel. *)

LEMMA ContentsIsSeq ==
  ASSUME QIInv
  PROVE  /\ Contents \in Seq(Items \cup {NoItem})
         /\ Len(Contents) = used
         /\ \A i \in 1 .. used : Contents[i] = storage[Place(i - 1)]
<1> USE QueueAssumption, SemaphoreAssumption DEF QIInv, RingShape
<1>1. \A i \in 1 .. used : Place(i - 1) \in 0 .. Capacity - 1
  BY DEF Place
<1>2. Contents = [i \in 1 .. used |-> storage[Place(i - 1)]]
  BY DEF Contents, Place
<1>3. \A i \in 1 .. used : storage[Place(i - 1)] \in Items \cup {NoItem}
  BY <1>1
<1>4. QED
  BY <1>2, <1>3, SMT

\* Going at most Capacity - 1 places on from a place of the ring stays in it.
LEMMA PlaceInRing ==
  ASSUME NEW a \in 0 .. Capacity - 1, NEW n \in 0 .. Capacity, NEW i \in 1 .. n
  PROVE  (IF a + (i - 1) >= Capacity THEN a + (i - 1) - Capacity ELSE a + (i - 1))
            \in 0 .. Capacity - 1
<1>1. Capacity \in Nat
  BY QueueAssumption, SemaphoreAssumption
<1>2. a \in Int /\ i \in Int /\ 0 <= a /\ a < Capacity /\ 1 <= i /\ i <= Capacity
  BY <1>1
<1>3. QED
  BY <1>1, <1>2

\* The same of the next state.
LEMMA NextContentsIsSeq ==
  ASSUME QIInv'
  PROVE  /\ Contents' \in Seq(Items \cup {NoItem})
         /\ Len(Contents') = used'
         /\ \A i \in 1 .. used' : Contents'[i] = storage'[Place(i - 1)']
<1> USE QueueAssumption, SemaphoreAssumption DEF QIInv, RingShape
<1>1. \A i \in 1 .. used' : Place(i - 1)' \in 0 .. Capacity - 1
  BY PlaceInRing DEF Place
<1>2. Contents' = [i \in 1 .. used' |-> storage'[Place(i - 1)']]
  BY DEF Contents, Place
<1>3. \A i \in 1 .. used' : storage'[Place(i - 1)'] \in Items \cup {NoItem}
  BY <1>1
<1>4. QED
  BY <1>2, <1>3, SMTT(60)

\* What appending does to a sequence of which the length is known.
LEMMA Appended ==
  ASSUME NEW S, NEW q \in Seq(S), NEW v \in S, NEW n \in Nat, Len(q) = n
  PROVE  /\ Append(q, v) \in Seq(S)
         /\ Len(Append(q, v)) = n + 1
         /\ \A i \in 1 .. n : Append(q, v)[i] = q[i]
         /\ Append(q, v)[n + 1] = v
  OBVIOUS

LEMMA PushAppends ==
  ASSUME QIInv, QIInv', NEW t \in Tasks, Push(t), used < Capacity
  PROVE  Contents' = Append(Contents, msg[t])
<1> USE QueueAssumption, SemaphoreAssumption DEF QIInv, RingShape
<1>1. used' = used + 1 /\ tail' = tail /\ storage' = [storage EXCEPT ![head] = msg[t]]
  BY DEF Push, Written
<1>2. /\ Contents' \in Seq(Items \cup {NoItem})
      /\ Len(Contents') = used + 1
      /\ \A i \in 1 .. used + 1 : Contents'[i] = storage'[Place(i - 1)]
  <2>1. \A i : Place(i)' = Place(i)
    BY <1>1 DEF Place
  <2>2. /\ Contents' \in Seq(Items \cup {NoItem})
        /\ Len(Contents') = used'
        /\ \A i \in 1 .. used' : Contents'[i] = storage'[Place(i - 1)']
    BY NextContentsIsSeq
  <2>3. QED
    BY <1>1, <2>1, <2>2
<1>3. \A i \in 1 .. used : storage'[Place(i - 1)] = storage[Place(i - 1)]
  <2> SUFFICES ASSUME NEW i \in 1 .. used
               PROVE  Place(i - 1) # head /\ Place(i - 1) \in 0 .. Capacity - 1
    BY <1>1
  <2>1. QED
    BY DEF Place
<1>4. storage'[Place(used)] = msg[t]
  BY <1>1
<1>5. msg[t] \in Items \cup {NoItem}
  BY DEF ProgramShape
<1>6. /\ Append(Contents, msg[t]) \in Seq(Items \cup {NoItem})
      /\ Len(Append(Contents, msg[t])) = used + 1
      /\ \A i \in 1 .. used : Append(Contents, msg[t])[i] = Contents[i]
      /\ Append(Contents, msg[t])[used + 1] = msg[t]
  <2>1. Contents \in Seq(Items \cup {NoItem}) /\ Len(Contents) = used /\ used \in Nat
    BY ContentsIsSeq
  <2>2. QED
    BY <1>5, <2>1, Appended
<1>7. \A i \in 1 .. used + 1 : Contents'[i] = Append(Contents, msg[t])[i]
  <2> SUFFICES ASSUME NEW i \in 1 .. used + 1
               PROVE  Contents'[i] = Append(Contents, msg[t])[i]
    OBVIOUS
  <2>1. CASE i \in 1 .. used
    BY <1>2, <1>3, <1>6, <2>1, ContentsIsSeq
  <2>2. CASE i = used + 1
    <3>1. Contents'[used + 1] = storage'[Place((used + 1) - 1)]
      BY <1>2
    <3>2. (used + 1) - 1 = used
      OBVIOUS
    <3>3. QED
      BY <1>4, <1>6, <2>2, <3>1, <3>2
  <2>3. i \in 1 .. used \/ i = used + 1
    OBVIOUS
  <2>4. QED
    BY <2>1, <2>2, <2>3
<1>8. QED
  BY <1>2, <1>6, <1>7, SeqEqual

LEMMA PopTails ==
  ASSUME QIInv, QIInv', NEW t \in Tasks, Pop(t), used > 0
  PROVE  Contents # <<>> /\ Contents' = Tail(Contents)
<1> USE QueueAssumption, SemaphoreAssumption DEF QIInv, RingShape
<1>1. used' = used - 1 /\ tail' = Wrap(tail + 1) /\ storage' = storage
  BY DEF Pop
<1>2. /\ Contents' \in Seq(Items \cup {NoItem})
      /\ Len(Contents') = used - 1
      /\ \A i \in 1 .. used - 1 : Contents'[i] = storage[Place(i - 1)']
  <2>1. /\ Contents' \in Seq(Items \cup {NoItem})
        /\ Len(Contents') = used'
        /\ \A i \in 1 .. used' : Contents'[i] = storage'[Place(i - 1)']
    BY NextContentsIsSeq
  <2>2. QED
    BY <1>1, <2>1
<1>3. \A i \in 1 .. used - 1 : Place(i - 1)' = Place(i)
  BY <1>1 DEF Place, Wrap
<1>4. /\ Tail(Contents) \in Seq(Items \cup {NoItem})
      /\ Len(Tail(Contents)) = used - 1
      /\ \A i \in 1 .. used - 1 : Tail(Contents)[i] = Contents[i + 1]
  BY ContentsIsSeq
<1>5. \A i \in 1 .. used - 1 : Contents'[i] = Tail(Contents)[i]
  <2> SUFFICES ASSUME NEW i \in 1 .. used - 1
               PROVE  Contents'[i] = Tail(Contents)[i]
    OBVIOUS
  <2>1. Contents[i + 1] = storage[Place(i)]
    <3>1. i + 1 \in 1 .. used /\ (i + 1) - 1 = i
      OBVIOUS
    <3>2. Contents[i + 1] = storage[Place((i + 1) - 1)]
      BY <3>1, ContentsIsSeq
    <3>3. QED
      BY <3>1, <3>2
  <2>2. Contents'[i] = storage[Place(i)]
    BY <1>2, <1>3
  <2>3. QED
    BY <1>4, <2>1, <2>2
<1>6. Contents' = Tail(Contents)
  BY <1>2, <1>4, <1>5, SeqEqual
<1>7. QED
  BY <1>6, ContentsIsSeq

\* What a step of task t means for the items received.
LEMMA ReceivedChanges ==
  ASSUME QIInv, NEW t \in Tasks, NEW v,
         \A u \in Tasks \ {t} : pc'[u] = pc[u] /\ msg'[u] = msg[u],
         v = IF pc'[t] = "signal_slots" THEN msg'[t] ELSE NoItem
  PROVE  Received' = [Received EXCEPT ![t] = v]
  BY DEF Received

LEMMA PushKeepsReceived ==
  ASSUME QIInv, NEW t \in Tasks, Push(t)
  PROVE  UNCHANGED Received
<1>1. /\ pc'[t] # "signal_slots" \/ msg'[t] = NoItem
      /\ \A u \in Tasks \ {t} : pc'[u] = pc[u] /\ msg'[u] = msg[u]
  BY DEF QIInv, ProgramShape, Push, Goto
<1>2. pc[t] = "push"
  BY DEF Push, Goto
<1>3. QED
  BY <1>1, <1>2 DEF Received

LEMMA PopReceives ==
  ASSUME QIInv, NEW t \in Tasks, Pop(t), used > 0
  PROVE  Received[t] = NoItem /\ Received' = [Received EXCEPT ![t] = Head(Contents)]
<1> USE QueueAssumption, SemaphoreAssumption
<1>1. /\ pc[t] = "pop" /\ pc'[t] = "signal_slots" /\ msg'[t] = storage[tail]
      /\ \A u \in Tasks \ {t} : pc'[u] = pc[u] /\ msg'[u] = msg[u]
  BY DEF QIInv, ProgramShape, Pop, Goto
<1>2. Head(Contents) = storage[tail]
  <2>1. used \in Nat /\ 1 \in 1 .. used /\ Place(1 - 1) = tail
    BY DEF QIInv, RingShape, Place
  <2>2. Contents[1] = storage[Place(1 - 1)] /\ Contents # <<>>
    BY <2>1, ContentsIsSeq
  <2>3. QED
    BY <2>1, <2>2, ContentsIsSeq
<1>3. Received[t] = NoItem
  BY <1>1 DEF Received
<1>4. QED
  BY <1>1, <1>2, <1>3, ReceivedChanges

\* Between its pop and its end a receiver keeps its item.
LEMMA OtherStepsReceive ==
  ASSUME QIInv, [Next]_vars, \A t \in Tasks : ~Push(t) /\ ~Pop(t)
  PROVE  UNCHANGED Received \/ \E t \in Tasks : Received' = [Received EXCEPT ![t] = NoItem]
<1>1. ASSUME NEW t \in Tasks,
             pc'[t] # "signal_slots" \/ msg'[t] = NoItem,
             \A u \in Tasks \ {t} : pc'[u] = pc[u] /\ msg'[u] = msg[u]
      PROVE  Received' = [Received EXCEPT ![t] = NoItem]
  BY <1>1, ReceivedChanges
<1>2. ASSUME NEW t \in Tasks, NEW v \in Items, SendTakes(t, v) \/ SendWaits(t, v)
      PROVE  Received' = [Received EXCEPT ![t] = NoItem]
  BY <1>1, <1>2 DEF QIInv, ProgramShape, SendTakes, SendWaits, Goto
<1>3. ASSUME NEW t \in Tasks, SendResumes(t)
      PROVE  Received' = [Received EXCEPT ![t] = NoItem]
  BY <1>1, <1>3 DEF QIInv, ProgramShape, SendResumes, Goto
<1>4. ASSUME NEW t \in Tasks, RecvTakes(t) \/ RecvWaits(t) \/ RecvResumes(t)
      PROVE  Received' = [Received EXCEPT ![t] = NoItem]
  BY <1>1, <1>4 DEF QIInv, ProgramShape, RecvTakes, RecvWaits, RecvResumes, Goto
<1>5. ASSUME NEW t \in Tasks, Finish(t) \/ QRemove(t)
      PROVE  Received' = [Received EXCEPT ![t] = NoItem]
  BY <1>1, <1>5 DEF QIInv, ProgramShape, Finish, QRemove, Goto
<1>6. ASSUME NEW t \in Tasks, QStop(t) \/ QStart(t)
      PROVE  UNCHANGED Received
  BY <1>6 DEF QStop, QStart, Received
<1>7. CASE UNCHANGED vars
  BY <1>7 DEF vars, Received
<1>8. QED
  BY <1>2, <1>3, <1>4, <1>5, <1>6, <1>7 DEF Next

LEMMA QueueStepIsChannelStep ==
  ASSUME QIInv, QIInv', [Next]_vars
  PROVE  [Chan!Next]_<<Contents, Received>>
<1> USE DEF QIInv, RingShape
<1>1. ASSUME NEW t \in Tasks, Push(t)
      PROVE  Chan!Put \/ UNCHANGED <<Contents, Received>>
  <2>1. CASE used < Capacity
    <3>1. msg[t] \in Items
      BY <1>1 DEF ProgramShape, Push, Goto
    <3>2. QED
      BY <1>1, <2>1, <3>1, PushAppends, PushKeepsReceived, ContentsIsSeq DEF Chan!Put
  <2>2. CASE ~(used < Capacity)
    <3>1. UNCHANGED Contents
      BY <1>1, <2>2 DEF Push, Contents
    <3>2. QED
      BY <1>1, <3>1, PushKeepsReceived
  <2>3. QED
    BY <2>1, <2>2
<1>2. ASSUME NEW t \in Tasks, Pop(t)
      PROVE  Chan!Get \/ UNCHANGED <<Contents, Received>>
  <2>1. CASE used > 0
    BY <1>2, <2>1, PopTails, PopReceives DEF Chan!Get
  <2>2. CASE ~(used > 0)
    <3>1. UNCHANGED Contents
      BY <1>2, <2>2 DEF Pop, Contents
    <3>2. UNCHANGED Received
      BY <1>2, <2>2 DEF ProgramShape, Pop, Goto, Received
    <3>3. QED
      BY <3>1, <3>2
  <2>3. QED
    BY <2>1, <2>2
<1>3. CASE \A t \in Tasks : ~Push(t) /\ ~Pop(t)
  <2>1. UNCHANGED Contents
    BY <1>3, OtherStepsKeepRing DEF Contents, ringVars
  <2>2. QED
    BY <1>3, <2>1, OtherStepsReceive DEF Chan!End, Chan!Next
<1>4. QED
  BY <1>1, <1>2, <1>3 DEF Chan!Next

\* For every capacity, an ipc_queue_t delivers what it accepted once and in
\* order, through stop requests and removals of tasks, to the task
\* that takes its place (ipc.c:94-133, 251-271).
THEOREM QueueImplementsChannel == Spec => ImplementsChannel
<1>1. Init => Chan!Init
  BY DEF Init, Chan!Init, Contents, Received
<1>2. QED
  BY <1>1, QueueStepIsChannelStep, QInvariance, PTL
     DEF Spec, ImplementsChannel, Chan!Spec

----------------------------------------------------------------------------
(* Permits.  A place is free, on its way to a sender, or on its way back;   *)
(* an item likewise.  The argument counts tasks: a step moves one task, or  *)
(* hands a permit to one sleeper, so each of the four sets of tasks the     *)
(* accounts mention changes at one task at most.  That a task is in one of  *)
(* them only while it runs its own sections, and that a sleeper on slots is *)
(* a sender, is Pairing.                                                    *)

\* What a task is in the middle of agrees with the kernel's records of it.
Pairing ==
  \A t \in Tasks :
    /\ t \in spinning <=> pc[t] \in {"wait_slots", "wait_items"}
    /\ wait_obj[t] = "slots" => pc[t] = "wait_slots"
    /\ wait_obj[t] = "items" => pc[t] = "wait_items"
    /\ state[t] = "UNUSED" => pc[t] = "idle"

\* The four sets, and what they amount to.
Holds(t, waiting, moving) ==
  \/ pc[t] = moving
  \/ pc[t] = waiting /\ state[t] = "READY" /\ wait_status[t]

SlotHolders    == {t \in Tasks : Holds(t, "wait_slots", "push")}
ItemHolders    == {t \in Tasks : Holds(t, "wait_items", "pop")}
SlotSignallers == {t \in Tasks : pc[t] = "signal_slots"}
ItemSignallers == {t \in Tasks : pc[t] = "signal_items"}

PermitIInv == QIInv /\ Pairing /\ PermitsConserved

\* 1 if t leaves a set that was A and is B, -1 if it joins, 0 otherwise.
Leaves(t, A, B) == IF t \in A THEN IF t \in B THEN 0 ELSE 1
                              ELSE IF t \in B THEN -1 ELSE 0

\* Two sets of tasks that agree but for t.
LEMMA CardinalityChange ==
  ASSUME NEW A \in SUBSET Tasks, NEW B \in SUBSET Tasks, NEW t \in Tasks,
         \A u \in Tasks : u # t => (u \in A <=> u \in B)
  PROVE  /\ Cardinality(A) \in Nat /\ Cardinality(B) \in Nat
         /\ Cardinality(B) = Cardinality(A) - Leaves(t, A, B)
<1>1. IsFiniteSet(A) /\ IsFiniteSet(B)
  BY SemaphoreAssumption, FS_Subset
<1>2. Cardinality(A) \in Nat /\ Cardinality(B) \in Nat
  BY <1>1, FS_CardinalityType
<1>3. CASE t \in A <=> t \in B
  <2>1. A = B
    BY <1>3
  <2>2. QED
    BY <1>2, <1>3, <2>1 DEF Leaves
<1>4. CASE t \in A /\ t \notin B
  <2>1. B \cup {t} = A
    BY <1>4
  <2>2. Cardinality(A) = Cardinality(B) + 1
    BY <1>1, <1>4, <2>1, FS_AddElement
  <2>3. QED
    BY <1>2, <1>4, <2>2 DEF Leaves
<1>5. CASE t \notin A /\ t \in B
  <2>1. A \cup {t} = B
    BY <1>5
  <2>2. Cardinality(B) = Cardinality(A) + 1
    BY <1>1, <1>5, <2>1, FS_AddElement
  <2>3. QED
    BY <1>2, <1>5, <2>2 DEF Leaves
<1>6. QED
  BY <1>3, <1>4, <1>5

LEMMA PermitCounts ==
  /\ Cardinality(SlotHolders) \in Nat /\ Cardinality(SlotSignallers) \in Nat
  /\ Cardinality(ItemHolders) \in Nat /\ Cardinality(ItemSignallers) \in Nat
<1>1. /\ SlotHolders \in SUBSET Tasks /\ SlotSignallers \in SUBSET Tasks
      /\ ItemHolders \in SUBSET Tasks /\ ItemSignallers \in SUBSET Tasks
  BY DEF SlotHolders, SlotSignallers, ItemHolders, ItemSignallers
<1>2. QED
  BY <1>1, SemaphoreAssumption, FS_Subset, FS_CardinalityType

\* The accounts in terms of the four sets.
LEMMA Accounts ==
  /\ LostSlots = Capacity - used - count["slots"]
                   - Cardinality(SlotHolders) - Cardinality(SlotSignallers)
  /\ LostItems = used - count["items"]
                   - Cardinality(ItemHolders) - Cardinality(ItemSignallers)
  BY DEF LostSlots, LostItems, Holding, Signalling, SlotHolders, SlotSignallers,
         ItemHolders, ItemSignallers, Holds

LEMMA PairingStep ==
  ASSUME QIInv, Pairing, [Next]_vars
  PROVE  Pairing'
<1> USE QueueAssumption, SemaphoreAssumption
    DEF QIInv, ProgramShape, SemIInv, SemTypeOK, Pairing, Goto, PCs, WaitStates, QSems
<1>1. ASSUME NEW t \in Tasks, NEW v \in Items, SendTakes(t, v) \/ SendWaits(t, v)
      PROVE  Pairing'
  BY <1>1 DEF SendTakes, SendWaits, Take, Wait, CanRun, taskVars
<1>2. ASSUME NEW t \in Tasks, SendResumes(t)
      PROVE  Pairing'
  BY <1>2 DEF SendResumes, Resume, WaitersConsistent
<1>3. ASSUME NEW t \in Tasks, RecvTakes(t) \/ RecvWaits(t)
      PROVE  Pairing'
  BY <1>3 DEF RecvTakes, RecvWaits, Take, Wait, CanRun, taskVars
<1>4. ASSUME NEW t \in Tasks, RecvResumes(t)
      PROVE  Pairing'
  BY <1>4 DEF RecvResumes, Resume, WaitersConsistent
<1>5. ASSUME NEW t \in Tasks, Push(t) \/ Pop(t)
      PROVE  Pairing'
  BY <1>5 DEF Push, Pop, svars, CanRun
<1>6. ASSUME NEW t \in Tasks, Finish(t)
      PROVE  Pairing'
  <2>1. PICK s \in Sems :
          /\ pc[t] \in {"signal_items", "signal_slots"}
          /\ pc' = [pc EXCEPT ![t] = "idle"]
          /\ CanRun(t) /\ (HandOff(s) \/ Release(s))
    BY <1>6 DEF Finish, Signal
  <2>2. CASE Release(s)
    BY <2>1, <2>2 DEF Release, taskVars, CanRun
  <2>3. CASE HandOff(s)
    <3>1. PICK w \in Tasks :
            /\ IsFirstWaiter(w, s)
            /\ wait_obj'    = [wait_obj EXCEPT ![w] = NoObj]
            /\ state'       = [state EXCEPT ![w] = "READY"]
            /\ UNCHANGED <<count, spinning>>
      BY <2>3, FirstWaiterSleeps DEF HandOff
    <3>2. QED
      BY <2>1, <3>1 DEF CanRun, NoObj
  <2>4. QED
    BY <2>1, <2>2, <2>3
<1>7. ASSUME NEW t \in Tasks, QStop(t) \/ QStart(t)
      PROVE  Pairing'
  BY <1>7 DEF QStop, QStart, RequestStop, Start, semVars, Asleep
<1>8. ASSUME NEW t \in Tasks, QRemove(t)
      PROVE  Pairing'
  BY <1>8 DEF QRemove, Remove, MarkUnused
<1>9. CASE UNCHANGED vars
  BY <1>9 DEF vars, svars
<1>10. QED
  BY <1>1, <1>2, <1>3, <1>4, <1>5, <1>6, <1>7, <1>8, <1>9 DEF Next

\* How a step changes the accounts when only x may come or go among the
\* holders of places, y among the holders of items, t among the signallers.
LEMMA AccountsChange ==
  ASSUME QIInv, QIInv', NEW x \in Tasks, NEW y \in Tasks, NEW t \in Tasks,
         \A u \in Tasks :
           /\ u # x => (u \in SlotHolders <=> u \in SlotHolders')
           /\ u # y => (u \in ItemHolders <=> u \in ItemHolders')
           /\ u # t => (u \in SlotSignallers <=> u \in SlotSignallers')
           /\ u # t => (u \in ItemSignallers <=> u \in ItemSignallers')
  PROVE  /\ LostSlots \in Int /\ LostItems \in Int
         /\ LostSlots' = LostSlots + (used - used') + (count["slots"] - count'["slots"])
              + Leaves(x, SlotHolders, SlotHolders')
              + Leaves(t, SlotSignallers, SlotSignallers')
         /\ LostItems' = LostItems + (used' - used) + (count["items"] - count'["items"])
              + Leaves(y, ItemHolders, ItemHolders')
              + Leaves(t, ItemSignallers, ItemSignallers')
<1>1. /\ SlotHolders \in SUBSET Tasks /\ SlotSignallers \in SUBSET Tasks
      /\ ItemHolders \in SUBSET Tasks /\ ItemSignallers \in SUBSET Tasks
      /\ SlotHolders' \in SUBSET Tasks /\ SlotSignallers' \in SUBSET Tasks
      /\ ItemHolders' \in SUBSET Tasks /\ ItemSignallers' \in SUBSET Tasks
  BY DEF SlotHolders, SlotSignallers, ItemHolders, ItemSignallers
<1>2. /\ LostSlots' = Capacity - used' - count'["slots"]
                        - Cardinality(SlotHolders') - Cardinality(SlotSignallers')
      /\ LostItems' = used' - count'["items"]
                        - Cardinality(ItemHolders') - Cardinality(ItemSignallers')
  BY DEF LostSlots, LostItems, Holding, Signalling, SlotHolders, SlotSignallers,
         ItemHolders, ItemSignallers, Holds
<1>3. /\ Cardinality(SlotHolders) \in Nat /\ Cardinality(SlotHolders') \in Nat
      /\ Cardinality(SlotHolders') = Cardinality(SlotHolders) - Leaves(x, SlotHolders, SlotHolders')
  BY <1>1, CardinalityChange
<1>4. /\ Cardinality(ItemHolders) \in Nat /\ Cardinality(ItemHolders') \in Nat
      /\ Cardinality(ItemHolders') = Cardinality(ItemHolders) - Leaves(y, ItemHolders, ItemHolders')
  BY <1>1, CardinalityChange
<1>5. /\ Cardinality(SlotSignallers) \in Nat /\ Cardinality(SlotSignallers') \in Nat
      /\ Cardinality(SlotSignallers') = Cardinality(SlotSignallers) - Leaves(t, SlotSignallers, SlotSignallers')
  BY <1>1, CardinalityChange
<1>6. /\ Cardinality(ItemSignallers) \in Nat /\ Cardinality(ItemSignallers') \in Nat
      /\ Cardinality(ItemSignallers') = Cardinality(ItemSignallers) - Leaves(t, ItemSignallers, ItemSignallers')
  BY <1>1, CardinalityChange
<1>7. /\ Capacity \in Int /\ used \in Int /\ used' \in Int
      /\ count["slots"] \in Int /\ count'["slots"] \in Int
      /\ count["items"] \in Int /\ count'["items"] \in Int
  BY QueueAssumption, SemaphoreAssumption
     DEF QIInv, RingShape, SemIInv, SemTypeOK, QSems
<1>8. /\ Leaves(x, SlotHolders, SlotHolders') \in Int
      /\ Leaves(y, ItemHolders, ItemHolders') \in Int
      /\ Leaves(t, SlotSignallers, SlotSignallers') \in Int
      /\ Leaves(t, ItemSignallers, ItemSignallers') \in Int
  BY DEF Leaves
<1>9. /\ LostSlots = Capacity - used - count["slots"]
                       - Cardinality(SlotHolders) - Cardinality(SlotSignallers)
      /\ LostItems = used - count["items"]
                       - Cardinality(ItemHolders) - Cardinality(ItemSignallers)
  BY Accounts
<1>10. LostSlots \in Int /\ LostItems \in Int /\ LostSlots' \in Int /\ LostItems' \in Int
  BY <1>2, <1>3, <1>4, <1>5, <1>6, <1>7, <1>9
<1>11. LostSlots' = LostSlots + (used - used') + (count["slots"] - count'["slots"])
              + Leaves(x, SlotHolders, SlotHolders')
              + Leaves(t, SlotSignallers, SlotSignallers')
  BY <1>2, <1>3, <1>5, <1>7, <1>8, <1>9, <1>10
<1>12. LostItems' = LostItems + (used' - used) + (count["items"] - count'["items"])
              + Leaves(y, ItemHolders, ItemHolders')
              + Leaves(t, ItemSignallers, ItemSignallers')
  BY <1>2, <1>4, <1>6, <1>7, <1>8, <1>9, <1>10
<1>13. QED
  BY <1>10, <1>11, <1>12

\* A step that changes pc, state and wait_status at t only.
LEMMA OneTaskMoves ==
  ASSUME QIInv, QIInv', NEW t \in Tasks,
         \A u \in Tasks : u # t => /\ pc'[u] = pc[u] /\ state'[u] = state[u]
                                   /\ wait_status'[u] = wait_status[u]
  PROVE  /\ LostSlots \in Int /\ LostItems \in Int
         /\ LostSlots' = LostSlots + (used - used') + (count["slots"] - count'["slots"])
              + Leaves(t, SlotHolders, SlotHolders')
              + Leaves(t, SlotSignallers, SlotSignallers')
         /\ LostItems' = LostItems + (used' - used) + (count["items"] - count'["items"])
              + Leaves(t, ItemHolders, ItemHolders')
              + Leaves(t, ItemSignallers, ItemSignallers')
<1>1. \A u \in Tasks : u # t =>
           /\ u \in SlotHolders <=> u \in SlotHolders'
           /\ u \in ItemHolders <=> u \in ItemHolders'
           /\ u \in SlotSignallers <=> u \in SlotSignallers'
           /\ u \in ItemSignallers <=> u \in ItemSignallers'
  BY DEF SlotHolders, ItemHolders, SlotSignallers, ItemSignallers, Holds
<1>2. QED
  BY <1>1, AccountsChange

\* A signal releases its permit to the count only while the count is below
\* the capacity, so it never saturates.
LEMMA RoomForThePermit ==
  ASSUME PermitIInv, NEW t \in Tasks
  PROVE  /\ pc[t] = "signal_slots" => count["slots"] < MaxCount
         /\ pc[t] = "signal_items" => count["items"] < MaxCount
<1>1. /\ Capacity \in Int /\ MaxCount \in Int /\ Capacity <= MaxCount
      /\ used \in 0 .. Capacity
      /\ count["slots"] \in Int /\ count["items"] \in Int
  BY QueueAssumption, SemaphoreAssumption
     DEF PermitIInv, QIInv, RingShape, SemIInv, SemTypeOK, QSems
<1>2. /\ pc[t] = "signal_slots" => Cardinality(SlotSignallers) > 0
      /\ pc[t] = "signal_items" => Cardinality(ItemSignallers) > 0
  <2>1. /\ SlotSignallers \in SUBSET Tasks /\ ItemSignallers \in SUBSET Tasks
        /\ pc[t] = "signal_slots" => t \in SlotSignallers
        /\ pc[t] = "signal_items" => t \in ItemSignallers
    BY DEF SlotSignallers, ItemSignallers
  <2>2. IsFiniteSet(SlotSignallers) /\ IsFiniteSet(ItemSignallers)
    BY <2>1, SemaphoreAssumption, FS_Subset
  <2>3. /\ SlotSignallers # {} => Cardinality(SlotSignallers) # 0
        /\ ItemSignallers # {} => Cardinality(ItemSignallers) # 0
    BY <2>2, FS_EmptySet
  <2>4. QED
    BY <2>1, <2>3, PermitCounts
<1>3. LostSlots >= 0 /\ LostItems >= 0
  BY DEF PermitIInv, PermitsConserved
<1>4. QED
  BY <1>1, <1>2, <1>3, Accounts, PermitCounts

\* What the four sets and the accounts are made of.
LEMMA PermitTypes ==
  ASSUME PermitIInv
  PROVE  /\ QIInv /\ SemIInv /\ Pairing
         /\ pc \in [Tasks -> PCs]
         /\ state \in [Tasks -> {"UNUSED", "READY"} \cup WaitStates]
         /\ wait_status \in [Tasks -> BOOLEAN] /\ wait_obj \in [Tasks -> Sems \cup {NoObj}]
         /\ count \in [Sems -> 0 .. MaxCount] /\ "slots" \in Sems /\ "items" \in Sems
         /\ count["slots"] \in Int /\ count["items"] \in Int
         /\ used \in Int /\ kills \in Int
<1>1. QIInv /\ SemIInv /\ Pairing
  BY DEF PermitIInv, QIInv
<1>2. /\ state \in [Tasks -> {"UNUSED", "READY"} \cup WaitStates]
      /\ wait_status \in [Tasks -> BOOLEAN] /\ wait_obj \in [Tasks -> Sems \cup {NoObj}]
      /\ count \in [Sems -> 0 .. MaxCount] /\ "slots" \in Sems /\ "items" \in Sems
  BY <1>1, QueueAssumption DEF SemIInv, SemTypeOK, QSems
<1>3. count["slots"] \in Int /\ count["items"] \in Int
  BY <1>2, SemaphoreAssumption
<1>4. pc \in [Tasks -> PCs] /\ used \in Int /\ kills \in Int
  BY <1>1, QueueAssumption, SemaphoreAssumption DEF QIInv, RingShape, ProgramShape
<1>5. QED
  BY <1>1, <1>2, <1>3, <1>4

\* Who is in the four sets, before and after a step.
LEMMA InTheSets ==
  ASSUME NEW t \in Tasks
  PROVE  /\ t \in SlotHolders <=> Holds(t, "wait_slots", "push")
         /\ t \in ItemHolders <=> Holds(t, "wait_items", "pop")
         /\ t \in SlotSignallers <=> pc[t] = "signal_slots"
         /\ t \in ItemSignallers <=> pc[t] = "signal_items"
         /\ t \in SlotHolders' <=> Holds(t, "wait_slots", "push")'
         /\ t \in ItemHolders' <=> Holds(t, "wait_items", "pop")'
         /\ t \in SlotSignallers' <=> pc'[t] = "signal_slots"
         /\ t \in ItemSignallers' <=> pc'[t] = "signal_items"
  BY DEF SlotHolders, ItemHolders, SlotSignallers, ItemSignallers, Holds

\* The sections of a task that take, keep or give up its own permits.
LEMMA OwnPermitsConserved ==
  ASSUME PermitIInv, QIInv', Pairing', NEW t \in Tasks,
         \/ \E v \in Items : SendTakes(t, v) \/ SendWaits(t, v)
         \/ SendResumes(t) \/ Push(t)
         \/ RecvTakes(t) \/ RecvWaits(t) \/ RecvResumes(t) \/ Pop(t)
         \/ QStop(t) \/ QStart(t)
  PROVE  LostSlots' = LostSlots /\ LostItems' = LostItems /\ kills' = kills
<1> DEFINE Others ==
             \A u \in Tasks : u # t => /\ pc'[u] = pc[u] /\ state'[u] = state[u]
                                       /\ wait_status'[u] = wait_status[u]
           Moves(sh, ss, ih, is) ==
             /\ Leaves(t, SlotHolders, SlotHolders') = sh
             /\ Leaves(t, SlotSignallers, SlotSignallers') = ss
             /\ Leaves(t, ItemHolders, ItemHolders') = ih
             /\ Leaves(t, ItemSignallers, ItemSignallers') = is
           Kept == LostSlots' = LostSlots /\ LostItems' = LostItems /\ kills' = kills
<1>1. ASSUME NEW v \in Items, SendTakes(t, v)
      PROVE  Kept
  <2>1. Others /\ kills' = kills /\ used' = used /\ count' = [count EXCEPT !["slots"] = @ - 1]
    BY PermitTypes, <1>1 DEF SendTakes, Take, Goto, taskVars, ringVars
  <2>2. Moves(-1, 0, 0, 0)
    BY PermitTypes, <1>1, InTheSets DEF SendTakes, Take, Goto, taskVars, ringVars, Leaves, Holds, WaitStates
  <2>3. QED
    BY PermitTypes, <2>1, <2>2, OneTaskMoves DEF PermitIInv
<1>2. ASSUME NEW v \in Items, SendWaits(t, v)
      PROVE  Kept
  <2>1. Others /\ kills' = kills /\ used' = used /\ count' = count
    BY PermitTypes, <1>2 DEF SendWaits, Wait, Goto, ringVars
  <2>2. Moves(0, 0, 0, 0)
    BY PermitTypes, <1>2, InTheSets DEF SendWaits, Wait, Goto, ringVars, Leaves, Holds, WaitStates
  <2>3. QED
    BY PermitTypes, <2>1, <2>2, OneTaskMoves DEF PermitIInv
<1>3. ASSUME SendResumes(t)
      PROVE  Kept
  <2>1. Others /\ kills' = kills /\ used' = used /\ count' = count
    BY PermitTypes, <1>3 DEF SendResumes, Resume, Goto, semVars, ringVars
  <2>2. Moves(0, 0, 0, 0)
    BY PermitTypes, <1>3, InTheSets DEF SendResumes, Resume, Goto, semVars, ringVars, Leaves, Holds, WaitStates
  <2>3. QED
    BY PermitTypes, <2>1, <2>2, OneTaskMoves DEF PermitIInv
<1>4. ASSUME Push(t)
      PROVE  Kept
  <2>1. CASE used < Capacity
    <3>1. Others /\ kills' = kills /\ used' = used + 1 /\ count' = count
      BY PermitTypes, <1>4, <2>1 DEF Push, Goto, svars
    <3>2. Moves(1, 0, 0, -1)
      BY PermitTypes, <1>4, <2>1, InTheSets DEF Push, Goto, svars, Leaves, Holds, WaitStates
    <3>3. QED
      BY PermitTypes, <3>1, <3>2, OneTaskMoves DEF PermitIInv
  <2>2. CASE ~(used < Capacity)
    <3>1. Others /\ kills' = kills /\ used' = used /\ count' = count
      BY PermitTypes, <1>4, <2>2 DEF Push, Goto, svars
    <3>2. Moves(1, -1, 0, 0)
      BY PermitTypes, <1>4, <2>2, InTheSets DEF Push, Goto, svars, Leaves, Holds, WaitStates
    <3>3. QED
      BY PermitTypes, <3>1, <3>2, OneTaskMoves DEF PermitIInv
  <2>3. QED
    BY <2>1, <2>2
<1>5. ASSUME RecvTakes(t)
      PROVE  Kept
  <2>1. Others /\ kills' = kills /\ used' = used /\ count' = [count EXCEPT !["items"] = @ - 1]
    BY PermitTypes, <1>5 DEF RecvTakes, Take, Goto, taskVars, ringVars
  <2>2. Moves(0, 0, -1, 0)
    BY PermitTypes, <1>5, InTheSets DEF RecvTakes, Take, Goto, taskVars, ringVars, Leaves, Holds, WaitStates
  <2>3. QED
    BY PermitTypes, <2>1, <2>2, OneTaskMoves DEF PermitIInv
<1>6. ASSUME RecvWaits(t)
      PROVE  Kept
  <2>1. Others /\ kills' = kills /\ used' = used /\ count' = count
    BY PermitTypes, <1>6 DEF RecvWaits, Wait, Goto, ringVars
  <2>2. Moves(0, 0, 0, 0)
    BY PermitTypes, <1>6, InTheSets DEF RecvWaits, Wait, Goto, ringVars, Leaves, Holds, WaitStates
  <2>3. QED
    BY PermitTypes, <2>1, <2>2, OneTaskMoves DEF PermitIInv
<1>7. ASSUME RecvResumes(t)
      PROVE  Kept
  <2>1. Others /\ kills' = kills /\ used' = used /\ count' = count
    BY PermitTypes, <1>7 DEF RecvResumes, Resume, Goto, semVars, ringVars
  <2>2. Moves(0, 0, 0, 0)
    BY PermitTypes, <1>7, InTheSets DEF RecvResumes, Resume, Goto, semVars, ringVars, Leaves, Holds, WaitStates
  <2>3. QED
    BY PermitTypes, <2>1, <2>2, OneTaskMoves DEF PermitIInv
<1>8. ASSUME Pop(t)
      PROVE  Kept
  <2>1. CASE used > 0
    <3>1. Others /\ kills' = kills /\ used' = used - 1 /\ count' = count
      BY PermitTypes, <1>8, <2>1 DEF Pop, Goto, svars
    <3>2. Moves(0, -1, 1, 0)
      BY PermitTypes, <1>8, <2>1, InTheSets DEF Pop, Goto, svars, Leaves, Holds, WaitStates
    <3>3. QED
      BY PermitTypes, <3>1, <3>2, OneTaskMoves DEF PermitIInv
  <2>2. CASE ~(used > 0)
    <3>1. Others /\ kills' = kills /\ used' = used /\ count' = count
      BY PermitTypes, <1>8, <2>2 DEF Pop, Goto, svars
    <3>2. Moves(0, 0, 1, -1)
      BY PermitTypes, <1>8, <2>2, InTheSets DEF Pop, Goto, svars, Leaves, Holds, WaitStates
    <3>3. QED
      BY PermitTypes, <3>1, <3>2, OneTaskMoves DEF PermitIInv
  <2>3. QED
    BY <2>1, <2>2
<1>9. ASSUME QStop(t)
      PROVE  Kept
  <2>1. Others /\ kills' = kills /\ used' = used /\ count' = count
    BY PermitTypes, <1>9 DEF QStop, RequestStop, Asleep, ringVars
  <2>2. Moves(0, 0, 0, 0)
    BY PermitTypes, <1>9, InTheSets DEF QStop, RequestStop, Asleep, ringVars, Leaves, Holds, WaitStates
  <2>3. QED
    BY PermitTypes, <2>1, <2>2, OneTaskMoves DEF PermitIInv
<1>10. ASSUME QStart(t)
       PROVE  Kept
  <2>1. Others /\ kills' = kills /\ used' = used /\ count' = count
    BY PermitTypes, <1>10 DEF QStart, Start, semVars, ringVars
  <2>2. Moves(0, 0, 0, 0)
    BY PermitTypes, <1>10, InTheSets DEF QStart, Start, semVars, ringVars, Leaves, Holds, WaitStates, Pairing, PermitIInv
  <2>3. QED
    BY PermitTypes, <2>1, <2>2, OneTaskMoves DEF PermitIInv
<1>11. QED
  BY <1>1, <1>2, <1>3, <1>4, <1>5, <1>6, <1>7, <1>8, <1>9, <1>10

\* A signal hands its permit to a sleeper or adds it to the count.
LEMMA SignalConserves ==
  ASSUME PermitIInv, QIInv', NEW t \in Tasks, Finish(t)
  PROVE  LostSlots' = LostSlots /\ LostItems' = LostItems /\ kills' = kills
<1> DEFINE Kept == LostSlots' = LostSlots /\ LostItems' = LostItems /\ kills' = kills
<1>u. used' = used /\ kills' = kills
  BY DEF Finish, ringVars
<1>1. ASSUME Goto(t, "signal_items", "idle"), Release("items")
      PROVE  Kept
  <2>1. count' = [count EXCEPT !["items"] = @ + 1] /\ state' = state /\ wait_status' = wait_status
    BY <1>1, RoomForThePermit DEF Release, Raised, taskVars, Goto
  <2>2. /\ \A u \in Tasks : u # t => /\ pc'[u] = pc[u] /\ state'[u] = state[u]
                                     /\ wait_status'[u] = wait_status[u]
        /\ Leaves(t, SlotHolders, SlotHolders') = 0
        /\ Leaves(t, SlotSignallers, SlotSignallers') = 0
        /\ Leaves(t, ItemHolders, ItemHolders') = 0
        /\ Leaves(t, ItemSignallers, ItemSignallers') = 1
    BY PermitTypes, <1>1, <2>1, InTheSets DEF Goto, Leaves, Holds
  <2>3. QED
    BY PermitTypes, <1>u, <2>1, <2>2, OneTaskMoves
<1>2. ASSUME Goto(t, "signal_slots", "idle"), Release("slots")
      PROVE  Kept
  <2>1. count' = [count EXCEPT !["slots"] = @ + 1] /\ state' = state /\ wait_status' = wait_status
    BY <1>2, RoomForThePermit DEF Release, Raised, taskVars, Goto
  <2>2. /\ \A u \in Tasks : u # t => /\ pc'[u] = pc[u] /\ state'[u] = state[u]
                                     /\ wait_status'[u] = wait_status[u]
        /\ Leaves(t, SlotHolders, SlotHolders') = 0
        /\ Leaves(t, SlotSignallers, SlotSignallers') = 1
        /\ Leaves(t, ItemHolders, ItemHolders') = 0
        /\ Leaves(t, ItemSignallers, ItemSignallers') = 0
    BY PermitTypes, <1>2, <2>1, InTheSets DEF Goto, Leaves, Holds
  <2>3. QED
    BY PermitTypes, <1>u, <2>1, <2>2, OneTaskMoves
<1>h. ASSUME NEW s \in Sems, HandOff(s)
      PROVE  \E w \in Tasks :
               /\ wait_obj[w] = s /\ w \in spinning /\ state[w] \in WaitStates
               /\ wait_status' = [wait_status EXCEPT ![w] = TRUE]
               /\ state'       = [state EXCEPT ![w] = "READY"]
               /\ count' = count
  BY PermitTypes, <1>h, FirstWaiterSleeps DEF HandOff, WaitStates
<1>3. ASSUME Goto(t, "signal_items", "idle"), HandOff("items")
      PROVE  Kept
  <2>1. PICK w \in Tasks :
               /\ wait_obj[w] = "items" /\ w \in spinning /\ state[w] \in WaitStates
               /\ wait_status' = [wait_status EXCEPT ![w] = TRUE]
               /\ state'       = [state EXCEPT ![w] = "READY"]
               /\ count' = count
    BY PermitTypes, <1>3, <1>h
  <2>2. pc[w] = "wait_items" /\ w # t
    BY PermitTypes, <1>3, <2>1 DEF Pairing, Goto
  <2>3. /\ \A u \in Tasks :
             /\ u \in SlotHolders <=> u \in SlotHolders'
             /\ u # w => (u \in ItemHolders <=> u \in ItemHolders')
             /\ u # t => (u \in SlotSignallers <=> u \in SlotSignallers')
             /\ u # t => (u \in ItemSignallers <=> u \in ItemSignallers')
        /\ Leaves(t, SlotHolders, SlotHolders') = 0
        /\ Leaves(t, SlotSignallers, SlotSignallers') = 0
        /\ Leaves(w, ItemHolders, ItemHolders') = -1
        /\ Leaves(t, ItemSignallers, ItemSignallers') = 1
    BY PermitTypes, <1>3, <2>1, <2>2, InTheSets DEF Goto, Leaves, Holds, WaitStates
  <2>4. QED
    BY PermitTypes, <1>u, <2>1, <2>3, AccountsChange
<1>4. ASSUME Goto(t, "signal_slots", "idle"), HandOff("slots")
      PROVE  Kept
  <2>1. PICK w \in Tasks :
               /\ wait_obj[w] = "slots" /\ w \in spinning /\ state[w] \in WaitStates
               /\ wait_status' = [wait_status EXCEPT ![w] = TRUE]
               /\ state'       = [state EXCEPT ![w] = "READY"]
               /\ count' = count
    BY PermitTypes, <1>4, <1>h
  <2>2. pc[w] = "wait_slots" /\ w # t
    BY PermitTypes, <1>4, <2>1 DEF Pairing, Goto
  <2>3. /\ \A u \in Tasks :
             /\ u # w => (u \in SlotHolders <=> u \in SlotHolders')
             /\ u \in ItemHolders <=> u \in ItemHolders'
             /\ u # t => (u \in SlotSignallers <=> u \in SlotSignallers')
             /\ u # t => (u \in ItemSignallers <=> u \in ItemSignallers')
        /\ Leaves(w, SlotHolders, SlotHolders') = -1
        /\ Leaves(t, SlotSignallers, SlotSignallers') = 1
        /\ Leaves(t, ItemHolders, ItemHolders') = 0
        /\ Leaves(t, ItemSignallers, ItemSignallers') = 0
    BY PermitTypes, <1>4, <2>1, <2>2, InTheSets DEF Goto, Leaves, Holds, WaitStates
  <2>4. QED
    BY PermitTypes, <1>u, <2>1, <2>3, AccountsChange
<1>5. QED
  BY <1>1, <1>2, <1>3, <1>4 DEF Finish, Signal

\* A removal loses the one permit the task was using, if any.
LEMMA RemovalCosts ==
  ASSUME PermitIInv, QIInv', NEW t \in Tasks, QRemove(t)
  PROVE  /\ LostSlots' >= LostSlots /\ LostItems' >= LostItems
         /\ LostSlots \in Int /\ LostSlots' \in Int /\ LostItems \in Int /\ LostItems' \in Int
         /\ (LostSlots' - LostSlots) + (LostItems' - LostItems) <= kills' - kills
<1>1. /\ used' = used /\ count' = count
      /\ \A u \in Tasks : u # t => /\ pc'[u] = pc[u] /\ state'[u] = state[u]
                                   /\ wait_status'[u] = wait_status[u]
      /\ pc'[t] = "idle"
  BY PermitTypes DEF QRemove, Remove, MarkUnused, ringVars
<1>2. /\ LostSlots \in Int /\ LostItems \in Int
      /\ LostSlots' = LostSlots + Leaves(t, SlotHolders, SlotHolders')
                        + Leaves(t, SlotSignallers, SlotSignallers')
      /\ LostItems' = LostItems + Leaves(t, ItemHolders, ItemHolders')
                        + Leaves(t, ItemSignallers, ItemSignallers')
  <2>1. /\ Leaves(t, SlotHolders, SlotHolders') \in Int
        /\ Leaves(t, SlotSignallers, SlotSignallers') \in Int
        /\ Leaves(t, ItemHolders, ItemHolders') \in Int
        /\ Leaves(t, ItemSignallers, ItemSignallers') \in Int
    BY DEF Leaves
  <2>2. QED
    BY PermitTypes, <1>1, <2>1, OneTaskMoves
<1>3. /\ t \notin SlotHolders' /\ t \notin SlotSignallers'
      /\ t \notin ItemHolders' /\ t \notin ItemSignallers'
  BY <1>1, InTheSets DEF Holds
<1>4. CASE pc[t] = "idle"
  <2>1. /\ t \notin SlotHolders /\ t \notin SlotSignallers
        /\ t \notin ItemHolders /\ t \notin ItemSignallers
    BY <1>4, InTheSets DEF Holds
  <2>2. kills' = kills
    BY <1>4 DEF QRemove, InOperation
  <2>3. QED
    BY PermitTypes, <1>2, <1>3, <2>1, <2>2 DEF Leaves
<1>5. CASE pc[t] # "idle"
  <2>1. kills' = kills + 1
    BY <1>5 DEF QRemove, InOperation
  <2>2. CASE pc[t] \in {"wait_slots", "push"}
    <3>1. t \notin SlotSignallers /\ t \notin ItemHolders /\ t \notin ItemSignallers
      BY <2>2, InTheSets DEF Holds
    <3>2. QED
      BY PermitTypes, <1>2, <1>3, <2>1, <3>1 DEF Leaves
  <2>3. CASE pc[t] \in {"wait_items", "pop"}
    <3>1. t \notin SlotSignallers /\ t \notin SlotHolders /\ t \notin ItemSignallers
      BY <2>3, InTheSets DEF Holds
    <3>2. QED
      BY PermitTypes, <1>2, <1>3, <2>1, <3>1 DEF Leaves
  <2>4. CASE pc[t] = "signal_items"
    <3>1. t \notin SlotSignallers /\ t \notin SlotHolders /\ t \notin ItemHolders
      BY <2>4, InTheSets DEF Holds
    <3>2. QED
      BY PermitTypes, <1>2, <1>3, <2>1, <3>1 DEF Leaves
  <2>5. CASE pc[t] = "signal_slots"
    <3>1. t \notin ItemSignallers /\ t \notin SlotHolders /\ t \notin ItemHolders
      BY <2>5, InTheSets DEF Holds
    <3>2. QED
      BY PermitTypes, <1>2, <1>3, <2>1, <3>1 DEF Leaves
  <2>6. QED
    BY PermitTypes, <1>5, <2>2, <2>3, <2>4, <2>5 DEF PCs
<1>6. QED
  BY <1>4, <1>5

LEMMA PermitInit == Init => PermitIInv
<1> SUFFICES ASSUME Init PROVE PermitIInv
  OBVIOUS
<1>1. QIInv
  BY QInitIInv
<1>2. Pairing
  BY DEF Init, SemInit, Pairing, NoObj
<1>3. /\ SlotHolders = {} /\ SlotSignallers = {}
      /\ ItemHolders = {} /\ ItemSignallers = {}
  BY DEF Init, SlotHolders, SlotSignallers, ItemHolders, ItemSignallers, Holds
<1>4. /\ Cardinality(SlotHolders) = 0 /\ Cardinality(SlotSignallers) = 0
      /\ Cardinality(ItemHolders) = 0 /\ Cardinality(ItemSignallers) = 0
  BY <1>3, FS_EmptySet
<1>5. /\ used = 0 /\ kills = 0 /\ Capacity \in Int
      /\ count["slots"] = Capacity /\ count["items"] = 0
  BY QueueAssumption, SemaphoreAssumption DEF Init, SemInit, QInitCount, QSems
<1>6. LostSlots = 0 /\ LostItems = 0
  BY <1>4, <1>5, Accounts
<1>7. QED
  BY <1>1, <1>2, <1>5, <1>6 DEF PermitIInv, PermitsConserved

LEMMA PermitNext ==
  ASSUME PermitIInv, [Next]_vars
  PROVE  PermitIInv'
<1>1. QIInv' /\ Pairing'
  BY QNextIInv, PairingStep DEF PermitIInv
<1>2. /\ LostSlots >= 0 /\ LostItems >= 0 /\ LostSlots + LostItems <= kills
      /\ LostSlots \in Int /\ LostItems \in Int /\ kills \in Int
  BY PermitTypes, PermitCounts, Accounts, QueueAssumption, SemaphoreAssumption
     DEF PermitIInv, PermitsConserved
<1>3. ASSUME LostSlots' = LostSlots, LostItems' = LostItems, kills' = kills
      PROVE  PermitsConserved'
  BY <1>2, <1>3 DEF PermitsConserved
<1>4. ASSUME NEW t \in Tasks, QRemove(t)
      PROVE  PermitsConserved'
  <2>1. kills' \in Int
    BY <1>1, QueueAssumption DEF QIInv, ProgramShape
  <2>2. QED
    BY <1>1, <1>2, <1>4, <2>1, RemovalCosts DEF PermitsConserved
<1>5. ASSUME UNCHANGED vars
      PROVE  PermitsConserved'
  BY <1>2, <1>5 DEF vars, svars, PermitsConserved, LostSlots, LostItems, Holding, Signalling
<1>6. QED
  BY <1>1, <1>3, <1>4, <1>5, OwnPermitsConserved, SignalConserves DEF Next, PermitIInv

THEOREM PermitInvariance == Spec => []PermitIInv
  BY PermitInit, PermitNext, PTL DEF Spec

\* Whatever tasks are stopped, removed and started between the sections of
\* an operation, every place and every item has exactly one permit, but for
\* at most one per task removed inside an operation (ipc.c:229-315,
\* rtos.c:217-223).
THEOREM PermitsAreConserved == Spec => []PermitsConserved
  BY PermitInvariance, PTL DEF PermitIInv

\* Without such a removal nobody sleeps beside an item or a free place whose
\* wake-up is not already on its way (ipc.c:229-315).
THEOREM NobodyIsStranded == Spec => []NobodyStranded
<1>1. ASSUME PermitIInv, kills = 0
      PROVE  LostSlots = 0 /\ LostItems = 0
  BY <1>1, PermitTypes, PermitCounts, Accounts, QueueAssumption, SemaphoreAssumption
     DEF PermitIInv, PermitsConserved
<1>2. ASSUME PermitIInv, kills = 0, wait_mask["items"] # {}, used > 0
      PROVE  \E t \in Tasks :
               \/ pc[t] \in {"signal_items", "pop"}
               \/ pc[t] = "wait_items" /\ state[t] = "READY"
  <2>1. count["items"] = 0
    BY <1>2, PermitTypes DEF SemIInv, NoLostWakeup
  <2>2. Cardinality(ItemHolders) + Cardinality(ItemSignallers) > 0
    BY <1>1, <1>2, <2>1, PermitTypes, PermitCounts, Accounts
  <2>3. ItemHolders # {} \/ ItemSignallers # {}
    BY <2>2, FS_EmptySet
  <2>4. QED
    BY <2>3 DEF ItemHolders, ItemSignallers, Holds
<1>3. ASSUME PermitIInv, kills = 0, wait_mask["slots"] # {}, used < Capacity
      PROVE  \E t \in Tasks :
               \/ pc[t] \in {"signal_slots", "push"}
               \/ pc[t] = "wait_slots" /\ state[t] = "READY"
  <2>1. count["slots"] = 0
    BY <1>3, PermitTypes DEF SemIInv, NoLostWakeup
  <2>2. Cardinality(SlotHolders) + Cardinality(SlotSignallers) > 0
    BY <1>1, <1>3, <2>1, PermitTypes, PermitCounts, Accounts, QueueAssumption, SemaphoreAssumption
  <2>3. SlotHolders # {} \/ SlotSignallers # {}
    BY <2>2, FS_EmptySet
  <2>4. QED
    BY <2>3 DEF SlotHolders, SlotSignallers, Holds
<1>4. PermitIInv => NobodyStranded
  BY <1>2, <1>3 DEF NobodyStranded
<1>5. QED
  BY <1>4, PermitInvariance, PTL

----------------------------------------------------------------------------
(* The kernel: programs, commands and ticks. *)

Commands ==
  [op : {"none", "start", "stop"}, name : {"xsh", Nobody} \cup Programs,
   slot : 0 .. MaxTasks, args : Overrides, fresh : BOOLEAN]

\* The programs' part of the state.
ControlOK ==
  /\ current \in Tasks
  /\ prog \in [Tasks -> {"xsh", Nobody} \cup Programs]
  /\ at \in [Tasks -> {"begin", "check", "use", "busy", "leave"}]
  /\ command \in Commands
  /\ command.op = "start" => command.name \in Programs
  /\ command.op = "stop" => command.slot \in Tasks
  /\ override \in [Programs -> Overrides] /\ told \in [Programs -> Overrides]

ControlIInv == ControlOK /\ StopNotMisdirected

----------------------------------------------------------------------------
(* Every step is a step of the queue. *)

LEMMA KernelStepIsQueueStep ==
  ASSUME ControlOK, [KNext]_kvars
  PROVE  [Next]_vars
<1>1. ASSUME NEW t \in Tasks, Program(t)
      PROVE  [Next]_vars
  <2>1. CASE Begins(t) \/ CheckStop(t)
    BY <2>1 DEF Begins, CheckStop
  <2>2. CASE Leave(t)
    BY <2>2 DEF Leave, Exits, Next
  <2>3. CASE TrySend(t)
    BY <2>3 DEF TrySend, Next
  <2>4. CASE Recv(t)
    BY <2>4 DEF Recv, Next
  <2>5. CASE InsideQueue(t)
    BY <2>5 DEF InsideQueue, Next
  <2>6. QED
    BY <1>1, <2>1, <2>2, <2>3, <2>4, <2>5 DEF Program
<1>2. ASSUME NEW p, NEW args,
             StartCommandRejects(p) \/ StartCommandLooks(p, args) \/ StopCommandFinds(p)
      PROVE  UNCHANGED vars
  BY <1>2 DEF StartCommandRejects, StartCommandLooks, StopCommandFinds
<1>3. CASE StartCommandActs
  BY <1>3 DEF StartCommandActs, Next
<1>4. CASE StopCommandAsks
  <2>1. command.slot \in Tasks
    BY <1>4 DEF StopCommandAsks, ControlOK
  <2>2. QED
    BY <1>4, <2>1 DEF StopCommandAsks, WakeForStop, Next
<1>5. CASE ShellLeaves
  BY <1>5 DEF ShellLeaves, Exits, Next, ControlOK
<1>6. CASE KTick
  BY <1>6 DEF KTick
<1>7. CASE UNCHANGED kvars
  BY <1>7 DEF kvars
<1>8. QED
  BY <1>1, <1>2, <1>3, <1>4, <1>5, <1>6, <1>7 DEF KNext, Shell

----------------------------------------------------------------------------
(* Commands and programs. *)

LEMMA NoCommandFields == NoCommand \in Commands /\ NoCommand.op = "none"
  BY KernelAssumption DEF NoCommand, Commands

LEMMA ControlInit == KInit => ControlIInv
  BY NoCommandFields, KernelAssumption
     DEF KInit, ControlIInv, ControlOK, StopNotMisdirected, Nobody, Programs

LEMMA ControlNext ==
  ASSUME ControlIInv, [KNext]_kvars
  PROVE  ControlIInv'
<1> USE DEF ControlIInv, ControlOK, StopNotMisdirected
<1>1. ASSUME NEW t \in Tasks, Begins(t) \/ CheckStop(t) \/ TrySend(t) \/ Recv(t)
      PROVE  ControlIInv'
  BY <1>1 DEF Begins, CheckStop, TrySend, Recv, Move, schedVars, argVars
<1>2. ASSUME NEW t \in Tasks, InsideQueue(t)
      PROVE  ControlIInv'
  BY <1>2 DEF InsideQueue, schedVars, argVars
<1>3. ASSUME NEW t \in Tasks, Leave(t)
      PROVE  ControlIInv'
  BY <1>3 DEF Leave, Move, Exits, argVars, Sched!TaskExit, Sched!MarkUnused
<1>4. CASE ShellLeaves
  BY <1>4, NoCommandFields DEF ShellLeaves, ShellReady, Exits, argVars, Sched!TaskExit, Sched!MarkUnused
<1>5. ASSUME NEW p \in Programs, NEW args \in Overrides, StartCommandLooks(p, args)
      PROVE  ControlIInv'
  <2>1. /\ command' = [NoCommand EXCEPT !.op = "start", !.name = p, !.args = args, !.fresh = ~Runs(p)]
        /\ override' \in {override, [override EXCEPT ![p] = args]}
        /\ UNCHANGED <<schedVars, prog, at, told>>
    BY <1>5 DEF StartCommandLooks
  <2>2. command' \in Commands /\ command'.op = "start" /\ command'.name = p
    <3>1. NoCommand \in Commands
      BY NoCommandFields
    <3>2. \E b \in BOOLEAN :
            command' = [NoCommand EXCEPT !.op = "start", !.name = p, !.args = args, !.fresh = b]
      <4>1. (~Runs(p)) \in BOOLEAN
        BY Zenon DEF Runs
      <4>2. QED
        BY <2>1, <4>1, Zenon
    <3>3. ASSUME NEW b \in BOOLEAN,
                 command' = [NoCommand EXCEPT !.op = "start", !.name = p, !.args = args, !.fresh = b]
          PROVE  command' \in Commands /\ command'.op = "start" /\ command'.name = p
      BY <3>1, <3>3 DEF Commands
    <3>4. QED
      BY <3>2, <3>3
  <2>3. override' \in [Programs -> Overrides]
    BY <2>1
  <2>4. UNCHANGED <<current, prog, at, told>>
    BY <2>1 DEF schedVars
  <2>5. QED
    BY <2>2, <2>3, <2>4
<1>6. ASSUME NEW p \in Programs, StartCommandRejects(p)
      PROVE  ControlIInv'
  BY <1>6, KernelAssumption DEF StartCommandRejects, schedVars
<1>7. CASE StartCommandActs
  <2>1. command' = NoCommand /\ command.name \in Programs
    BY <1>7 DEF StartCommandActs
  <2>2. ASSUME UNCHANGED <<schedVars, prog, at, told>>,
               override' \in {override, [override EXCEPT ![command.name] = Default]}
        PROVE  ControlIInv'
    <3>1. override' \in [Programs -> Overrides]
      BY <2>2, KernelAssumption
    <3>2. QED
      BY <2>1, <2>2, <3>1, NoCommandFields DEF schedVars
  <2>3. ASSUME NEW s \in Tasks,
               current' = current,
               prog' = [prog EXCEPT ![s] = command.name],
               at'   = [at EXCEPT ![s] = "begin"],
               told' = [told EXCEPT ![command.name] = command.args],
               UNCHANGED override
        PROVE  ControlIInv'
    <3>1. command.args \in Overrides
      BY DEF Commands
    <3>2. QED
      BY <2>1, <2>3, <3>1, NoCommandFields
  <2>4. CASE Runs(command.name)
    BY <1>7, <2>2, <2>4 DEF StartCommandActs, argVars
  <2>5. CASE ~Runs(command.name) /\ \A s \in Tasks : state[s] # "UNUSED"
    <3>1. override' \in {override, [override EXCEPT ![command.name] = Default]}
      BY <1>7, <2>5 DEF StartCommandActs
    <3>2. UNCHANGED <<schedVars, prog, at, told>>
      BY <1>7, <2>5 DEF StartCommandActs
    <3>3. QED
      BY <2>2, <3>1, <3>2
  <2>6. CASE ~Runs(command.name) /\ ~\A s \in Tasks : state[s] # "UNUSED"
    BY <1>7, <2>3, <2>6 DEF StartCommandActs, Sched!Register
  <2>7. QED
    BY <2>4, <2>5, <2>6
<1>8. ASSUME NEW p \in {"xsh"} \cup Programs, StopCommandFinds(p)
      PROVE  ControlIInv'
  <2>1. PICK s \in Tasks :
          /\ prog[s] = p
          /\ command' = [NoCommand EXCEPT !.op = "stop", !.name = p, !.slot = s]
    BY <1>8 DEF StopCommandFinds, Named
  <2>2. command' \in Commands /\ command'.op = "stop" /\ command'.name = p /\ command'.slot = s
    <3>1. s \in 0 .. MaxTasks
      BY KernelAssumption
    <3>2. NoCommand \in Commands
      BY NoCommandFields
    <3>3. QED
      BY <2>1, <3>1, <3>2 DEF Commands
  <2>3. UNCHANGED <<schedVars, prog, at, argVars>>
    BY <1>8 DEF StopCommandFinds
  <2>4. QED
    BY <2>1, <2>2, <2>3 DEF schedVars, argVars
<1>9. CASE StopCommandAsks
  <2>1. command' = NoCommand /\ UNCHANGED <<current, prog, at, argVars>>
    BY <1>9 DEF StopCommandAsks, schedVars
  <2>2. QED
    BY <2>1, NoCommandFields DEF argVars
<1>10. CASE KTick
  <2>1. current' \in Tasks
    BY <1>10, KernelAssumption
       DEF KTick, Sched!Tick, Sched!TickKeep, Sched!TickSwitch, Sched!TickIdle, Sched!vars, Sched!Slots
  <2>2. QED
    BY <1>10, <2>1 DEF KTick, progVars, argVars
<1>11. CASE UNCHANGED kvars
  BY <1>11 DEF kvars, schedVars, progVars, argVars
<1>12. QED
  BY <1>1, <1>2, <1>3, <1>4, <1>5, <1>6, <1>7, <1>8, <1>9, <1>10, <1>11 DEF KNext, Shell, Program

THEOREM ControlInvariance == KSpec => []ControlIInv
  BY ControlInit, ControlNext, PTL DEF KSpec

\* The slot a stop command looked up is still the program's, or nobody's,
\* when the request reaches it, however ticks and exits fall in between
\* (xsh_cmd.c:377-383).
THEOREM StopReachesItsProgram == KSpec => []StopNotMisdirected
  BY ControlInvariance, PTL DEF ControlIInv

\* Composed with the scheduler and the programs, the queue keeps every
\* promise of its own specification.
THEOREM KernelUsesQueue == KSpec => Spec
<1>1. KInit => Init
  BY DEF KInit
<1>2. ControlIInv /\ [KNext]_kvars => [Next]_vars
  BY KernelStepIsQueueStep DEF ControlIInv
<1>3. QED
  BY <1>1, <1>2, ControlInvariance, PTL DEF KSpec, Spec

\* The demo queue still delivers once and in order under start, stop and
\* exit of its two programs (ipc_demo.c, ipc.c:104-132).
THEOREM KernelImplementsChannel == KSpec => ImplementsChannel
  BY KernelUsesQueue, QueueImplementsChannel, PTL

\* And b and c lose no permit and no wake-up of each other.
THEOREM KernelLosesNoWakeup == KSpec => [](NoLostWakeup /\ PermitsConserved)
  BY KernelUsesQueue, QueueWakeupsAreNotLost, PermitsAreConserved, PTL

----------------------------------------------------------------------------
(* Refinement of the abstract scheduler. *)

CoarseState == [t \in Tasks |-> Coarse(t)]

LEMMA SlotsAreTasks == Sched!Slots = Tasks
  BY KernelAssumption DEF Sched!Slots

LEMMA ReadyIsReady ==
  ASSUME QIInv, NEW t \in Tasks
  PROVE  Sched!Ready(t) <=> state[t] = "READY"
  BY DEF Sched!Ready, Coarse, WaitStates

\* What the scheduler sees of a step that gives one slot a new state.
LEMMA CoarseStep ==
  ASSUME QIInv, NEW t \in Tasks, NEW s, state' = [state EXCEPT ![t] = s]
  PROVE  CoarseState' = [CoarseState EXCEPT ![t] = IF s \in WaitStates THEN "WAIT" ELSE s]
<1>1. \A u \in Tasks : state'[u] = IF u = t THEN s ELSE state[u]
  BY DEF QIInv, SemIInv, SemTypeOK
<1>2. CoarseState' = [u \in Tasks |-> IF state'[u] \in WaitStates THEN "WAIT" ELSE state'[u]]
  BY DEF CoarseState, Coarse
<1>3. CoarseState = [u \in Tasks |-> IF state[u] \in WaitStates THEN "WAIT" ELSE state[u]]
  BY DEF CoarseState, Coarse
<1>4. QED
  BY <1>1, <1>2, <1>3

LEMMA CoarseStutter ==
  ASSUME UNCHANGED state
  PROVE  UNCHANGED CoarseState
  BY DEF CoarseState, Coarse

\* Whoever has a mask bit sleeps; whoever does not sleep is READY or gone.
LEMMA SleeperWaits ==
  ASSUME QIInv, NEW t \in Tasks
  PROVE  /\ \A s \in Sems : t \in wait_mask[s] => state[t] \in WaitStates
         /\ ~Asleep(t) => state[t] \in {"UNUSED", "READY"}
  BY SemaphoreAssumption DEF QIInv, SemIInv, SemTypeOK, WaitersConsistent, Asleep, WaitStates

LEMMA BlockStep ==
  ASSUME QIInv, NEW t \in Tasks, t = current, RecvWaits(t), UNCHANGED schedVars
  PROVE  Sched!Block
<1>1. state' = [state EXCEPT ![t] = "WAIT_Q_RECV"] /\ state[t] = "READY"
  BY DEF RecvWaits, Wait, CanRun
<1>2. CoarseState' = [CoarseState EXCEPT ![current] = "WAIT"]
  BY <1>1, CoarseStep DEF WaitStates
<1>3. Sched!Ready(current)
  BY <1>1, ReadyIsReady
<1>4. QED
  BY <1>2, <1>3 DEF Sched!Block, Sched!Running, CoarseState, schedVars

LEMMA WakeStep ==
  ASSUME QIInv, NEW t \in Tasks, t = current, Finish(t), UNCHANGED schedVars
  PROVE  (\E w \in Tasks : Sched!Wake(w)) \/ UNCHANGED CoarseState
<1>1. PICK s \in Sems : Signal(t, s)
  BY QueueAssumption DEF Finish, QSems
<1>2. CASE Release(s)
  BY <1>2, CoarseStutter DEF Release, taskVars
<1>3. CASE HandOff(s)
  <2>1. PICK w \in Tasks :
          /\ w \in wait_mask[s]
          /\ IF state[w] = "UNUSED" THEN UNCHANGED state ELSE state' = [state EXCEPT ![w] = "READY"]
    BY <1>3 DEF HandOff, IsFirstWaiter
  <2>2. state[w] \in WaitStates
    BY <2>1, SleeperWaits
  <2>3. state' = [state EXCEPT ![w] = "READY"]
    BY <2>1, <2>2 DEF WaitStates
  <2>4. CoarseState' = [CoarseState EXCEPT ![w] = "READY"]
    BY <2>3, CoarseStep DEF WaitStates
  <2>5. CoarseState[w] = "WAIT"
    BY <2>2 DEF CoarseState, Coarse
  <2>6. Sched!Ready(current)
    BY <1>1, ReadyIsReady DEF Signal, CanRun
  <2>7. QED
    BY <2>4, <2>5, <2>6 DEF Sched!Wake, Sched!Running, CoarseState, schedVars
<1>4. QED
  BY <1>1, <1>2, <1>3 DEF Signal

LEMMA StopStep ==
  ASSUME QIInv, ControlOK, StopCommandAsks
  PROVE  Sched!RequestStop(command.slot) \/ UNCHANGED <<CoarseState, schedVars>>
<1> DEFINE s == command.slot
<1>1. s \in Tasks
  BY DEF StopCommandAsks, ControlOK
<1>2. CASE state[s] = "UNUSED"
  BY <1>2, CoarseStutter DEF StopCommandAsks, vars, svars
<1>3. CASE state[s] # "UNUSED"
  <2>1. /\ WakeForStop(s)
        /\ UNCHANGED <<weight, budget, current, passed>>
        /\ stop_flag' = [stop_flag EXCEPT ![s] = TRUE]
    BY <1>3 DEF StopCommandAsks
  <2>2. Sched!Ready(current)
    BY ReadyIsReady DEF StopCommandAsks, Executes, CanRun, ControlOK
  <2>3. CoarseState[s] # "UNUSED"
    BY <1>1, <1>3 DEF CoarseState, Coarse
  <2>4. CoarseState' = [CoarseState EXCEPT ![s] = "READY"]
    <3>1. CASE Asleep(s)
      <4>1. state' = [state EXCEPT ![s] = "READY"]
        BY <2>1, <3>1 DEF WakeForStop, QStop, RequestStop
      <4>2. QED
        BY <1>1, <4>1, CoarseStep DEF WaitStates
    <3>2. CASE ~Asleep(s)
      <4>1. state[s] = "READY" /\ UNCHANGED state
        BY <1>1, <1>3, <2>1, <3>2, SleeperWaits DEF WakeForStop, vars, svars
      <4>2. CoarseState[s] = "READY" /\ UNCHANGED CoarseState
        BY <1>1, <4>1, CoarseStutter DEF CoarseState, Coarse, WaitStates
      <4>3. QED
        BY <4>2 DEF CoarseState
    <3>3. QED
      BY <3>1, <3>2
  <2>5. QED
    BY <2>1, <2>2, <2>3, <2>4 DEF Sched!RequestStop, Sched!Running, CoarseState
<1>4. QED
  BY <1>2, <1>3

LEMMA KernelStepIsSchedStep ==
  ASSUME QIInv, ControlOK, [KNext]_kvars
  PROVE  [Sched!Next]_(Sched!vars)
<1>1. ASSUME UNCHANGED <<CoarseState, schedVars>>
      PROVE  UNCHANGED Sched!vars
  BY <1>1 DEF Sched!vars, CoarseState, schedVars
<1>2. ASSUME UNCHANGED <<state, schedVars>>
      PROVE  UNCHANGED Sched!vars
  BY <1>1, <1>2, CoarseStutter
<1>3. ASSUME NEW t \in Tasks, Program(t)
      PROVE  [Sched!Next]_(Sched!vars)
  <2>1. CASE Begins(t) \/ CheckStop(t)
    BY <2>1, <1>2 DEF Begins, CheckStop, vars, svars
  <2>2. CASE Leave(t)
    BY <2>2 DEF Leave, Exits, Sched!Next, Sched!Call
  <2>3. CASE TrySend(t)
    BY <2>3, <1>2 DEF TrySend, SendTakes, Take, taskVars, vars, svars
  <2>4. CASE Recv(t)
    <3>1. t = current /\ UNCHANGED schedVars
      BY <2>4 DEF Recv, Executes
    <3>2. CASE RecvTakes(t)
      BY <3>1, <3>2, <1>2 DEF RecvTakes, Take, taskVars
    <3>3. CASE RecvWaits(t)
      BY <3>1, <3>3, BlockStep DEF Sched!Next, Sched!Call
    <3>4. QED
      BY <2>4, <3>2, <3>3 DEF Recv
  <2>5. CASE InsideQueue(t)
    <3>1. t = current /\ UNCHANGED schedVars
      BY <2>5 DEF InsideQueue
    <3>2. CASE Push(t) \/ Pop(t)
      BY <3>1, <3>2, <1>2 DEF Push, Pop, svars
    <3>3. CASE RecvResumes(t)
      BY <3>1, <3>3, <1>2 DEF RecvResumes, Resume
    <3>4. CASE Finish(t)
      BY <3>1, <3>4, <1>1, WakeStep, SlotsAreTasks DEF Sched!Next, Sched!Call
    <3>5. QED
      BY <2>5, <3>2, <3>3, <3>4 DEF InsideQueue
  <2>6. QED
    BY <1>3, <2>1, <2>2, <2>3, <2>4, <2>5 DEF Program
<1>4. ASSUME NEW p, NEW args,
             StartCommandRejects(p) \/ StartCommandLooks(p, args) \/ StopCommandFinds(p)
      PROVE  UNCHANGED Sched!vars
  BY <1>4, <1>2 DEF StartCommandRejects, StartCommandLooks, StopCommandFinds, vars, svars
<1>5. CASE StartCommandActs
  <2>1. WeightOf[command.name] \in {WeightOf[p] : p \in {"xsh"} \cup Programs}
    BY <1>5 DEF StartCommandActs, ControlOK
  <2>2. Sched!Register(WeightOf[command.name]) \/ UNCHANGED <<state, schedVars>>
    BY <1>5 DEF StartCommandActs, vars, svars
  <2>3. QED
    BY <1>2, <2>1, <2>2 DEF Sched!Next, Sched!Call
<1>6. CASE StopCommandAsks
  BY <1>6, <1>1, StopStep, SlotsAreTasks DEF Sched!Next, Sched!Call, StopCommandAsks, ControlOK
<1>7. CASE ShellLeaves
  BY <1>7 DEF ShellLeaves, Exits, Sched!Next, Sched!Call
<1>8. CASE KTick
  BY <1>8 DEF KTick, Sched!Next
<1>9. CASE UNCHANGED kvars
  BY <1>9, <1>2 DEF kvars, vars, svars, schedVars
<1>10. QED
  BY <1>3, <1>4, <1>5, <1>6, <1>7, <1>8, <1>9 DEF KNext, Shell

LEMMA KernelInitIsSchedInit == KInit => Sched!Init
<1> SUFFICES ASSUME KInit PROVE Sched!Init
  OBVIOUS
<1> DEFINE w == [t \in Tasks |-> WeightOf["xsh"]]
<1>1. 0 \in Tasks /\ w \in [Tasks -> {WeightOf[p] : p \in {"xsh"} \cup Programs}]
  BY KernelAssumption
<1>2. WeightOf["xsh"] \in 1 .. WeightMax
  BY KernelAssumption
<1>3. Sched!Sanitize(WeightOf["xsh"]) = WeightOf["xsh"]
  BY <1>2, KernelAssumption DEF Sched!Sanitize, Sched!WeightMin
<1>4. \A t \in Tasks : t <= 0 <=> t = 0
  BY KernelAssumption
<1>5. CoarseState = [t \in Tasks |-> IF t <= 0 THEN "READY" ELSE "UNUSED"]
  BY <1>4 DEF KInit, CoarseState, Coarse, WaitStates
<1>6. weight = [t \in Tasks |-> IF t <= 0 THEN Sched!Sanitize(w[t]) ELSE 0]
  BY <1>3, <1>4 DEF KInit
<1>7. QED
  BY <1>1, <1>5, <1>6, SlotsAreTasks, ZenonT(60) DEF KInit, Sched!Init, CoarseState

\* What rtos.c, ipc.c, the programs and the shell's commands do together is
\* what the scheduler's specification allows, for every number of slots.
THEOREM KernelImplementsScheduler == KSpec => ImplementsScheduler
<1>1. QIInv /\ ControlIInv /\ [KNext]_kvars => [Sched!Next]_(Sched!vars)
  BY KernelStepIsSchedStep DEF ControlIInv
<1>2. KSpec => []QIInv
  BY KernelUsesQueue, QInvariance, PTL
<1>3. QED
  BY <1>1, <1>2, KernelInitIsSchedInit, ControlInvariance, PTL
     DEF KSpec, ImplementsScheduler, Sched!Spec


----------------------------------------------------------------------------
(* So what is proved of the abstract scheduler holds of the kernel. *)

SP == INSTANCE SchedulerProofs WITH
  WeightArgs <- {WeightOf[p] : p \in {"xsh"} \cup Programs},
  state <- [t \in Tasks |-> Coarse(t)]

LEMMA SchedParameters == SP!SchedulerAssumption
  BY KernelAssumption DEF SP!SchedulerAssumption

LEMMA SameScheduler ==
  /\ Sched!Init => SP!Init
  /\ [Sched!Next]_(Sched!vars) => [SP!Next]_(SP!vars)
  /\ SP!BoundedWait => Sched!BoundedWait
  /\ SP!SlotHygiene => Sched!SlotHygiene
  /\ SP!TypeOK => Sched!TypeOK
<1>1. Sched!Init => SP!Init
  BY DEF Sched!Init, SP!Init, Sched!Slots, SP!Slots, Sched!Sanitize, SP!Sanitize,
         Sched!WeightMin, SP!WeightMin
<1>2. SP!BoundedWait => Sched!BoundedWait
  BY DEF SP!BoundedWait, Sched!BoundedWait, Sched!Slots, SP!Slots, Sched!Ready, SP!Ready
<1>3. Sched!Tick => SP!Tick
  BY DEF Sched!Tick, SP!Tick, Sched!TickKeep, SP!TickKeep, Sched!TickSwitch, SP!TickSwitch, Sched!TickIdle,
     SP!TickIdle, Sched!KeepsCpu, SP!KeepsCpu, Sched!Ready, SP!Ready, Sched!Slots, SP!Slots, Sched!vars, SP!vars,
     Sched!Aged, SP!Aged, Sched!OneMore, SP!OneMore, Sched!NextReady, SP!NextReady, Sched!Probes, SP!Probes,
     Sched!Refilled, SP!Refilled
<1>4. Sched!Call => SP!Call
  BY DEF Sched!Call, SP!Call, Sched!Register, SP!Register, Sched!Unregister, SP!Unregister, Sched!RequestStop, SP!RequestStop,
    Sched!Wake, SP!Wake, Sched!SetWeight, SP!SetWeight, Sched!TaskExit, SP!TaskExit, Sched!Block, SP!Block,
    Sched!Running, SP!Running, Sched!Ready, SP!Ready, Sched!Slots, SP!Slots, Sched!MarkUnused, SP!MarkUnused,
    Sched!ClearedStop, SP!ClearedStop, Sched!LowestUnused, SP!LowestUnused, Sched!Sanitize, SP!Sanitize,
    Sched!WeightMin, SP!WeightMin, Sched!BudgetUnder, SP!BudgetUnder
<1>5. Sched!Next => SP!Next
  BY <1>3, <1>4 DEF Sched!Next, SP!Next
<1>6. [Sched!Next]_(Sched!vars) => [SP!Next]_(SP!vars)
  <2>1. (UNCHANGED Sched!vars) => UNCHANGED SP!vars
    BY DEF Sched!vars, SP!vars
  <2>2. QED
    BY <1>5, <2>1
<1>7. SP!SlotHygiene => Sched!SlotHygiene
  BY DEF SP!SlotHygiene, Sched!SlotHygiene, Sched!Slots, SP!Slots
<1>8. SP!TypeOK => Sched!TypeOK
  BY DEF SP!TypeOK, Sched!TypeOK, Sched!Slots, SP!Slots, Sched!States, SP!States
<1>9. QED
  BY <1>1, <1>2, <1>6, <1>7, <1>8

LEMMA KernelIsAScheduler == KSpec => SP!Init /\ [][SP!Next]_(SP!vars)
  BY SameScheduler, KernelImplementsScheduler, PTL DEF ImplementsScheduler, Sched!Spec

\* A READY program runs within TASK_WEIGHT_MAX ticks for each other slot,
\* while programs block on the queue, wake each other, are started, stopped
\* and leave (rtos.c:489-530, ipc.c:29-67).
THEOREM KernelWaitIsBounded == KSpec => []Sched!BoundedWait
<1>1. SP!Init /\ [][SP!Next]_(SP!vars) => []SP!BoundedWait
  BY SP!WaitIsBounded, SchedParameters, PTL DEF SP!Spec
<1>2. QED
  BY <1>1, SameScheduler, KernelIsAScheduler, PTL

\* No program starts in a slot that still holds a stop request, a weight or
\* a budget of the program before it (rtos.c:217-223).
THEOREM KernelSlotsHygienic == KSpec => []Sched!SlotHygiene
<1>1. SP!Init /\ [][SP!Next]_(SP!vars) => []SP!SlotHygiene
  BY SP!SlotsHygienic, SchedParameters, PTL DEF SP!Spec
<1>2. QED
  BY <1>1, SameScheduler, KernelIsAScheduler, PTL

\* The composed state keeps its types.
THEOREM KernelTypeCorrect == KSpec => []KTypeOK
<1>1. SP!Init /\ [][SP!Next]_(SP!vars) => []SP!TypeOK
  BY SP!TypeCorrect, SchedParameters, PTL DEF SP!Spec
<1>2. KSpec => []Sched!TypeOK
  BY <1>1, SameScheduler, KernelIsAScheduler, PTL
<1>3. TypeOK /\ Sched!TypeOK /\ ControlIInv => KTypeOK
  BY DEF ControlIInv, ControlOK, Commands, KTypeOK
<1>4. QED
  BY <1>2, <1>3, KernelUsesQueue, QueueTypeCorrect, ControlInvariance, PTL

=============================================================================
