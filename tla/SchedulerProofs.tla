-------------------------- MODULE SchedulerProofs --------------------------
(***************************************************************************)
(* Bounded waiting of the weighted round-robin, for every number of slots  *)
(* and every weight bound.                                                 *)
(*                                                                         *)
(* BoundedWait alone is not inductive: it does not say how far the scan is *)
(* from the waiting slot.  WaitDebt adds to the ticks already passed the   *)
(* most that can still pass: a full quantum for every slot the scan meets  *)
(* first, and what is left of the running one.  A tick moves one unit from *)
(* the second part to the first; no call may increase the sum, which is    *)
(* what SlotHygiene (a budget never exceeds TASK_WEIGHT_MAX) is needed for.*)
(***************************************************************************)
EXTENDS Scheduler, TLAPS

Left == IF budget[current] > 1 THEN budget[current] ELSE 1

Debt(t) == WeightMax * (Probes(t) - 1) + Left

WaitDebt ==
  \A t \in Slots :
    Ready(t) /\ t # current => passed[t] + Debt(t) <= WeightMax * (MaxTasks - 1)

\* passed[t] counts only while t waits.
PassedOnlyWaiting ==
  \A t \in Slots : ~Ready(t) \/ t = current => passed[t] = 0

IInv == TypeOK /\ SlotHygiene /\ PassedOnlyWaiting /\ WaitDebt

----------------------------------------------------------------------------
(* Arithmetic of the scan. *)

\* A slot other than the interrupted one is reached in 1..MaxTasks-1 probes.
LEMMA ProbesRange ==
  ASSUME TypeOK, NEW t \in Slots
  PROVE  /\ Probes(t) \in 1 .. MaxTasks
         /\ t # current => Probes(t) \in 1 .. MaxTasks - 1
  BY SchedulerAssumption DEF TypeOK, Slots, Probes

\* One quantum more fits under a strictly larger number of quanta.
LEMMA QuantaMonotone ==
  ASSUME NEW a \in Int, NEW b \in Int, NEW w \in Nat, a < b
  PROVE  w * a + w <= w * b
<1>1. w * (b - a - 1) >= 0
  <2>1. b - a - 1 \in Nat
    OBVIOUS
  <2>2. \A k \in Nat : w * k >= 0
    OBVIOUS
  <2>3. QED
    BY <2>1, <2>2
<1>2. w * (b - a - 1) = w * b - w * a - w
  OBVIOUS
<1>3. QED
  BY <1>1, <1>2

\* Sanitized weights are between TASK_WEIGHT_MIN and TASK_WEIGHT_MAX.
LEMMA SanitizeRange ==
  ASSUME NEW w \in WeightArgs
  PROVE  Sanitize(w) \in 1 .. WeightMax
  BY SchedulerAssumption DEF Sanitize, WeightMin


----------------------------------------------------------------------------
(* One lemma for the tick and one for the calls. *)

USE DEF Ready, Running

LEMMA InitIInv == Init => IInv
<1> SUFFICES ASSUME NEW last \in Slots, NEW w \in [Slots -> WeightArgs],
                    state = [t \in Slots |-> IF t <= last THEN "READY" ELSE "UNUSED"],
                    weight = [t \in Slots |-> IF t <= last THEN Sanitize(w[t]) ELSE 0],
                    budget = weight,
                    stop_flag = [t \in Slots |-> FALSE],
                    current = 0,
                    passed = [t \in Slots |-> 0]
             PROVE  IInv
  BY DEF Init
<1>1. \A t \in Slots : Sanitize(w[t]) \in 1 .. WeightMax
  BY SanitizeRange
<1>2. TypeOK
  BY <1>1, SchedulerAssumption DEF TypeOK, Slots, States
<1>3. SlotHygiene
  BY <1>1 DEF SlotHygiene, Slots
<1>4. PassedOnlyWaiting
  BY DEF PassedOnlyWaiting
<1>5. WaitDebt
  <2> SUFFICES ASSUME NEW t \in Slots, t # current
               PROVE  passed[t] + Debt(t) <= WeightMax * (MaxTasks - 1)
    BY DEF WaitDebt
  <2>1. Probes(t) \in 1 .. MaxTasks - 1
    BY <1>2, ProbesRange
  <2>2. Left \in 1 .. WeightMax
    BY <1>2, SchedulerAssumption DEF Left, TypeOK
  <2>3. WeightMax * (Probes(t) - 1) + WeightMax <= WeightMax * (MaxTasks - 1)
    BY <2>1, QuantaMonotone, SchedulerAssumption
  <2>4. QED
    BY <2>1, <2>2, <2>3, SchedulerAssumption DEF Debt
<1>6. QED
  BY <1>2, <1>3, <1>4, <1>5 DEF IInv

LEMMA AgedType ==
  ASSUME TypeOK, NEW p \in Slots
  PROVE  Aged(p) \in [Slots -> Nat]
<1>1. \A t \in Slots : OneMore(passed[t]) \in Nat
  BY DEF TypeOK, OneMore
<1>2. QED
  BY <1>1 DEF Aged

LEMMA TickKeepIInv ==
  ASSUME IInv, TickKeep
  PROVE  IInv'
<1> USE SchedulerAssumption DEF IInv, KeepsCpu
<1>1. TypeOK'
  <2>1. passed' \in [Slots -> Nat]
    BY AgedType DEF TickKeep, TypeOK
  <2>2. budget' \in [Slots -> 0 .. WeightMax]
    <3>1. budget[current] - 1 \in 0 .. WeightMax
      BY DEF TickKeep, TypeOK
    <3>2. QED
      BY <3>1 DEF TickKeep, TypeOK
  <2>3. QED
    BY <2>1, <2>2 DEF TickKeep, TypeOK
<1>2. SlotHygiene'
  BY SMTT(60) DEF TickKeep, TypeOK, SlotHygiene, Slots
<1>3. PassedOnlyWaiting'
  BY DEF TickKeep, TypeOK, PassedOnlyWaiting, Aged
<1>4. WaitDebt'
  <2> SUFFICES ASSUME NEW t \in Slots, Ready(t), t # current
               PROVE  passed'[t] + Debt(t)' <= WeightMax * (MaxTasks - 1)
    BY DEF WaitDebt, TickKeep
  <2>1. passed'[t] \in Nat /\ passed'[t] <= passed[t] + 1
    BY DEF TickKeep, Aged, OneMore, TypeOK
  <2>2. Left' = Left - 1
    BY SMTT(60) DEF TickKeep, TypeOK, Left, Slots
  <2>3. Debt(t)' = WeightMax * (Probes(t) - 1) + Left'
    BY DEF TickKeep, Debt, Probes
  <2>4. Left \in Int /\ passed[t] \in Int /\ Probes(t) \in Int
    BY ProbesRange DEF TypeOK, Left
  <2>5. QED
    BY <2>1, <2>2, <2>3, <2>4 DEF WaitDebt, Debt
<1>5. QED
  BY <1>1, <1>2, <1>3, <1>4

LEMMA TickSwitchIInv ==
  ASSUME IInv, TickSwitch
  PROVE  IInv'
<1> USE SchedulerAssumption DEF IInv
<1>1. PICK p \in Slots :
        /\ NextReady(p)
        /\ current' = p
        /\ budget' = [Refilled EXCEPT ![p] = IF @ = 0 THEN weight[p] ELSE @]
        /\ passed' = Aged(p)
  BY DEF TickSwitch
<1>2. UNCHANGED <<state, weight, stop_flag>>
  BY DEF TickSwitch
<1>3. TypeOK'
  <2>1. passed' \in [Slots -> Nat]
    BY <1>1, AgedType
  <2>2. Refilled \in [Slots -> 0 .. WeightMax]
    BY DEF TypeOK, Refilled
  <2>3. budget' \in [Slots -> 0 .. WeightMax]
    BY <1>1, <2>2 DEF TypeOK
  <2>4. QED
    BY <1>1, <1>2, <2>1, <2>3 DEF TypeOK
<1>4. SlotHygiene'
  BY <1>1, <1>2 DEF TypeOK, SlotHygiene, Refilled, NextReady
<1>5. PassedOnlyWaiting'
  BY <1>1, <1>2 DEF TypeOK, PassedOnlyWaiting, Aged
<1>6. WaitDebt'
  <2> SUFFICES ASSUME NEW t \in Slots, Ready(t), t # p
               PROVE  passed'[t] + Debt(t)' <= WeightMax * (MaxTasks - 1)
    BY <1>1, <1>2 DEF WaitDebt
  <2>1. Left' \in 1 .. WeightMax
    BY <1>1, <1>3, <1>4 DEF TypeOK, Left
  <2>2. Probes(t)' \in 1 .. MaxTasks - 1
    <3>1. Probes(t)' = IF t > p THEN t - p ELSE t - p + MaxTasks
      BY <1>1 DEF Probes
    <3>2. QED
      BY <3>1 DEF Slots
  <2>3. Debt(t)' = WeightMax * (Probes(t)' - 1) + Left'
    BY DEF Debt
  <2>4. Probes(t) \in 1 .. MaxTasks /\ Probes(p) \in 1 .. MaxTasks
    BY ProbesRange
  <2>5. CASE t = current
    <3>1. passed'[t] = 0
      BY <1>1, <2>5 DEF Aged
    <3>2. WeightMax * (Probes(t)' - 1) + WeightMax <= WeightMax * (MaxTasks - 1)
      BY <2>2, QuantaMonotone
    <3>3. QED
      BY <2>1, <2>2, <2>3, <3>1, <3>2
  <2>6. CASE t # current
    <3>1. passed'[t] \in Nat /\ passed'[t] <= passed[t] + 1
      BY <1>1, <2>6 DEF Aged, OneMore, TypeOK
    <3>2. Probes(p) < Probes(t)
      BY <1>1, SMTT(60) DEF NextReady, Probes, TypeOK, Slots
    <3>3. Probes(t)' = Probes(t) - Probes(p)
      BY <1>1, <2>6, <3>2, SMTT(60) DEF Probes, TypeOK, Slots
    <3>4. WeightMax * (Probes(t)' - 1) + WeightMax <= WeightMax * (Probes(t) - 1)
      BY <2>2, <2>4, <3>3, QuantaMonotone
    <3>5. passed[t] + WeightMax * (Probes(t) - 1) + Left <= WeightMax * (MaxTasks - 1)
      BY <2>4, <2>6 DEF WaitDebt, Debt, TypeOK, Left
    <3>6. Left \in Nat /\ Left >= 1 /\ passed[t] \in Nat
      BY DEF TypeOK, Left
    <3>7. QED
      BY <2>1, <2>2, <2>3, <2>4, <3>1, <3>4, <3>5, <3>6
  <2>7. QED
    BY <2>5, <2>6
<1>7. QED
  BY <1>3, <1>4, <1>5, <1>6

\* A call moves no slot past another: it is enough that it neither lengthens
\* the running quantum nor touches the history of a slot that stays READY.
LEMMA CallWaitDebt ==
  ASSUME IInv, TypeOK', SlotHygiene', current' = current, Left' <= Left,
         \A t \in Slots : Ready(t)' => passed'[t] = passed[t]
  PROVE  WaitDebt'
<1> SUFFICES ASSUME NEW t \in Slots, Ready(t)', t # current
             PROVE  passed'[t] + Debt(t)' <= WeightMax * (MaxTasks - 1)
  BY DEF WaitDebt
<1> USE SchedulerAssumption DEF IInv
<1>1. Debt(t)' = WeightMax * (Probes(t) - 1) + Left'
  BY DEF Debt, Probes
<1>2. Probes(t) \in 1 .. MaxTasks - 1
  BY ProbesRange
<1>3. Left \in Int /\ Left' \in Int /\ Left' <= WeightMax
  BY DEF TypeOK, Left
<1>4. passed'[t] = passed[t] /\ passed[t] \in Nat
  BY DEF TypeOK
<1>5. CASE Ready(t)
  BY <1>1, <1>2, <1>3, <1>4, <1>5 DEF WaitDebt, Debt
<1>6. CASE ~Ready(t)
  <2>1. passed'[t] = 0
    BY <1>4, <1>6 DEF PassedOnlyWaiting
  <2>2. WeightMax * (Probes(t) - 1) + WeightMax <= WeightMax * (MaxTasks - 1)
    BY <1>2, QuantaMonotone
  <2>3. QED
    BY <1>1, <1>2, <1>3, <2>1, <2>2
<1>7. QED
  BY <1>5, <1>6

LEMMA MarkUnusedIInv ==
  ASSUME IInv, NEW t \in Slots, MarkUnused(t)
  PROVE  IInv'
<1> USE SchedulerAssumption DEF IInv, MarkUnused, ClearedStop
<1>1. TypeOK'
  BY DEF TypeOK, States
<1>2. SlotHygiene'
  BY DEF TypeOK, SlotHygiene
<1>3. PassedOnlyWaiting'
  BY DEF TypeOK, PassedOnlyWaiting
<1>4. WaitDebt'
  <2>1. Left' <= Left
    BY DEF TypeOK, Left
  <2>2. \A u \in Slots : Ready(u)' => passed'[u] = passed[u]
    BY DEF TypeOK
  <2>3. QED
    BY <1>1, <1>2, <2>1, <2>2, CallWaitDebt
<1>5. QED
  BY <1>1, <1>2, <1>3, <1>4

LEMMA RegisterIInv ==
  ASSUME IInv, NEW w \in WeightArgs, Register(w)
  PROVE  IInv'
<1> USE SchedulerAssumption DEF IInv
<1>1. PICK s \in Slots :
        /\ LowestUnused(s)
        /\ state'  = [state EXCEPT ![s] = "READY"]
        /\ weight' = [weight EXCEPT ![s] = Sanitize(w)]
        /\ budget' = [budget EXCEPT ![s] = Sanitize(w)]
  BY DEF Register
<1>2. UNCHANGED <<stop_flag, current, passed>>
  BY DEF Register
<1>3. s # current
  BY <1>1 DEF Register, LowestUnused
<1>4. Sanitize(w) \in 1 .. WeightMax
  BY SanitizeRange
<1>5. TypeOK'
  BY <1>1, <1>2, <1>4 DEF TypeOK, States
<1>6. SlotHygiene'
  BY <1>1, <1>2, <1>4 DEF TypeOK, SlotHygiene
<1>7. PassedOnlyWaiting'
  BY <1>1, <1>2 DEF TypeOK, PassedOnlyWaiting
<1>8. WaitDebt'
  <2>1. Left' <= Left
    BY <1>1, <1>2, <1>3 DEF TypeOK, Left
  <2>2. QED
    BY <1>2, <1>5, <1>6, <2>1, CallWaitDebt
<1>9. QED
  BY <1>5, <1>6, <1>7, <1>8

LEMMA SetWeightIInv ==
  ASSUME IInv, NEW t \in Slots, NEW w \in WeightArgs, SetWeight(t, w)
  PROVE  IInv'
<1> USE SchedulerAssumption DEF IInv
<1> DEFINE b == BudgetUnder(budget[t], Sanitize(w))
<1>1. Sanitize(w) \in 1 .. WeightMax
  BY SanitizeRange
<1>2. b \in 1 .. Sanitize(w) /\ b <= budget[t]
  BY <1>1 DEF BudgetUnder, SetWeight, SlotHygiene, TypeOK
<1>3. budget' = [budget EXCEPT ![t] = b]
  BY DEF SetWeight
<1> HIDE DEF b
<1>4. TypeOK'
  BY <1>1, <1>2, <1>3 DEF TypeOK, SetWeight
<1>5. SlotHygiene'
  BY <1>1, <1>2, <1>3 DEF TypeOK, SlotHygiene, SetWeight
<1>6. PassedOnlyWaiting'
  BY DEF PassedOnlyWaiting, SetWeight
<1>7. WaitDebt'
  <2>1. Left' <= Left
    BY <1>1, <1>2, <1>3 DEF TypeOK, Left, SetWeight
  <2>2. QED
    BY <1>4, <1>5, <2>1, CallWaitDebt DEF SetWeight
<1>8. QED
  BY <1>4, <1>5, <1>6, <1>7

\* RequestStop, Wake and Block change the state of one used slot to another
\* used state, and Block only that of the running one.
LEMMA StateChangeIInv ==
  ASSUME IInv, NEW t \in Slots, NEW v \in {"READY", "WAIT"},
         state[t] # "UNUSED",
         v = "WAIT" => t = current,
         state' = [state EXCEPT ![t] = v],
         stop_flag' \in [Slots -> BOOLEAN],
         \A u \in Slots : state[u] = "UNUSED" => stop_flag'[u] = stop_flag[u],
         UNCHANGED <<weight, budget, current, passed>>
  PROVE  IInv'
<1> USE SchedulerAssumption DEF IInv
<1>1. TypeOK'
  BY DEF TypeOK, States
<1>2. SlotHygiene'
  BY DEF TypeOK, SlotHygiene
<1>3. PassedOnlyWaiting'
  BY DEF TypeOK, PassedOnlyWaiting
<1>4. WaitDebt'
  <2>1. Left' <= Left
    BY DEF TypeOK, Left
  <2>2. QED
    BY <1>1, <1>2, <2>1, CallWaitDebt
<1>5. QED
  BY <1>1, <1>2, <1>3, <1>4

LEMMA NextIInv ==
  ASSUME IInv, [Next]_vars
  PROVE  IInv'
<1> USE DEF IInv
<1>1. CASE TickKeep
  BY <1>1, TickKeepIInv
<1>2. CASE TickSwitch
  BY <1>2, TickSwitchIInv
<1>3. ASSUME NEW w \in WeightArgs, Register(w)
      PROVE  IInv'
  BY <1>3, RegisterIInv
<1>4. ASSUME NEW t \in Slots, Unregister(t)
      PROVE  IInv'
  BY <1>4, MarkUnusedIInv DEF Unregister
<1>5. CASE TaskExit
  BY <1>5, MarkUnusedIInv DEF TaskExit, TypeOK
<1>6. ASSUME NEW t \in Slots, NEW w \in WeightArgs, SetWeight(t, w)
      PROVE  IInv'
  BY <1>6, SetWeightIInv
<1>7. ASSUME NEW t \in Slots, RequestStop(t)
      PROVE  IInv'
  <2>1. /\ stop_flag' \in [Slots -> BOOLEAN]
        /\ \A u \in Slots : state[u] = "UNUSED" => stop_flag'[u] = stop_flag[u]
    BY <1>7 DEF RequestStop, TypeOK
  <2>2. QED
    BY <1>7, <2>1, StateChangeIInv DEF RequestStop
<1>8. ASSUME NEW t \in Slots, Wake(t)
      PROVE  IInv'
  BY <1>8, StateChangeIInv DEF Wake, TypeOK
<1>9. CASE Block
  BY <1>9, StateChangeIInv DEF Block, TypeOK
<1>10. CASE UNCHANGED vars
  BY <1>10 DEF vars, TypeOK, SlotHygiene, PassedOnlyWaiting, WaitDebt, Debt, Left, Probes
<1>11. QED
  BY <1>1, <1>2, <1>3, <1>4, <1>5, <1>6, <1>7, <1>8, <1>9, <1>10
     DEF Next, Tick, TickIdle, Call

----------------------------------------------------------------------------
\* The inductive invariant holds in every reachable state.
THEOREM Invariance == Spec => []IInv
  BY InitIInv, NextIInv, PTL DEF Spec

\* Every field of the task table stays in its range (rtos.c).
THEOREM TypeCorrect == Spec => []TypeOK
  BY Invariance, PTL DEF IInv

\* A free slot carries nothing over and a used slot's budget is a real part
\* of its quantum, however often weights change (rtos.c:217-223, 189-196).
THEOREM SlotsHygienic == Spec => []SlotHygiene
  BY Invariance, PTL DEF IInv

\* A READY slot runs within TASK_WEIGHT_MAX ticks per other slot, for every
\* number of slots and every bound on the weights (rtos.c:489-530).
THEOREM WaitIsBounded == Spec => []BoundedWait
<1>1. IInv => BoundedWait
  <2> SUFFICES ASSUME IInv, NEW t \in Slots, Ready(t), t # current
               PROVE  passed[t] < WeightMax * (MaxTasks - 1)
    BY DEF BoundedWait
  <2>1. Probes(t) \in 1 .. MaxTasks - 1
    BY ProbesRange DEF IInv
  <2>2. WeightMax * (Probes(t) - 1) >= 0
    <3>1. Probes(t) - 1 \in Nat
      BY <2>1, SchedulerAssumption
    <3>2. \A a, b \in Nat : a * b >= 0
      OBVIOUS
    <3>3. QED
      BY <3>1, <3>2, SchedulerAssumption
  <2>3. Left \in Nat /\ Left >= 1 /\ passed[t] \in Nat
    BY DEF IInv, TypeOK, Left
  <2>4. QED
    BY <2>1, <2>2, <2>3, SchedulerAssumption DEF IInv, WaitDebt, Debt
<1>2. QED
  BY <1>1, Invariance, PTL

============================================================================
