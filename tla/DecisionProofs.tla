--------------------------- MODULE DecisionProofs ---------------------------
(***************************************************************************)
(* Proofs about DecisionService, for every number of observations, callers *)
(* and workers, every capacity and threshold: the types, the slots of the  *)
(* semaphore, the count the join waits for, the budget of the circuit, and *)
(* that an accepted observation is in one place and reported once.         *)
(***************************************************************************)
EXTENDS DecisionService, FiniteSetTheorems, TLAPS

Phases == {"absent", "idle", "new", "waiting", "calling", "done", "dead"}

Calling == {e \in Evals : pc[e] = "calling"}
Working == {w \in Workers : pc[w] \in {"waiting", "calling"}}

\* A worker evaluates between Take and task_done, and has no phase of a caller.
WorkerInv == \A w \in Workers : pc[w] \in {"absent", "idle", "waiting", "calling", "dead"}

DecisionInv ==
  TypeOK /\ WorkerInv /\ SlotsAreConserved /\ UnfinishedIsWork /\ ClosedCircuitHasBudget

-----------------------------------------------------------------------------
(* Counting *)

\* There are finitely many evaluations to count.
LEMMA Finite ==
  /\ IsFiniteSet(Calling) /\ Cardinality(Calling) \in Nat
  /\ IsFiniteSet(Working) /\ Cardinality(Working) \in Nat
<1>1. IsFiniteSet(Evals) /\ Calling \subseteq Evals /\ Working \subseteq Evals
  BY DecisionAssumption DEF Evals, Calling, Working
<1> QED
  BY <1>1, FS_Subset, FS_CardinalityType

\* The two counting properties in terms of the sets counted.
LEMMA Counts ==
  /\ SlotsAreConserved <=> slots + Cardinality(Calling) = Slots
  /\ UnfinishedIsWork <=> unfinished = Len(queue) + Cardinality(Working)
  /\ UnfinishedIsWork' <=> unfinished' = Len(queue') + Cardinality(Working')
BY DEF SlotsAreConserved, UnfinishedIsWork, Calling, Working

\* How one evaluation's phase changes the number of calls under way.
LEMMA CountCalls ==
  ASSUME pc \in [Evals -> Phases], NEW e \in Evals, NEW p \in Phases, pc' = [pc EXCEPT ![e] = p]
  PROVE  /\ pc[e] # "calling" /\ p = "calling" => Cardinality(Calling') = Cardinality(Calling) + 1
         /\ pc[e] = "calling" /\ p # "calling" => Cardinality(Calling') = Cardinality(Calling) - 1
         /\ (pc[e] = "calling" <=> p = "calling") => Cardinality(Calling') = Cardinality(Calling)
<1>1. CASE pc[e] # "calling" /\ p = "calling"
  <2>1. Calling' = Calling \cup {e} /\ e \notin Calling
    BY <1>1 DEF Calling
  <2> QED
    BY <1>1, <2>1, Finite, FS_AddElement
<1>2. CASE pc[e] = "calling" /\ p # "calling"
  <2>1. Calling' = Calling \ {e} /\ e \in Calling
    BY <1>2 DEF Calling
  <2> QED
    BY <1>2, <2>1, Finite, FS_RemoveElement
<1>3. CASE pc[e] = "calling" <=> p = "calling"
  <2>1. Calling' = Calling
    BY <1>3 DEF Calling
  <2> QED
    BY <1>3, <2>1
<1> QED
  BY <1>1, <1>2, <1>3

\* The same of the workers' evaluations, which a caller does not change.
Works(p) == p \in {"waiting", "calling"}

\* How one evaluation's phase changes the number of workers with an item.
LEMMA CountWork ==
  ASSUME pc \in [Evals -> Phases], NEW e \in Evals, NEW p \in Phases, pc' = [pc EXCEPT ![e] = p]
  PROVE  /\ e \in Workers /\ ~Works(pc[e]) /\ Works(p) => Cardinality(Working') = Cardinality(Working) + 1
         /\ e \in Workers /\ Works(pc[e]) /\ ~Works(p) => Cardinality(Working') = Cardinality(Working) - 1
         /\ e \notin Workers \/ (Works(pc[e]) <=> Works(p)) => Cardinality(Working') = Cardinality(Working)
<1>0. Workers \subseteq Evals
  BY DEF Evals
<1>1. CASE e \in Workers /\ ~Works(pc[e]) /\ Works(p)
  <2>1. Working' = Working \cup {e} /\ e \notin Working
    BY <1>0, <1>1 DEF Working, Works
  <2> QED
    BY <1>1, <2>1, Finite, FS_AddElement
<1>2. CASE e \in Workers /\ Works(pc[e]) /\ ~Works(p)
  <2>1. Working' = Working \ {e} /\ e \in Working
    BY <1>0, <1>2 DEF Working, Works
  <2> QED
    BY <1>2, <2>1, Finite, FS_RemoveElement
<1>3. CASE e \notin Workers \/ (Works(pc[e]) <=> Works(p))
  <2>1. Working' = Working
    BY <1>0, <1>3 DEF Working, Works
  <2> QED
    BY <1>3, <2>1
<1> QED
  BY <1>1, <1>2, <1>3

\* A busy worker's item is among the unfinished ones.
LEMMA BusyCounts ==
  ASSUME UnfinishedIsWork, queue \in Seq(Obs), NEW w \in Workers, Works(pc[w])
  PROVE  unfinished \in Nat /\ unfinished - 1 \in Nat
<1>1. w \in Working /\ Working = {v \in Workers : pc[v] \in {"waiting", "calling"}}
  BY DEF Working, Works
<1>2. Cardinality(Working) \in Nat \ {0}
  BY <1>1, Finite, FS_EmptySet
<1>3. unfinished = Len(queue) + Cardinality(Working) /\ Len(queue) \in Nat
  BY <1>1 DEF UnfinishedIsWork
<1> QED
  BY <1>2, <1>3

-----------------------------------------------------------------------------
(* The steps *)

\* The parts of the types that a step of one evaluation touches.
EvalTypes ==
  /\ pc \in [Evals -> Phases] /\ item \in [Evals -> Obs \cup {NoObs}]
  /\ tries \in [Evals -> 0 .. MaxRetries]
  /\ fate \in [Obs -> {"new", "refused", "accepted", "emitted", "lost"}]

\* The end of an evaluation (task_done of a worker, the return to a caller): its
\* types, its phase and the join's count.
LEMMA SettledTypes ==
  ASSUME EvalTypes, NEW e \in Evals, NEW o, Settled(e, o)
  PROVE  /\ EvalTypes'
         /\ pc' = [pc EXCEPT ![e] = IF e \in Workers THEN "idle" ELSE "done"]
         /\ unfinished' = IF e \in Workers THEN unfinished - 1 ELSE unfinished
<1>1. /\ item' = [item EXCEPT ![e] = NoObs] /\ tries' = [tries EXCEPT ![e] = 0]
      /\ pc' = [pc EXCEPT ![e] = IF e \in Workers THEN "idle" ELSE "done"]
      /\ unfinished' = IF e \in Workers THEN unfinished - 1 ELSE unfinished
      /\ fate' = [fate EXCEPT ![o] = "emitted"] \/ fate' = fate
  BY DEF Settled
<1>2. 0 \in 0 .. MaxRetries
  BY DecisionAssumption
<1> QED
  BY <1>1, <1>2 DEF EvalTypes, Phases

\* The circuit lets a call pass: its types, and what becomes of the circuit.
LEMMA AdmitTypes ==
  ASSUME EvalTypes, NEW e \in Evals, NEW o \in Obs \cup {NoObs}, Admit(e, o), circuit # "open"
  PROVE  /\ EvalTypes'
         /\ pc' = [pc EXCEPT ![e] = "waiting"]
         /\ unfinished' = unfinished /\ circuit' = "closed"
         /\ fails' = IF circuit = "elapsed" THEN 0 ELSE fails
BY DEF EvalTypes, Admit, Phases

\* The step that takes evaluation e to phase p: what it does to the counts goes with
\* the phases.
EvalEffect(e, p) ==
  /\ e \in Evals /\ p \in Phases
  /\ pc' = [pc EXCEPT ![e] = p] /\ EvalTypes'
  /\ e \in Workers => p \in {"absent", "idle", "waiting", "calling", "dead"}
  /\ queue' \in Seq(Obs) /\ Len(queue') <= Len(queue)
  /\ slots' = slots + (IF pc[e] = "calling" THEN 1 ELSE 0) - (IF p = "calling" THEN 1 ELSE 0)
  /\ slots' \in Nat
  /\ IF e \in Workers
     THEN unfinished' = unfinished + (Len(queue') - Len(queue))
                          + (IF Works(p) THEN 1 ELSE 0) - (IF Works(pc[e]) THEN 1 ELSE 0)
     ELSE unfinished' = unfinished /\ queue' = queue
  /\ circuit' \in {"closed", "open", "elapsed"} /\ fails' \in Nat /\ ClosedCircuitHasBudget'
  /\ phase' = phase

\* A step of one evaluation keeps slots and join's count in balance, whatever it is.
LEMMA EvalStep ==
  ASSUME DecisionInv, NEW e, NEW p, EvalEffect(e, p)
  PROVE  DecisionInv'
<1>a. /\ pc \in [Evals -> Phases] /\ queue \in Seq(Obs) /\ Len(queue) <= QueueCap /\ QueueCap \in Nat
      /\ slots \in 0 .. Slots /\ unfinished \in Nat /\ Slots \in Nat
  BY DecisionAssumption DEF DecisionInv, TypeOK, Phases
<1>b. /\ slots + Cardinality(Calling) = Slots /\ Cardinality(Calling) \in Nat
      /\ unfinished = Len(queue) + Cardinality(Working) /\ Cardinality(Working) \in Nat
  BY Finite DEF DecisionInv, SlotsAreConserved, UnfinishedIsWork, Calling, Working
<1>c. Cardinality(Calling') \in Nat /\ Cardinality(Working') \in Nat
  <2>1. IsFiniteSet(Evals) /\ Calling' \subseteq Evals /\ Working' \subseteq Evals
    BY DecisionAssumption DEF Evals, Calling, Working
  <2> QED
    BY <2>1, FS_Subset, FS_CardinalityType
<1>d. /\ e \in Evals /\ p \in Phases
      /\ pc' = [pc EXCEPT ![e] = p] /\ EvalTypes'
      /\ e \in Workers => p \in {"absent", "idle", "waiting", "calling", "dead"}
      /\ queue' \in Seq(Obs) /\ Len(queue') <= Len(queue)
      /\ circuit' \in {"closed", "open", "elapsed"} /\ fails' \in Nat /\ ClosedCircuitHasBudget'
      /\ phase' \in {"running", "draining", "drained", "closing", "closed"}
  BY DEF EvalEffect, DecisionInv, TypeOK
<1>e. slots' = slots + (IF pc[e] = "calling" THEN 1 ELSE 0) - (IF p = "calling" THEN 1 ELSE 0)
  BY DEF EvalEffect
<1>f. IF e \in Workers
      THEN unfinished' = unfinished + (Len(queue') - Len(queue))
                           + (IF Works(p) THEN 1 ELSE 0) - (IF Works(pc[e]) THEN 1 ELSE 0)
      ELSE unfinished' = unfinished /\ queue' = queue
  BY DEF EvalEffect
<1>g. /\ pc[e] # "calling" /\ p = "calling" => Cardinality(Calling') = Cardinality(Calling) + 1
      /\ pc[e] = "calling" /\ p # "calling" => Cardinality(Calling') = Cardinality(Calling) - 1
      /\ (pc[e] = "calling" <=> p = "calling") => Cardinality(Calling') = Cardinality(Calling)
  BY <1>a, <1>d, CountCalls
<1>h. /\ e \in Workers /\ ~Works(pc[e]) /\ Works(p) => Cardinality(Working') = Cardinality(Working) + 1
      /\ e \in Workers /\ Works(pc[e]) /\ ~Works(p) => Cardinality(Working') = Cardinality(Working) - 1
      /\ e \notin Workers \/ (Works(pc[e]) <=> Works(p)) => Cardinality(Working') = Cardinality(Working)
  BY <1>a, <1>d, CountWork
<1>1. slots' + Cardinality(Calling') = Slots
  <2>1. CASE pc[e] = "calling" <=> p = "calling"
    BY <1>a, <1>b, <1>e, <1>g, <2>1
  <2>2. CASE pc[e] # "calling" /\ p = "calling"
    BY <1>a, <1>b, <1>e, <1>g, <2>2
  <2>3. CASE pc[e] = "calling" /\ p # "calling"
    BY <1>a, <1>b, <1>e, <1>g, <2>3
  <2> QED
    BY <2>1, <2>2, <2>3
<1>2. unfinished' = Len(queue') + Cardinality(Working')
  <2>0. Len(queue) \in Nat /\ Len(queue') \in Nat
    BY <1>a, <1>d
  <2>1. CASE e \notin Workers
    <3>1. unfinished' = unfinished /\ queue' = queue /\ Cardinality(Working') = Cardinality(Working)
      BY <1>f, <1>h, <2>1
    <3> QED
      BY <1>b, <3>1
  <2>2. CASE e \in Workers
    <3>1. unfinished' = unfinished + (Len(queue') - Len(queue))
                          + (IF Works(p) THEN 1 ELSE 0) - (IF Works(pc[e]) THEN 1 ELSE 0)
      BY <1>f, <2>2
    <3>2. Cardinality(Working') = Cardinality(Working)
                                    + (IF Works(p) THEN 1 ELSE 0) - (IF Works(pc[e]) THEN 1 ELSE 0)
      BY <1>b, <1>h, <2>2
    <3> QED
      BY <1>b, <2>0, <3>1, <3>2
  <2> QED
    BY <2>1, <2>2
<1>3. slots' \in 0 .. Slots /\ unfinished' \in Nat /\ Len(queue') <= QueueCap
  <2>1. slots' \in Nat
    BY DEF EvalEffect
  <2>2. slots' \in 0 .. Slots
    BY <1>a, <1>c, <1>1, <2>1
  <2>3. Len(queue') \in Nat /\ Len(queue) \in Nat
    BY <1>a, <1>d
  <2> QED
    BY <1>a, <1>c, <1>d, <1>2, <2>2, <2>3
<1>4. TypeOK'
  BY <1>3, <1>d DEF TypeOK, EvalTypes, Phases
<1>5. WorkerInv'
  BY <1>a, <1>d DEF WorkerInv, DecisionInv, Evals
<1> QED
  BY <1>1, <1>2, <1>4, <1>5, <1>d DEF DecisionInv, SlotsAreConserved, UnfinishedIsWork, Calling, Working

\* A step that leaves the evaluations and what they share alone.
LEMMA QuietStep ==
  ASSUME DecisionInv, UNCHANGED <<queue, unfinished, fate, pc, item, tries, slots, fails>>,
         circuit' \in {circuit, "elapsed"}, phase' \in {phase, "draining", "drained", "closing"}
  PROVE  DecisionInv'
BY DEF DecisionInv, TypeOK, WorkerInv, SlotsAreConserved, UnfinishedIsWork, ClosedCircuitHasBudget

\* Every step of the dispatcher keeps the invariant.
LEMMA DecisionStep == DecisionInv /\ [Next]_vars => DecisionInv'
<1> SUFFICES ASSUME DecisionInv, [Next]_vars PROVE DecisionInv'
  OBVIOUS
<1>a. /\ EvalTypes /\ queue \in Seq(Obs) /\ unfinished \in Nat /\ slots \in 0 .. Slots /\ fails \in Nat
      /\ circuit \in {"closed", "open", "elapsed"} /\ Slots \in Nat /\ Len(queue) <= QueueCap
      /\ phase \in {"running", "draining", "drained", "closing", "closed"}
      /\ QueueCap \in Nat /\ Threshold \in Nat \ {0} /\ MaxRetries \in Nat
  BY DecisionAssumption DEF DecisionInv, TypeOK, EvalTypes, Phases
<1>b. ClosedCircuitHasBudget /\ WorkerInv /\ UnfinishedIsWork /\ Workers \subseteq Evals
  BY DEF DecisionInv, Evals
<1>1. ASSUME NEW o \in Obs, Submit(o) PROVE DecisionInv'
  <2>1. /\ \A e \in Evals : (pc[e] = "absent" /\ pc'[e] = "idle") \/ pc'[e] = pc[e]
        /\ pc' \in [Evals -> Phases]
    <3>1. CASE Open
      <4>1. pc' = [e \in Evals |-> IF pc[e] = "absent" THEN "idle" ELSE pc[e]]
        BY <1>1, <3>1 DEF Submit
      <4> QED
        BY <1>a, <4>1 DEF EvalTypes, Phases
    <3>2. CASE ~Open
      <4>1. pc' = pc
        BY <1>1, <3>2 DEF Submit
      <4> QED
        BY <1>a, <4>1 DEF EvalTypes
    <3> QED
      BY <3>1, <3>2
  <2>2. Calling' = Calling /\ Working' = Working
    BY <1>b, <2>1 DEF Calling, Working
  <2>3. \/ /\ queue' = Append(queue, o) /\ unfinished' = unfinished + 1 /\ Len(queue) < QueueCap
        \/ UNCHANGED <<queue, unfinished>>
    BY <1>1 DEF Submit
  <2>4. /\ queue' \in Seq(Obs) /\ unfinished' \in Nat /\ Len(queue') <= QueueCap
        /\ unfinished' - unfinished = Len(queue') - Len(queue)
    BY <1>a, <2>3
  <2>5. fate' \in [Obs -> {"new", "refused", "accepted", "emitted", "lost"}]
        /\ UNCHANGED <<item, tries, slots, circuit, fails, phase>>
    BY <1>1, <1>a DEF Submit, EvalTypes
  <2>6. TypeOK'
    BY <1>a, <2>1, <2>4, <2>5 DEF TypeOK, EvalTypes, Phases
  <2>7. WorkerInv'
    BY <1>b, <2>1 DEF WorkerInv
  <2>8. unfinished' = Len(queue') + Cardinality(Working')
    <3>1. unfinished = Len(queue) + Cardinality(Working) /\ Cardinality(Working) \in Nat /\ Len(queue) \in Nat
      BY <1>a, <1>b, Finite DEF UnfinishedIsWork, Working
    <3> QED
      BY <1>a, <2>2, <2>4, <3>1
  <2>9. SlotsAreConserved'
    BY <2>2, <2>5 DEF DecisionInv, SlotsAreConserved, Calling
  <2> QED
    BY <1>b, <2>5, <2>6, <2>7, <2>8, <2>9 DEF DecisionInv, UnfinishedIsWork, Working, ClosedCircuitHasBudget
<1>2. ASSUME NEW w \in Workers, Take(w) PROVE DecisionInv'
  <2>1. /\ pc[w] = "idle" /\ queue # <<>> /\ queue' = Tail(queue) /\ UNCHANGED <<slots, phase>>
        /\ Admit(w, Head(queue)) /\ Head(queue) \in Obs /\ w \in Evals
    BY <1>2, <1>a, <1>b DEF Take
  <2>2. queue' \in Seq(Obs) /\ Len(queue') = Len(queue) - 1 /\ Len(queue) \in Nat
    BY <1>a, <2>1
  <2>3. CASE circuit = "open"
    <3>1. Settled(w, Head(queue)) /\ UNCHANGED <<circuit, fails>>
      BY <2>1, <2>3 DEF Admit
    <3>2. EvalTypes' /\ pc' = [pc EXCEPT ![w] = "idle"] /\ unfinished' = unfinished - 1
      BY <1>a, <2>1, <3>1, SettledTypes
    <3> QED
      <4>1. EvalEffect(w, "idle")
        BY <1>a, <1>b, <2>1, <2>2, <3>1, <3>2 DEF EvalEffect, Works, Phases, ClosedCircuitHasBudget
      <4> QED
        BY <4>1, EvalStep
  <2>4. CASE circuit # "open"
    <3>1. EvalTypes' /\ pc' = [pc EXCEPT ![w] = "waiting"] /\ unfinished' = unfinished
          /\ circuit' = "closed" /\ fails' = IF circuit = "elapsed" THEN 0 ELSE fails
      BY <1>a, <2>1, <2>4, AdmitTypes
    <3>2. fails' \in Nat /\ fails' < Threshold
      BY <1>a, <1>b, <2>4, <3>1 DEF ClosedCircuitHasBudget
    <3> QED
      <4>1. EvalEffect(w, "waiting")
        BY <1>a, <2>1, <2>2, <3>1, <3>2 DEF EvalEffect, Works, Phases, ClosedCircuitHasBudget
      <4> QED
        BY <4>1, EvalStep
  <2> QED
    BY <2>3, <2>4
<1>3. ASSUME NEW c \in Callers, Decide(c) PROVE DecisionInv'
  <2>1. /\ pc[c] = "new" /\ UNCHANGED <<queue, slots, phase>> /\ c \in Evals /\ c \notin Workers
        /\ Admit(c, NoObs) \/ (Settled(c, NoObs) /\ UNCHANGED <<circuit, fails>>)
    BY <1>3, DecisionAssumption DEF Decide, Evals
  <2>2. CASE Settled(c, NoObs) /\ UNCHANGED <<circuit, fails>>
    <3>1. EvalTypes' /\ pc' = [pc EXCEPT ![c] = "done"] /\ unfinished' = unfinished
      BY <1>a, <2>1, <2>2, SettledTypes
    <3> QED
      <4>1. EvalEffect(c, "done")
        BY <1>a, <1>b, <2>1, <2>2, <3>1 DEF EvalEffect, Works, Phases, ClosedCircuitHasBudget
      <4> QED
        BY <4>1, EvalStep
  <2>3. CASE Admit(c, NoObs) /\ circuit # "open"
    <3>1. EvalTypes' /\ pc' = [pc EXCEPT ![c] = "waiting"] /\ unfinished' = unfinished
          /\ circuit' = "closed" /\ fails' = IF circuit = "elapsed" THEN 0 ELSE fails
      BY <1>a, <2>1, <2>3, AdmitTypes
    <3>2. fails' \in Nat /\ fails' < Threshold
      BY <1>a, <1>b, <2>3, <3>1 DEF ClosedCircuitHasBudget
    <3> QED
      <4>1. EvalEffect(c, "waiting")
        BY <1>a, <2>1, <3>1, <3>2 DEF EvalEffect, Works, Phases, ClosedCircuitHasBudget
      <4> QED
        BY <4>1, EvalStep
  <2> QED
    BY <2>1, <2>2, <2>3 DEF Admit
<1>4. ASSUME NEW e \in Evals, Acquire(e) PROVE DecisionInv'
  <2>1. /\ pc[e] = "waiting" /\ slots > 0 /\ slots' = slots - 1 /\ pc' = [pc EXCEPT ![e] = "calling"]
        /\ UNCHANGED <<queue, unfinished, fate, item, tries, circuit, fails, phase>>
    BY <1>4 DEF Acquire
  <2>2. EvalTypes'
    BY <1>a, <2>1 DEF EvalTypes, Phases
  <2> QED
    <3>1. EvalEffect(e, "calling")
      BY <1>a, <1>b, <2>1, <2>2 DEF EvalEffect, Works, Phases, ClosedCircuitHasBudget
    <3> QED
      BY <3>1, EvalStep
<1>5. ASSUME NEW e \in Evals, Called(e), Settled(e, item[e]), circuit' \in {"closed", "open", "elapsed"},
             fails' \in Nat, ClosedCircuitHasBudget'
      PROVE  DecisionInv'
  <2>1. pc[e] = "calling" /\ slots' = slots + 1 /\ UNCHANGED <<queue, phase>>
    BY <1>5 DEF Called
  <2>2. /\ EvalTypes' /\ pc' = [pc EXCEPT ![e] = IF e \in Workers THEN "idle" ELSE "done"]
        /\ unfinished' = IF e \in Workers THEN unfinished - 1 ELSE unfinished
    BY <1>a, <1>5, SettledTypes
  <2>3. CASE e \in Workers
    <3>1. EvalEffect(e, "idle")
      BY <1>a, <1>5, <2>1, <2>2, <2>3 DEF EvalEffect, Works, Phases
    <3> QED
      BY <3>1, EvalStep
  <2>4. CASE e \notin Workers
    <3>1. EvalEffect(e, "done")
      BY <1>a, <1>5, <2>1, <2>2, <2>4 DEF EvalEffect, Works, Phases
    <3> QED
      BY <3>1, EvalStep
  <2> QED
    BY <2>3, <2>4
<1>6. ASSUME NEW e \in Evals, Succeed(e) PROVE DecisionInv'
  BY <1>5, <1>6, <1>a DEF Succeed, ClosedCircuitHasBudget
<1>7. ASSUME NEW e \in Evals, FailHard(e) PROVE DecisionInv'
  BY <1>5, <1>7, <1>a, <1>b DEF FailHard, ClosedCircuitHasBudget
<1>8. ASSUME NEW e \in Evals, FailSoft(e) PROVE DecisionInv'
  <2>1. CASE tries[e] < MaxRetries
    <3>1. /\ pc[e] = "calling" /\ slots' = slots + 1 /\ pc' = [pc EXCEPT ![e] = "waiting"]
          /\ tries' = [tries EXCEPT ![e] = @ + 1]
          /\ UNCHANGED <<queue, phase, item, fate, unfinished, circuit, fails>>
      BY <1>8, <2>1 DEF FailSoft, Called
    <3>2. tries[e] + 1 \in 0 .. MaxRetries
      BY <1>a, <2>1 DEF EvalTypes
    <3>3. EvalTypes'
      BY <1>a, <3>1, <3>2 DEF EvalTypes, Phases
    <3> QED
      <4>1. EvalEffect(e, "waiting")
        BY <1>a, <1>b, <3>1, <3>3 DEF EvalEffect, Works, Phases, ClosedCircuitHasBudget
      <4> QED
        BY <4>1, EvalStep
  <2>2. CASE ~(tries[e] < MaxRetries)
    <3>1. /\ Called(e) /\ Settled(e, item[e]) /\ fails' = fails + 1
          /\ circuit' = IF fails' >= Threshold THEN "open" ELSE circuit
      BY <1>8, <2>2 DEF FailSoft
    <3> QED
      BY <1>5, <1>a, <3>1 DEF ClosedCircuitHasBudget
  <2> QED
    BY <2>1, <2>2
<1>9. ASSUME NEW w \in Workers, Kill(w) PROVE DecisionInv'
  <2>1. /\ pc[w] \in {"idle", "waiting", "calling"} /\ pc' = [pc EXCEPT ![w] = "dead"]
        /\ slots' = IF pc[w] = "calling" THEN slots + 1 ELSE slots
        /\ unfinished' = IF pc[w] = "idle" THEN unfinished ELSE unfinished - 1
        /\ UNCHANGED <<queue, tries, circuit, fails, phase>> /\ w \in Evals
    BY <1>9, <1>b DEF Kill
  <2>2. EvalTypes'
    BY <1>9, <1>a, <2>1 DEF Kill, EvalTypes, Phases
  <2> QED
    <3>1. EvalEffect(w, "dead")
      BY <1>a, <1>b, <2>1, <2>2 DEF EvalEffect, Works, Phases, ClosedCircuitHasBudget
    <3> QED
      BY <3>1, EvalStep
<1>10. CASE Closed
  <2>1. /\ \A w \in Workers : pc[w] \in {"absent", "dead"}
        /\ phase' = "closed" /\ unfinished' = unfinished - Len(queue) /\ queue' = <<>>
        /\ UNCHANGED <<pc, item, tries, slots, circuit, fails>>
    BY <1>10 DEF Closed
  <2>2. Working = {} /\ Working' = {}
    BY <2>1 DEF Working
  <2>3. unfinished' = 0
    <3>1. Cardinality(Working) = 0
      BY <2>2, FS_EmptySet
    <3>2. unfinished = Len(queue) + Cardinality(Working)
      BY <1>b, Counts
    <3> QED
      BY <1>a, <2>1, <3>1, <3>2
  <2>4. UnfinishedIsWork'
    <3>1. Cardinality(Working') = 0 /\ Len(queue') = 0
      BY <2>1, <2>2, FS_EmptySet
    <3> QED
      BY <2>3, <3>1, Counts
  <2>5. fate' \in [Obs -> {"new", "refused", "accepted", "emitted", "lost"}]
    BY <1>10, <1>a DEF Closed, EvalTypes
  <2>6. TypeOK'
    BY <1>a, <2>1, <2>3, <2>5 DEF TypeOK, EvalTypes, Phases
  <2> QED
    BY <1>b, <2>1, <2>4, <2>6 DEF DecisionInv, WorkerInv, SlotsAreConserved, ClosedCircuitHasBudget
<1>11. CASE Elapse \/ Close \/ Joined \/ StopWorkers \/ UNCHANGED vars
  BY <1>11, QuietStep DEF Elapse, Close, Joined, StopWorkers, vars
<1>12. ASSUME NEW e \in Evals, Evaluate(e) PROVE DecisionInv'
  BY <1>4, <1>6, <1>7, <1>8, <1>12 DEF Evaluate
<1> QED
  BY <1>1, <1>2, <1>3, <1>9, <1>10, <1>11, <1>12 DEF Next

\* At first nobody evaluates, all slots are free and the queue is empty.
LEMMA DecisionInit == Init => DecisionInv
<1> SUFFICES ASSUME Init PROVE DecisionInv
  OBVIOUS
<1>1. \A e \in Evals : pc[e] \in {"absent", "new"}
  BY DEF Init
<1>2. Calling = {} /\ Working = {}
  BY <1>1 DEF Calling, Working, Evals
<1>3. TypeOK
  BY DecisionAssumption DEF Init, TypeOK
<1>4. WorkerInv
  BY DEF Init, WorkerInv, Evals
<1>5. SlotsAreConserved /\ UnfinishedIsWork
  <2>1. slots = Slots /\ unfinished = 0 /\ Len(queue) = 0 /\ Slots \in Nat
    BY DecisionAssumption DEF Init
  <2>2. Cardinality(Calling) = 0 /\ Cardinality(Working) = 0
    BY <1>2, FS_EmptySet
  <2> QED
    BY <2>1, <2>2, Counts
<1> QED
  BY <1>3, <1>4, <1>5, DecisionAssumption DEF Init, DecisionInv, ClosedCircuitHasBudget

\* The invariant of the dispatcher, of which the properties below are parts.
THEOREM DecisionInvariant == Spec => []DecisionInv
<1>1. Init => DecisionInv
  BY DecisionInit
<1>2. DecisionInv /\ [Next]_vars => DecisionInv'
  BY DecisionStep
<1> QED
  BY <1>1, <1>2, PTL DEF Spec

\* No failure, retry or cancellation costs a slot of the semaphore, and no two
\* calls share one.
THEOREM SlotsConserved == Spec => []SlotsAreConserved
<1>1. DecisionInv => SlotsAreConserved
  BY DEF DecisionInv
<1> QED
  BY <1>1, DecisionInvariant, PTL

\* What the join of aclose waits for is queued or being evaluated.
THEOREM JoinWaitsForWork == Spec => []UnfinishedIsWork
<1>1. DecisionInv => UnfinishedIsWork
  BY DEF DecisionInv
<1> QED
  BY <1>1, DecisionInvariant, PTL

\* A closed circuit has failures left before it opens.
THEOREM BudgetIsLeft == Spec => []ClosedCircuitHasBudget
<1>1. DecisionInv => ClosedCircuitHasBudget
  BY DEF DecisionInv
<1> QED
  BY <1>1, DecisionInvariant, PTL

-----------------------------------------------------------------------------
(* Where an accepted observation is *)

\* A worker has an observation exactly while it evaluates one.
HandsInv == \A w \in Workers : item[w] # NoObs <=> Works(pc[w])

PlaceInv == HandsInv /\ AcceptedIsInOnePlace

\* The observations at the places, one by one.
LEMMA Places ==
  ASSUME TypeOK
  PROVE  /\ \A o : o \in Queued <=> \E i \in 1 .. Len(queue) : queue[i] = o
         /\ \A o : o \in Held <=> o # NoObs /\ \E w \in Workers : item[w] = o
         /\ Queued \subseteq Obs /\ Held \subseteq Obs
         /\ DOMAIN queue = 1 .. Len(queue)
<1>1. queue \in Seq(Obs) /\ item \in [Evals -> Obs \cup {NoObs}] /\ Workers \subseteq Evals
  BY DEF TypeOK, Evals
<1>2. DOMAIN queue = 1 .. Len(queue) /\ \A i \in 1 .. Len(queue) : queue[i] \in Obs
  BY <1>1
<1> QED
  BY <1>1, <1>2 DEF Queued, Held

\* The same after a step.
LEMMA PlacesNext ==
  ASSUME TypeOK'
  PROVE  /\ \A o : o \in Queued' <=> \E i \in 1 .. Len(queue') : queue'[i] = o
         /\ \A o : o \in Held' <=> o # NoObs /\ \E w \in Workers : item'[w] = o
         /\ Queued' \subseteq Obs /\ Held' \subseteq Obs
         /\ DOMAIN queue' = 1 .. Len(queue')
<1>1. queue' \in Seq(Obs) /\ item' \in [Evals -> Obs \cup {NoObs}] /\ Workers \subseteq Evals
  BY DEF TypeOK, Evals
<1>2. DOMAIN queue' = 1 .. Len(queue') /\ \A i \in 1 .. Len(queue') : queue'[i] \in Obs
  BY <1>1
<1> QED
  BY <1>1, <1>2 DEF Queued, Held

\* What a step does to the places and the fates, in terms of one observation that
\* moves: the accepted ones are those that were, with o entering or leaving.
Moves(o, accepted, queued, held) ==
  /\ o \in Obs
  /\ \A x \in Obs \ {o} : fate'[x] = fate[x] /\ (x \in Queued' <=> x \in Queued) /\ (x \in Held' <=> x \in Held)
  /\ fate'[o] = "accepted" <=> accepted
  /\ o \in Queued' <=> queued
  /\ o \in Held' <=> held

\* An observation that moves leaves the places in agreement when its fate goes with
\* the one place it has.
LEMMA MoveKeepsPlaces ==
  ASSUME TypeOK, TypeOK', AcceptedIsInOnePlace, NEW o, NEW a \in BOOLEAN, NEW q \in BOOLEAN, NEW h \in BOOLEAN,
         Moves(o, a, q, h), a <=> (q \/ h), ~(q /\ h)
  PROVE  {x \in Obs : fate'[x] = "accepted"} = Queued' \cup Held' /\ Queued' \cap Held' = {}
<1>1. Queued' \subseteq Obs /\ Held' \subseteq Obs
  BY PlacesNext
<1>2. \A x \in Obs : (fate[x] = "accepted" <=> x \in Queued \cup Held) /\ ~(x \in Queued /\ x \in Held)
  BY DEF AcceptedIsInOnePlace
<1>3. \A x \in Obs : (fate'[x] = "accepted" <=> x \in Queued' \cup Held') /\ ~(x \in Queued' /\ x \in Held')
  <2> TAKE x \in Obs
  <2>1. CASE x = o
    BY <2>1 DEF Moves
  <2>2. CASE x # o
    BY <1>2, <2>2 DEF Moves
  <2> QED
    BY <2>1, <2>2
<1> QED
  BY <1>1, <1>3

\* Nobody has what is in nobody's hands, and one worker at most has an observation.
LEMMA HeldOnce ==
  ASSUME PlaceInv, TypeOK, NEW w \in Workers, Works(pc[w])
  PROVE  /\ item[w] \in Obs /\ fate[item[w]] = "accepted" /\ item[w] \notin Queued /\ item[w] \in Held
         /\ \A v \in Workers \ {w} : item[v] # item[w]
<1>1. item[w] # NoObs /\ item[w] \in Held /\ Held \subseteq Obs
  BY Places DEF PlaceInv, HandsInv
<1> QED
  BY <1>1 DEF PlaceInv, AcceptedIsInOnePlace

\* The head of the queue is accepted, in no hands, and once in the queue.
LEMMA HeadOnce ==
  ASSUME PlaceInv, TypeOK, queue # <<>>
  PROVE  /\ Head(queue) \in Obs /\ fate[Head(queue)] = "accepted" /\ Head(queue) \in Queued
         /\ Head(queue) \notin Held
         /\ Tail(queue) \in Seq(Obs) /\ Len(Tail(queue)) = Len(queue) - 1
         /\ \A i \in 1 .. Len(Tail(queue)) : Tail(queue)[i] = queue[i + 1] /\ Tail(queue)[i] # Head(queue)
<1>1. queue \in Seq(Obs) /\ Len(queue) \in Nat \ {0}
  BY DEF TypeOK
<1>2. Head(queue) = queue[1] /\ Head(queue) \in Obs /\ 1 \in 1 .. Len(queue)
  BY <1>1
<1>3. /\ Tail(queue) \in Seq(Obs) /\ Len(Tail(queue)) = Len(queue) - 1
      /\ \A i \in 1 .. Len(Tail(queue)) : Tail(queue)[i] = queue[i + 1] /\ i + 1 \in 1 .. Len(queue) /\ i + 1 # 1
  BY <1>1
<1>4. Head(queue) \in Queued
  BY <1>2, Places
<1>5. \A i, j \in 1 .. Len(queue) : queue[i] = queue[j] => i = j
  BY Places DEF PlaceInv, AcceptedIsInOnePlace
<1> QED
  BY <1>2, <1>3, <1>4, <1>5 DEF PlaceInv, AcceptedIsInOnePlace

\* A step that moves no observation.
LEMMA PlacesStay ==
  ASSUME PlaceInv, UNCHANGED <<queue, fate>>,
         \A w \in Workers : item'[w] = item[w] /\ (Works(pc'[w]) <=> Works(pc[w]))
  PROVE  PlaceInv'
<1>1. Queued' = Queued /\ Held' = Held
  BY DEF Queued, Held
<1> QED
  BY <1>1 DEF PlaceInv, HandsInv, AcceptedIsInOnePlace

\* A worker is done with its observation, reported or given up.
LEMMA WorkerLetsGo ==
  ASSUME PlaceInv, TypeOK, TypeOK', NEW w \in Workers, Works(pc[w]),
         UNCHANGED queue, item' = [item EXCEPT ![w] = NoObs],
         \E p \in Phases : ~Works(p) /\ pc' = [pc EXCEPT ![w] = p],
         \E f \in {"emitted", "lost"} : \A x \in Obs : fate'[x] = IF x = item[w] THEN f ELSE fate[x]
  PROVE  PlaceInv'
<1>1. /\ item[w] \in Obs /\ fate[item[w]] = "accepted" /\ item[w] \notin Queued
      /\ \A v \in Workers \ {w} : item[v] # item[w]
  BY HeldOnce
<1>2. /\ item'[w] = NoObs /\ ~Works(pc'[w])
      /\ \A v \in Workers \ {w} : item'[v] = item[v] /\ pc'[v] = pc[v]
  BY DEF TypeOK, Evals
<1>3. Queued' = Queued
  BY DEF Queued
<1>4. item[w] \notin Held' /\ \A x \in Obs \ {item[w]} : x \in Held' <=> x \in Held
  BY <1>1, <1>2 DEF Held
<1>5. Moves(item[w], FALSE, FALSE, FALSE)
  BY <1>1, <1>3, <1>4 DEF Moves
<1>6. {x \in Obs : fate'[x] = "accepted"} = Queued' \cup Held' /\ Queued' \cap Held' = {}
  BY <1>5, MoveKeepsPlaces DEF PlaceInv
<1>7. \A i, j \in DOMAIN queue' : queue'[i] = queue'[j] => i = j
  BY DEF PlaceInv, AcceptedIsInOnePlace
<1>8. \A u, v \in Workers : item'[u] = item'[v] /\ item'[u] # NoObs => u = v
  BY <1>2 DEF PlaceInv, AcceptedIsInOnePlace
<1>9. HandsInv'
  BY <1>2 DEF PlaceInv, HandsInv
<1> QED
  BY <1>6, <1>7, <1>8, <1>9 DEF PlaceInv, AcceptedIsInOnePlace

\* The head of the queue is taken: kept by the worker, or reported at once when the
\* circuit is open.
LEMMA HeadIsTaken ==
  ASSUME PlaceInv, TypeOK, TypeOK', NEW w \in Workers, pc[w] = "idle", queue # <<>>, queue' = Tail(queue),
         \/ /\ pc' = [pc EXCEPT ![w] = "waiting"] /\ item' = [item EXCEPT ![w] = Head(queue)]
            /\ fate' = fate
         \/ /\ pc' = [pc EXCEPT ![w] = "idle"] /\ item' = [item EXCEPT ![w] = NoObs]
            /\ fate' = [fate EXCEPT ![Head(queue)] = "emitted"]
  PROVE  PlaceInv'
<1> DEFINE h == Head(queue)
           kept == Works(pc'[w])
<1>1. /\ h \in Obs /\ fate[h] = "accepted" /\ h \in Queued /\ h \notin Held
      /\ Len(queue') = Len(queue) - 1
      /\ \A i \in 1 .. Len(queue') : queue'[i] = queue[i + 1] /\ queue'[i] # h
  BY HeadOnce
<1>2. /\ queue \in Seq(Obs) /\ Len(queue) \in Nat \ {0} /\ h = queue[1]
      /\ \A i \in 1 .. Len(queue') : i + 1 \in 1 .. Len(queue)
      /\ \A i \in 2 .. Len(queue) : i - 1 \in 1 .. Len(queue') /\ queue[i] = queue'[i - 1]
  <2>1. queue \in Seq(Obs) /\ Len(queue) \in Nat \ {0}
    BY DEF TypeOK
  <2>2. \A i \in 2 .. Len(queue) : i - 1 \in 1 .. Len(queue') /\ (i - 1) + 1 = i
    BY <1>1, <2>1
  <2> QED
    BY <1>1, <2>1, <2>2
<1>3. /\ \A v \in Workers \ {w} : item'[v] = item[v] /\ pc'[v] = pc[v]
      /\ \/ kept /\ item'[w] = h /\ fate'[h] = "accepted" /\ item[w] = NoObs
         \/ ~kept /\ item'[w] = NoObs /\ fate'[h] = "emitted" /\ item[w] = NoObs
      /\ \A x \in Obs \ {h} : fate'[x] = fate[x]
      /\ kept \in BOOLEAN
  <2>1. item[w] = NoObs /\ h \in Obs /\ fate[h] = "accepted"
    BY <1>1 DEF PlaceInv, HandsInv, Works
  <2>2. /\ pc \in [Evals -> Phases] /\ item \in [Evals -> Obs \cup {NoObs}] /\ w \in Evals /\ Workers \subseteq Evals
        /\ fate \in [Obs -> {"new", "refused", "accepted", "emitted", "lost"}]
    BY DEF TypeOK, Evals, Phases
  <2> QED
    BY <2>1, <2>2 DEF Works
<1>4. \A v \in Workers : item[v] # h
  BY <1>1, DecisionAssumption DEF Held
<1>5. h \notin Queued' /\ \A x \in Obs \ {h} : x \in Queued' <=> x \in Queued
  <2>1. \A x \in Obs \ {h} : x \in Queued => x \in Queued'
    <3> SUFFICES ASSUME NEW x \in Obs \ {h}, x \in Queued PROVE x \in Queued'
      OBVIOUS
    <3>1. PICK i \in 1 .. Len(queue) : queue[i] = x
      BY Places
    <3>2. i \in 2 .. Len(queue)
      BY <1>2, <3>1
    <3> QED
      BY <1>2, <3>1, <3>2, PlacesNext
  <2>2. \A x \in Obs \ {h} : x \in Queued' => x \in Queued
    BY <1>1, <1>2, Places, PlacesNext
  <2> QED
    BY <1>1, <2>1, <2>2, PlacesNext
<1>6. (h \in Held' <=> kept) /\ \A x \in Obs \ {h} : x \in Held' <=> x \in Held
  <2>1. h # NoObs
    BY <1>1, DecisionAssumption
  <2> QED
    BY <1>3, <1>4, <2>1 DEF Held
<1>7. Moves(h, kept, FALSE, kept)
  BY <1>1, <1>3, <1>5, <1>6 DEF Moves
<1>8. {x \in Obs : fate'[x] = "accepted"} = Queued' \cup Held' /\ Queued' \cap Held' = {}
  BY <1>3, <1>7, MoveKeepsPlaces DEF PlaceInv
<1>9. \A i, j \in DOMAIN queue' : queue'[i] = queue'[j] => i = j
  <2>1. \A i, j \in 1 .. Len(queue) : queue[i] = queue[j] => i = j
    BY Places DEF PlaceInv, AcceptedIsInOnePlace
  <2>2. DOMAIN queue' = 1 .. Len(queue')
    BY PlacesNext
  <2> SUFFICES ASSUME NEW i \in 1 .. Len(queue'), NEW j \in 1 .. Len(queue'), queue'[i] = queue'[j]
               PROVE  i = j
    BY <2>2
  <2>3. i + 1 = j + 1
    BY <1>1, <1>2, <2>1
  <2> QED
    BY <1>1, <1>2, <2>3
<1>10. \A u, v \in Workers : item'[u] = item'[v] /\ item'[u] # NoObs => u = v
  BY <1>3, <1>4 DEF PlaceInv, AcceptedIsInOnePlace
<1>11. HandsInv'
  <2>1. h # NoObs
    BY <1>1, DecisionAssumption
  <2> QED
    BY <1>3, <2>1 DEF PlaceInv, HandsInv
<1> QED
  BY <1>8, <1>9, <1>10, <1>11 DEF PlaceInv, AcceptedIsInOnePlace

\* Every step keeps each accepted observation in one place.
LEMMA PlaceStep == DecisionInv /\ DecisionInv' /\ PlaceInv /\ [Next]_vars => PlaceInv'
<1> SUFFICES ASSUME DecisionInv, DecisionInv', PlaceInv, [Next]_vars PROVE PlaceInv'
  OBVIOUS
<1>a. TypeOK /\ TypeOK' /\ AcceptedIsInOnePlace /\ HandsInv /\ Workers \subseteq Evals
  BY DEF DecisionInv, PlaceInv, Evals
<1>b. /\ pc \in [Evals -> Phases] /\ item \in [Evals -> Obs \cup {NoObs}] /\ queue \in Seq(Obs)
      /\ fate \in [Obs -> {"new", "refused", "accepted", "emitted", "lost"}]
  BY <1>a DEF TypeOK, Phases
<1>1. ASSUME NEW o \in Obs, Submit(o) PROVE PlaceInv'
  <2>1. /\ item' = item
        /\ \A w \in Workers : Works(pc'[w]) <=> Works(pc[w])
    <3>1. pc' = pc \/ pc' = [e \in Evals |-> IF pc[e] = "absent" THEN "idle" ELSE pc[e]]
      BY <1>1 DEF Submit
    <3>2. item' = item
      BY <1>1 DEF Submit
    <3> QED
      BY <1>a, <3>1, <3>2 DEF Works
  <2>2. HandsInv' /\ Held' = Held
    BY <1>a, <2>1 DEF HandsInv, Held
  <2>3. fate[o] = "new" /\ o \notin Queued /\ o \notin Held
    BY <1>1, <1>a DEF Submit, AcceptedIsInOnePlace
  <2>4. CASE queue' = Append(queue, o) /\ fate' = [fate EXCEPT ![o] = "accepted"]
    <3>1. /\ Len(queue') = Len(queue) + 1 /\ Len(queue) \in Nat /\ queue'[Len(queue) + 1] = o
          /\ \A i \in 1 .. Len(queue) : queue'[i] = queue[i]
      BY <1>b, <2>4
    <3>2. o \in Queued' /\ \A x \in Obs \ {o} : x \in Queued' <=> x \in Queued
      <4>1. \A i \in 1 .. Len(queue') : i \in 1 .. Len(queue) \/ i = Len(queue) + 1
        BY <3>1
      <4>2. Len(queue) + 1 \in 1 .. Len(queue') /\ 1 .. Len(queue) \subseteq 1 .. Len(queue')
        BY <3>1
      <4> QED
        BY <1>a, <3>1, <4>1, <4>2, Places, PlacesNext
    <3>3. Moves(o, TRUE, TRUE, FALSE)
      BY <1>b, <2>2, <2>3, <2>4, <3>2 DEF Moves
    <3>4. {x \in Obs : fate'[x] = "accepted"} = Queued' \cup Held' /\ Queued' \cap Held' = {}
      BY <1>a, <3>3, MoveKeepsPlaces
    <3>5. \A i, j \in DOMAIN queue' : queue'[i] = queue'[j] => i = j
      <4>1. \A i \in 1 .. Len(queue) : queue[i] # o
        BY <1>a, <2>3, Places
      <4>2. \A i, j \in 1 .. Len(queue) : queue[i] = queue[j] => i = j
        BY <1>a, Places DEF AcceptedIsInOnePlace
      <4>3. DOMAIN queue' = 1 .. Len(queue')
        BY <1>a, PlacesNext
      <4>4. \A i \in 1 .. Len(queue') : i \in 1 .. Len(queue) \/ i = Len(queue) + 1
        BY <3>1
      <4> QED
        BY <3>1, <4>1, <4>2, <4>3, <4>4
    <3>6. \A u, v \in Workers : item'[u] = item'[v] /\ item'[u] # NoObs => u = v
      BY <1>a, <2>1 DEF AcceptedIsInOnePlace
    <3> QED
      BY <2>2, <3>4, <3>5, <3>6 DEF PlaceInv, AcceptedIsInOnePlace
  <2>5. CASE queue' = queue /\ fate' = [fate EXCEPT ![o] = "refused"]
    <3>1. Queued' = Queued
      BY <2>5 DEF Queued
    <3>2. Moves(o, FALSE, FALSE, FALSE)
      BY <1>b, <2>2, <2>3, <2>5, <3>1 DEF Moves
    <3>3. {x \in Obs : fate'[x] = "accepted"} = Queued' \cup Held' /\ Queued' \cap Held' = {}
      BY <1>a, <3>2, MoveKeepsPlaces
    <3> QED
      BY <1>a, <2>1, <2>2, <2>5, <3>3 DEF PlaceInv, AcceptedIsInOnePlace
  <2> QED
    BY <1>1, <2>4, <2>5 DEF Submit
<1>2. ASSUME NEW w \in Workers, Take(w) PROVE PlaceInv'
  <2>1. pc[w] = "idle" /\ queue # <<>> /\ queue' = Tail(queue) /\ Admit(w, Head(queue))
    BY <1>2 DEF Take
  <2>2. \/ /\ pc' = [pc EXCEPT ![w] = "waiting"] /\ item' = [item EXCEPT ![w] = Head(queue)]
           /\ fate' = fate
        \/ /\ pc' = [pc EXCEPT ![w] = "idle"] /\ item' = [item EXCEPT ![w] = NoObs]
           /\ fate' = [fate EXCEPT ![Head(queue)] = "emitted"]
    BY <2>1 DEF Admit, Settled
  <2> QED
    BY <1>a, <2>1, <2>2, HeadIsTaken
<1>3. ASSUME NEW c \in Callers, Decide(c) PROVE PlaceInv'
  <2>1. c \notin Workers /\ UNCHANGED queue
    BY <1>3, DecisionAssumption DEF Decide
  <2>2. /\ fate' = fate /\ \E p : pc' = [pc EXCEPT ![c] = p]
        /\ \E i : item' = [item EXCEPT ![c] = i]
    BY <1>3, <2>1 DEF Decide, Admit, Settled
  <2>3. \A w \in Workers : item'[w] = item[w] /\ pc'[w] = pc[w]
    BY <1>a, <1>b, <2>1, <2>2
  <2> QED
    BY <2>1, <2>2, <2>3, PlacesStay
<1>4. ASSUME NEW e \in Evals, Acquire(e) PROVE PlaceInv'
  <2>1. /\ pc[e] = "waiting" /\ pc' = [pc EXCEPT ![e] = "calling"] /\ UNCHANGED <<queue, fate, item>>
    BY <1>4 DEF Acquire
  <2>2. \A w \in Workers : item'[w] = item[w] /\ (Works(pc'[w]) <=> Works(pc[w]))
    BY <1>a, <1>b, <2>1 DEF Works
  <2> QED
    BY <2>1, <2>2, PlacesStay
<1>5. ASSUME NEW e \in Evals, Called(e), Settled(e, item[e]) PROVE PlaceInv'
  <2>1. pc[e] = "calling" /\ UNCHANGED queue /\ item' = [item EXCEPT ![e] = NoObs]
    BY <1>5 DEF Called, Settled
  <2>2. CASE e \in Workers
    <3>1. pc' = [pc EXCEPT ![e] = "idle"] /\ fate' = [fate EXCEPT ![item[e]] = "emitted"]
      BY <1>5, <2>2 DEF Settled
    <3>2. Works(pc[e]) /\ ~Works("idle") /\ "idle" \in Phases
      BY <2>1 DEF Works, Phases
    <3>3. \A x \in Obs : fate'[x] = IF x = item[e] THEN "emitted" ELSE fate[x]
      BY <1>b, <3>1
    <3> QED
      BY <1>a, <2>1, <2>2, <3>1, <3>2, <3>3, WorkerLetsGo
  <2>3. CASE e \notin Workers
    <3>1. pc' = [pc EXCEPT ![e] = "done"] /\ fate' = fate
      BY <1>5, <2>3 DEF Settled
    <3>2. \A w \in Workers : item'[w] = item[w] /\ pc'[w] = pc[w]
      BY <1>a, <1>b, <2>1, <2>3, <3>1
    <3> QED
      BY <2>1, <3>1, <3>2, PlacesStay
  <2> QED
    BY <2>2, <2>3
<1>6. ASSUME NEW e \in Evals, Evaluate(e) PROVE PlaceInv'
  <2>1. CASE FailSoft(e) /\ tries[e] < MaxRetries
    <3>1. pc[e] = "calling" /\ pc' = [pc EXCEPT ![e] = "waiting"] /\ UNCHANGED <<queue, item, fate>>
      BY <2>1 DEF FailSoft, Called
    <3>2. \A w \in Workers : item'[w] = item[w] /\ (Works(pc'[w]) <=> Works(pc[w]))
      BY <1>a, <1>b, <3>1 DEF Works
    <3> QED
      BY <3>1, <3>2, PlacesStay
  <2>2. CASE Succeed(e) \/ FailHard(e) \/ (FailSoft(e) /\ ~(tries[e] < MaxRetries))
    BY <1>5, <2>2 DEF Succeed, FailHard, FailSoft
  <2> QED
    BY <1>4, <1>6, <2>1, <2>2 DEF Evaluate
<1>7. ASSUME NEW w \in Workers, Kill(w) PROVE PlaceInv'
  <2>1. /\ pc[w] \in {"idle", "waiting", "calling"} /\ pc' = [pc EXCEPT ![w] = "dead"] /\ UNCHANGED queue
        /\ fate' = [o \in Obs |-> IF o = item[w] THEN "lost" ELSE fate[o]]
        /\ item' = [item EXCEPT ![w] = NoObs]
    BY <1>7 DEF Kill
  <2>2. CASE pc[w] = "idle"
    <3>1. item[w] = NoObs /\ ~Works(pc[w]) /\ ~Works("dead")
      BY <1>a, <2>2 DEF HandsInv, Works
    <3>2. fate' = fate
      BY <1>b, <2>1, <3>1, DecisionAssumption
    <3>3. \A v \in Workers : item'[v] = item[v] /\ (Works(pc'[v]) <=> Works(pc[v]))
      BY <1>a, <1>b, <2>1, <3>1
    <3> QED
      BY <2>1, <3>2, <3>3, PlacesStay
  <2>3. CASE pc[w] # "idle"
    <3>1. Works(pc[w]) /\ ~Works("dead") /\ "dead" \in Phases
      BY <2>1, <2>3 DEF Works, Phases
    <3>2. \A x \in Obs : fate'[x] = IF x = item[w] THEN "lost" ELSE fate[x]
      BY <2>1
    <3> QED
      BY <1>a, <2>1, <3>1, <3>2, WorkerLetsGo
  <2> QED
    BY <2>2, <2>3
<1>8. CASE Closed
  <2>1. /\ \A w \in Workers : pc[w] \in {"absent", "dead"}
        /\ fate' = [o \in Obs |-> IF \E i \in DOMAIN queue : queue[i] = o THEN "lost" ELSE fate[o]]
        /\ queue' = <<>> /\ UNCHANGED <<pc, item>>
    BY <1>8 DEF Closed
  <2>2. \A w \in Workers : item[w] = NoObs
    BY <1>a, <2>1 DEF HandsInv, Works
  <2>3. Held = {} /\ Held' = {} /\ Queued' = {}
    BY <2>1, <2>2 DEF Held, Queued
  <2>4. \A o \in Obs : fate[o] = "accepted" <=> \E i \in DOMAIN queue : queue[i] = o
    BY <1>a, <2>3 DEF AcceptedIsInOnePlace, Queued
  <2>5. {o \in Obs : fate'[o] = "accepted"} = {}
    BY <2>1, <2>4
  <2>6. HandsInv'
    BY <1>a, <2>1 DEF HandsInv
  <2>7. DOMAIN queue' = {}
    BY <2>1
  <2>8. \A v, w \in Workers : item'[v] = item'[w] /\ item'[v] # NoObs => v = w
    BY <2>1, <2>2
  <2>9. AcceptedIsInOnePlace'
    BY <2>3, <2>5, <2>7, <2>8 DEF AcceptedIsInOnePlace
  <2> QED
    BY <2>6, <2>9 DEF PlaceInv
<1>9. CASE Elapse \/ Close \/ Joined \/ StopWorkers \/ UNCHANGED vars
  BY <1>9, PlacesStay DEF Elapse, Close, Joined, StopWorkers, vars
<1> QED
  BY <1>1, <1>2, <1>3, <1>6, <1>7, <1>8, <1>9 DEF Next

\* At first there is no accepted observation and every hand is empty.
LEMMA PlaceInit == Init => PlaceInv
<1> SUFFICES ASSUME Init PROVE PlaceInv
  OBVIOUS
<1>1. /\ queue = <<>> /\ Workers \subseteq Evals
      /\ \A w \in Workers : item[w] = NoObs /\ pc[w] = "absent"
      /\ \A o \in Obs : fate[o] = "new"
  BY DEF Init, Evals
<1>2. Queued = {} /\ Held = {}
  BY <1>1 DEF Queued, Held
<1> QED
  BY <1>1, <1>2 DEF PlaceInv, HandsInv, AcceptedIsInOnePlace, Works

\* Accepted observations are neither forgotten nor evaluated twice: each is in the
\* queue once or in the hands of one worker, until it is reported or given up.
THEOREM OnePlace == Spec => []AcceptedIsInOnePlace
<1>1. Init => DecisionInv /\ PlaceInv
  BY DecisionInit, PlaceInit
<1>2. DecisionInv /\ PlaceInv /\ [Next]_vars => DecisionInv' /\ PlaceInv'
  BY DecisionStep, PlaceStep
<1>3. PlaceInv => AcceptedIsInOnePlace
  BY DEF PlaceInv
<1> QED
  BY <1>1, <1>2, <1>3, PTL DEF Spec

\* What one step may do to the fate of an observation.
FateStep ==
  \A o \in Obs : \/ fate'[o] = fate[o]
                 \/ fate[o] = "new" /\ fate'[o] \in {"refused", "accepted"}
                 \/ fate[o] = "accepted" /\ fate'[o] \in {"emitted", "lost"}

\* Only what is in the hands of a worker or at the head of the queue is reported.
LEMMA FateSteps == DecisionInv /\ PlaceInv /\ [Next]_vars => FateStep
<1> SUFFICES ASSUME DecisionInv, PlaceInv, [Next]_vars PROVE FateStep
  OBVIOUS
<1>a. TypeOK /\ AcceptedIsInOnePlace /\ HandsInv /\ Workers \subseteq Evals
      /\ fate \in [Obs -> {"new", "refused", "accepted", "emitted", "lost"}]
  BY DEF DecisionInv, PlaceInv, Evals, TypeOK
<1>1. ASSUME NEW o \in Obs, Submit(o) PROVE FateStep
  BY <1>1, <1>a DEF Submit, FateStep
<1>2. ASSUME NEW w \in Workers, Take(w) PROVE FateStep
  <2>1. queue # <<>> /\ (fate' = fate \/ fate' = [fate EXCEPT ![Head(queue)] = "emitted"])
    BY <1>2 DEF Take, Admit, Settled
  <2>2. Head(queue) \in Obs /\ fate[Head(queue)] = "accepted"
    BY <1>a, <2>1, HeadOnce
  <2> QED
    BY <1>a, <2>1, <2>2 DEF FateStep
<1>3. ASSUME NEW c \in Callers, Decide(c) PROVE FateStep
  <2>1. fate' = fate
    BY <1>3, DecisionAssumption DEF Decide, Admit, Settled
  <2> QED
    BY <2>1 DEF FateStep
<1>4. ASSUME NEW e \in Evals, Evaluate(e) PROVE FateStep
  <2>1. CASE fate' = fate
    BY <2>1 DEF FateStep
  <2>2. CASE e \in Workers /\ pc[e] = "calling" /\ fate' = [fate EXCEPT ![item[e]] = "emitted"]
    <3>1. item[e] \in Obs /\ fate[item[e]] = "accepted"
      BY <1>a, <2>2, HeldOnce DEF Works
    <3> QED
      BY <1>a, <2>2, <3>1 DEF FateStep
  <2>3. ASSUME Called(e), Settled(e, item[e]) PROVE FateStep
    BY <2>1, <2>2, <2>3 DEF Called, Settled
  <2>4. Acquire(e) => fate' = fate
    BY DEF Acquire
  <2>5. FailSoft(e) => fate' = fate \/ (Called(e) /\ Settled(e, item[e]))
    BY DEF FailSoft
  <2>6. Succeed(e) \/ FailHard(e) => Called(e) /\ Settled(e, item[e])
    BY DEF Succeed, FailHard
  <2> QED
    BY <1>4, <2>1, <2>3, <2>4, <2>5, <2>6 DEF Evaluate
<1>5. ASSUME NEW w \in Workers, Kill(w) PROVE FateStep
  <2>1. fate' = [o \in Obs |-> IF o = item[w] THEN "lost" ELSE fate[o]]
    BY <1>5 DEF Kill
  <2>2. item[w] = NoObs \/ (item[w] \in Obs /\ fate[item[w]] = "accepted")
    BY <1>a, HeldOnce DEF HandsInv
  <2> QED
    BY <1>a, <2>1, <2>2, DecisionAssumption DEF FateStep
<1>6. CASE Closed
  <2>1. fate' = [o \in Obs |-> IF \E i \in DOMAIN queue : queue[i] = o THEN "lost" ELSE fate[o]]
    BY <1>6 DEF Closed
  <2>2. \A o \in Obs : (\E i \in DOMAIN queue : queue[i] = o) => fate[o] = "accepted"
    BY <1>a DEF AcceptedIsInOnePlace, Queued
  <2> QED
    BY <1>a, <2>1, <2>2 DEF FateStep
<1>7. CASE Elapse \/ Close \/ Joined \/ StopWorkers \/ UNCHANGED vars
  BY <1>7 DEF Elapse, Close, Joined, StopWorkers, vars, FateStep
<1> QED
  BY <1>1, <1>2, <1>3, <1>4, <1>5, <1>6, <1>7 DEF Next

\* What became of an observation is settled once: nothing is refused after it was
\* accepted, and nothing that was reported or given up is evaluated again.
THEOREM FatesAreFinal == Spec => [][FateStep]_vars
<1>1. Init => DecisionInv /\ PlaceInv
  BY DecisionInit, PlaceInit
<1>2. DecisionInv /\ PlaceInv /\ [Next]_vars => DecisionInv' /\ PlaceInv'
  BY DecisionStep, PlaceStep
<1>3. DecisionInv /\ PlaceInv /\ [Next]_vars => [FateStep]_vars
  BY FateSteps
<1> QED
  BY <1>1, <1>2, <1>3, PTL DEF Spec
=============================================================================
