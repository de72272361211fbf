--------------------------- MODULE DecisionService ---------------------------
(***************************************************************************)
(* The dispatcher of decisioning/service.py: observations are put in a     *)
(* bounded queue and evaluated by workers; an enforced decision is         *)
(* evaluated by its caller; both share a semaphore, a retry loop and a     *)
(* circuit breaker in front of the provider.                               *)
(*                                                                         *)
(* asyncio runs a coroutine up to its next suspension; those are the queue,*)
(* the semaphore and the provider's call (the circuit's lock is held over  *)
(* no suspension, so nobody ever waits for it).  Time is one bit: whether  *)
(* the open period of the circuit has elapsed.                             *)
(***************************************************************************)
EXTENDS Integers, Sequences, FiniteSets

CONSTANTS
  Obs,         \* observations submitted (submit_shadow)
  Callers,     \* enforced decisions (decide_now)
  Workers,     \* the worker coroutines
  NoObs,       \* no observation
  Slots,       \* max_concurrency: slots of the provider's semaphore
  QueueCap,    \* queue_maxsize
  MaxRetries,  \* retry_max_retries
  Threshold,   \* circuit_failure_threshold
  Drains       \* whether the service is closed with a drain timeout

ASSUME DecisionAssumption ==
  /\ NoObs \notin Obs
  /\ IsFiniteSet(Workers \cup Callers) /\ Workers \cap Callers = {}
  /\ Slots \in Nat \ {0} /\ Slots = Cardinality(Workers)
  /\ QueueCap \in Nat \ {0}
  /\ MaxRetries \in Nat
  /\ Threshold \in Nat \ {0}
  /\ Drains \in BOOLEAN

Evals == Workers \cup Callers

VARIABLES
  queue, unfinished,   \* the queue, and how many of its items are not task_done
  fate,                \* of an observation: new, refused, accepted, emitted or lost
  pc, item, tries,     \* evaluations: phase, observation, retries made
  slots,               \* free slots of the semaphore
  circuit, fails,      \* circuit breaker; _consecutive_failures
  phase                \* of the service

vars == <<queue, unfinished, fate, pc, item, tries, slots, circuit, fails, phase>>

Open == phase \in {"running", "draining", "drained"}

-----------------------------------------------------------------------------
(* Submissions *)

\* submit_shadow: the first one makes the workers; a full queue drops.
Submit(o) ==
  /\ fate[o] = "new"
  /\ pc' = IF Open THEN [e \in Evals |-> IF pc[e] = "absent" THEN "idle" ELSE pc[e]] ELSE pc
  /\ IF Open /\ Len(queue) < QueueCap
     THEN /\ queue' = Append(queue, o)
          /\ unfinished' = unfinished + 1
          /\ fate' = [fate EXCEPT ![o] = "accepted"]
     ELSE /\ fate' = [fate EXCEPT ![o] = "refused"]
          /\ UNCHANGED <<queue, unfinished>>
  /\ UNCHANGED <<item, tries, slots, circuit, fails, phase>>

-----------------------------------------------------------------------------
(* Evaluations *)

\* An evaluation is over: a worker reports it and calls task_done, a caller
\* has its decision or its fallback.
Settled(e, o) ==
  /\ item' = [item EXCEPT ![e] = NoObs]
  /\ tries' = [tries EXCEPT ![e] = 0]
  /\ IF e \in Workers
     THEN /\ pc' = [pc EXCEPT ![e] = "idle"]
          /\ fate' = [fate EXCEPT ![o] = "emitted"]
          /\ unfinished' = unfinished - 1
     ELSE /\ pc' = [pc EXCEPT ![e] = "done"]
          /\ UNCHANGED <<fate, unfinished>>

\* Mutant of Admit: the elapsed circuit is closed, its count kept.
AdmitAndKeepCount(e, o) ==
  IF circuit = "open"
  THEN Settled(e, o) /\ UNCHANGED <<circuit, fails>>
  ELSE /\ pc' = [pc EXCEPT ![e] = "waiting"]
       /\ item' = [item EXCEPT ![e] = o]
       /\ circuit' = "closed"
       /\ UNCHANGED <<fails, fate, unfinished, tries>>

\* _circuit_is_open: refused while open; the first one after the open period
\* closes the circuit.  The others go on to the semaphore.
Admit(e, o) ==
  IF circuit = "open"
  THEN Settled(e, o) /\ UNCHANGED <<circuit, fails>>
  ELSE /\ pc' = [pc EXCEPT ![e] = "waiting"]
       /\ item' = [item EXCEPT ![e] = o]
       /\ circuit' = "closed"
       /\ fails' = IF circuit = "elapsed" THEN 0 ELSE fails
       /\ UNCHANGED <<fate, unfinished, tries>>

\* A worker takes the next observation.
Take(w) ==
  /\ Open
  /\ pc[w] = "idle"
  /\ queue # <<>>
  /\ queue' = Tail(queue)
  /\ Admit(w, Head(queue))
  /\ UNCHANGED <<slots, phase>>

\* decide_now: a fallback at once when the service is closed.
Decide(c) ==
  /\ pc[c] = "new"
  /\ IF Open
     THEN Admit(c, NoObs)
     ELSE Settled(c, NoObs) /\ UNCHANGED <<circuit, fails>>
  /\ UNCHANGED <<queue, slots, phase>>

\* The semaphore, in some order; a worker that is being cancelled gets no slot.
Running(e) == e \in Workers => Open

Acquire(e) ==
  /\ Running(e)
  /\ pc[e] = "waiting"
  /\ slots > 0
  /\ slots' = slots - 1
  /\ pc' = [pc EXCEPT ![e] = "calling"]
  /\ UNCHANGED <<queue, unfinished, fate, item, tries, circuit, fails, phase>>

Called(e) == Running(e) /\ pc[e] = "calling" /\ slots' = slots + 1 /\ UNCHANGED <<queue, phase>>

Succeed(e) ==
  /\ Called(e)
  /\ fails' = 0
  /\ Settled(e, item[e])
  /\ UNCHANGED circuit

\* An answer that is no decision and not transient (invalid, 4xx): not counted.
FailHard(e) ==
  /\ Called(e)
  /\ Settled(e, item[e])
  /\ UNCHANGED <<circuit, fails>>

\* Mutant of FailSoft: a retry keeps its slot and acquires another.
FailSoftHoldingSlot(e) ==
  /\ Running(e) /\ pc[e] = "calling" /\ UNCHANGED <<queue, phase>>
  /\ IF tries[e] < MaxRetries
     THEN /\ tries' = [tries EXCEPT ![e] = @ + 1]
          /\ pc' = [pc EXCEPT ![e] = "waiting"]
          /\ UNCHANGED <<item, fate, unfinished, circuit, fails, slots>>
     ELSE /\ fails' = fails + 1
          /\ circuit' = IF fails' >= Threshold THEN "open" ELSE circuit
          /\ slots' = slots + 1
          /\ Settled(e, item[e])

\* Mutant of FailSoft: a retry puts the observation in the queue again.
FailSoftRequeued(e) ==
  /\ Running(e) /\ pc[e] = "calling" /\ slots' = slots + 1 /\ UNCHANGED phase
  /\ IF tries[e] < MaxRetries
     THEN /\ tries' = [tries EXCEPT ![e] = @ + 1]
          /\ pc' = [pc EXCEPT ![e] = "waiting"]
          /\ IF item[e] # NoObs /\ Len(queue) < QueueCap
             THEN queue' = Append(queue, item[e]) /\ unfinished' = unfinished + 1
             ELSE UNCHANGED <<queue, unfinished>>
          /\ UNCHANGED <<item, fate, circuit, fails>>
     ELSE /\ fails' = fails + 1
          /\ circuit' = IF fails' >= Threshold THEN "open" ELSE circuit
          /\ Settled(e, item[e])
          /\ UNCHANGED queue

\* A timeout or another transient failure: retried, or counted; the circuit is
\* opened, again if it was open already, once enough are counted in a row.
FailSoft(e) ==
  /\ Called(e)
  /\ IF tries[e] < MaxRetries
     THEN /\ tries' = [tries EXCEPT ![e] = @ + 1]
          /\ pc' = [pc EXCEPT ![e] = "waiting"]
          /\ UNCHANGED <<item, fate, unfinished, circuit, fails>>
     ELSE /\ fails' = fails + 1
          /\ circuit' = IF fails' >= Threshold THEN "open" ELSE circuit
          /\ Settled(e, item[e])

\* circuit_open_s have passed.
Elapse ==
  /\ circuit = "open"
  /\ circuit' = "elapsed"
  /\ UNCHANGED <<queue, unfinished, fate, pc, item, tries, slots, fails, phase>>

-----------------------------------------------------------------------------
(* aclose *)

Close ==
  /\ phase = "running"
  /\ phase' = IF Drains /\ \E w \in Workers : pc[w] # "absent" THEN "draining" ELSE "closing"
  /\ UNCHANGED <<queue, unfinished, fate, pc, item, tries, slots, circuit, fails>>

\* The queue is joined; submissions go on until aclose is resumed.
Joined ==
  /\ phase = "draining"
  /\ unfinished = 0
  /\ phase' = "drained"
  /\ UNCHANGED <<queue, unfinished, fate, pc, item, tries, slots, circuit, fails>>

\* The drain is over, by time or by the join: the workers are cancelled.
StopWorkers ==
  /\ phase \in {"draining", "drained"}
  /\ phase' = "closing"
  /\ UNCHANGED <<queue, unfinished, fate, pc, item, tries, slots, circuit, fails>>

\* Mutant of Kill: a cancelled worker does not call task_done.
KillUndone(w) ==
  /\ phase = "closing"
  /\ pc[w] \in {"idle", "waiting", "calling"}
  /\ pc' = [pc EXCEPT ![w] = "dead"]
  /\ slots' = IF pc[w] = "calling" THEN slots + 1 ELSE slots
  /\ fate' = [o \in Obs |-> IF o = item[w] THEN "lost" ELSE fate[o]]
  /\ item' = [item EXCEPT ![w] = NoObs]
  /\ UNCHANGED <<queue, unfinished, tries, circuit, fails, phase>>

\* A worker is thrown CancelledError where it is suspended.
Kill(w) ==
  /\ phase = "closing"
  /\ pc[w] \in {"idle", "waiting", "calling"}
  /\ pc' = [pc EXCEPT ![w] = "dead"]
  /\ slots' = IF pc[w] = "calling" THEN slots + 1 ELSE slots
  /\ unfinished' = IF pc[w] = "idle" THEN unfinished ELSE unfinished - 1
  /\ fate' = [o \in Obs |-> IF o = item[w] THEN "lost" ELSE fate[o]]
  /\ item' = [item EXCEPT ![w] = NoObs]
  /\ UNCHANGED <<queue, tries, circuit, fails, phase>>

\* All workers are gone: what is left in the queue is thrown away.
Closed ==
  /\ phase = "closing"
  /\ \A w \in Workers : pc[w] \in {"absent", "dead"}
  /\ phase' = "closed"
  /\ fate' = [o \in Obs |-> IF \E i \in DOMAIN queue : queue[i] = o THEN "lost" ELSE fate[o]]
  /\ unfinished' = unfinished - Len(queue)
  /\ queue' = <<>>
  /\ UNCHANGED <<pc, item, tries, slots, circuit, fails>>

-----------------------------------------------------------------------------
Init ==
  /\ queue = <<>> /\ unfinished = 0
  /\ fate = [o \in Obs |-> "new"]
  /\ pc = [e \in Evals |-> IF e \in Workers THEN "absent" ELSE "new"]
  /\ item = [e \in Evals |-> NoObs] /\ tries = [e \in Evals |-> 0]
  /\ slots = Slots
  /\ circuit = "closed" /\ fails = 0
  /\ phase = "running"

Evaluate(e) == Acquire(e) \/ Succeed(e) \/ FailHard(e) \/ FailSoft(e)

Next ==
  \/ \E o \in Obs : Submit(o)
  \/ \E w \in Workers : Take(w) \/ Kill(w)
  \/ \E c \in Callers : Decide(c)
  \/ \E e \in Evals : Evaluate(e)
  \/ Elapse \/ Close \/ Joined \/ StopWorkers \/ Closed

Spec == Init /\ [][Next]_vars

\* Coroutines that can go on do; a call of the provider ends, by its timeout at
\* the latest; so does a drain.  Nobody has to submit or to close.
Fairness ==
  /\ \A w \in Workers : WF_vars(Take(w)) /\ WF_vars(Kill(w))
  /\ \A e \in Evals : WF_vars(Evaluate(e))
  /\ WF_vars(StopWorkers) /\ WF_vars(Closed)

FairSpec == Spec /\ Fairness

-----------------------------------------------------------------------------
(* Properties *)

\* The variables have their types and the queue keeps its bound.
TypeOK ==
  /\ queue \in Seq(Obs) /\ Len(queue) <= QueueCap
  /\ unfinished \in Nat
  /\ fate \in [Obs -> {"new", "refused", "accepted", "emitted", "lost"}]
  /\ pc \in [Evals -> {"absent", "idle", "new", "waiting", "calling", "done", "dead"}]
  /\ item \in [Evals -> Obs \cup {NoObs}]
  /\ tries \in [Evals -> 0 .. MaxRetries]
  /\ slots \in 0 .. Slots
  /\ circuit \in {"closed", "open", "elapsed"} /\ fails \in Nat
  /\ phase \in {"running", "draining", "drained", "closing", "closed"}

\* Every slot of the semaphore is free or held by exactly one call under way:
\* workers and callers together never call the provider more often at a time
\* than configured, and no failure, retry or cancellation costs a slot.
SlotsAreConserved ==
  slots + Cardinality({e \in Evals : pc[e] = "calling"}) = Slots

\* What the join of aclose waits for is what is queued or being evaluated: a
\* worker that is cancelled or whose provider fails calls task_done all the same.
UnfinishedIsWork ==
  unfinished = Len(queue) + Cardinality({w \in Workers : pc[w] \in {"waiting", "calling"}})

\* A closed circuit has failures left before it opens, whatever calls came back
\* late while it was open or elapsed.
ClosedCircuitHasBudget == circuit = "closed" => fails < Threshold

Queued == {queue[i] : i \in DOMAIN queue}
Held == {item[w] : w \in Workers} \ {NoObs}

\* An accepted observation is in exactly one place, the queue or the hands of one
\* worker, until it is reported or given up: no retry, open circuit, cancellation
\* or close forgets one, evaluates one twice or leaves one that is settled.
AcceptedIsInOnePlace ==
  /\ {o \in Obs : fate[o] = "accepted"} = Queued \cup Held
  /\ Queued \cap Held = {}
  /\ \A i, j \in DOMAIN queue : queue[i] = queue[j] => i = j
  /\ \A v, w \in Workers : item[v] = item[w] /\ item[v] # NoObs => v = w

\* The service fails open: an accepted observation is evaluated (or given up by
\* a close), and an enforced decision returns, whatever the provider does.
EvaluationsEnd ==
  /\ \A o \in Obs : fate[o] = "accepted" ~> fate[o] \in {"emitted", "lost"}
  /\ \A c \in Callers : pc[c] = "waiting" ~> pc[c] = "done"

\* aclose returns, however it drains and whatever is under way, and leaves no
\* worker and nothing to join behind.
CloseCompletes ==
  phase # "running" ~> /\ phase = "closed" /\ unfinished = 0
                       /\ \A w \in Workers : pc[w] \in {"absent", "dead"}
=============================================================================
