---------------------------- MODULE SharedRuntime ----------------------------
(***************************************************************************)
(* SharedRuntimeService of runtime/shared_runtime.py: one process runs the *)
(* agents that the control plane lists.  A loop loads the list, stops the  *)
(* agents it no longer wants one after the other and starts the missing    *)
(* ones together; stop() cancels the loop and stops what is managed.       *)
(*                                                                         *)
(* An agent is one object, made by _start_agent and never used again after *)
(* its stop; slots of Agent are reused.  "provision" is the creation of    *)
(* its request topic, "joining" Ka2aAgent.start from the publication of    *)
(* the card on.  Ka2aAgent.stop is "quitting" up to the card's deletion,   *)
(* "leaving" while the consumer is stopped, "closing" behind that.  A      *)
(* start or a stop that ends early may leave the consumer in its group,    *)
(* where no object leads to it any more: those are counted by name.        *)
(***************************************************************************)
EXTENDS Integers, FiniteSets

CONSTANTS
  Name,         \* runtime names
  Version,      \* fingerprints of an agent's description
  Agent,        \* agent objects alive at a time
  None,
  MaxEdits, MaxOutages, MaxStartFaults, MaxStopFaults  \* what may happen, at most so often

ASSUME SharedAssumption ==
  /\ None \notin Version \cup Agent
  /\ IsFiniteSet(Name) /\ IsFiniteSet(Agent)
  /\ {MaxEdits, MaxOutages, MaxStartFaults, MaxStopFaults} \subseteq Nat

VARIABLES
  registry,  \* the control plane's list: version of each name, or None
  known,     \* _last_registry_agents
  managed,   \* _managed
  agent,     \* the objects: phase, name and version
  left,      \* consumers of each name still in its group without an agent to stop them
  pc,        \* of _reconcile, or "wait" between two of them, or "ended"
  desired, todo, toStart,  \* its locals: the list, names left to look at, names to start
  batch,     \* the starts its gather waits for
  victim,    \* the agent whose stop is awaited
  life,      \* of the service; "stopping" and later: _stop is set
  cancel,    \* a cancellation the loop has not received yet
  budget     \* how often each kind of trouble may still happen

vars == <<registry, known, managed, agent, left, pc, desired, todo, toStart, batch,
          victim, life, cancel, budget>>
locals == <<desired, todo, toStart, batch, victim>>

Nothing == [n \in Name |-> None]
Managed == {n \in Name : managed[n] # None}
Unused == [phase |-> "free", name |-> None, version |-> None]
Free == {a \in Agent : agent[a].phase = "free"}

\* _reconcile or stop() between two awaits: nobody else runs.
Busy == (pc \in {"undesired", "changed"} \/ life = "draining") /\ victim = None

Spend(kind) == budget[kind] > 0 /\ budget' = [budget EXCEPT ![kind] = @ - 1]

Init ==
  /\ registry \in [Name -> Version \cup {None}]
  /\ known = Nothing /\ managed = Nothing /\ desired = Nothing
  /\ agent = [a \in Agent |-> Unused] /\ left = [n \in Name |-> 0]
  /\ pc = "wait" /\ life = "starting" /\ cancel = FALSE
  /\ todo = {} /\ toStart = {} /\ batch = {} /\ victim = None
  /\ budget = [edit |-> MaxEdits, outage |-> MaxOutages,
               start |-> MaxStartFaults, stop |-> MaxStopFaults]

\* Somebody enables, disables or changes an agent.
Edit(n, v) ==
  /\ registry[n] # v /\ Spend("edit")
  /\ registry' = [registry EXCEPT ![n] = v]
  /\ UNCHANGED <<known, managed, agent, left, pc, locals, life, cancel>>

-----------------------------------------------------------------------------
(* Reconciliation *)

Reconcile(list) ==
  /\ pc' = "undesired" /\ desired' = list
  /\ todo' = Managed /\ toStart' = {}
  /\ UNCHANGED <<registry, managed, agent, left, batch, victim, life, cancel>>

Polls == pc = "wait" /\ life \in {"starting", "running"}

Answered == Polls /\ known' = registry /\ Reconcile(registry) /\ UNCHANGED budget

\* An answer without a list counts as an empty one.
Malformed == Polls /\ Spend("outage") /\ known' = Nothing /\ Reconcile(Nothing)

\* Mutant of Unreachable: an outage counts as an empty list.
UnreachableIsEmpty == Polls /\ Spend("outage") /\ UNCHANGED known /\ Reconcile(Nothing)

\* ControlPlaneError: the last list is used again; without one, the next attempt.
Unreachable ==
  /\ Polls /\ Spend("outage") /\ UNCHANGED known
  /\ IF known # Nothing THEN Reconcile(known)
     ELSE UNCHANGED <<registry, managed, agent, left, pc, locals, life, cancel>>

\* _stop_agent up to its await.
Remove(n) ==
  /\ managed' = [managed EXCEPT ![n] = None]
  /\ victim' = managed[n]
  /\ agent' = [agent EXCEPT ![managed[n]].phase = "quitting"]

\* The first loop: what is managed and no longer listed.
Undesired ==
  /\ pc = "undesired" /\ victim = None
  /\ LET gone == {n \in todo : desired[n] = None} IN
     \/ \E n \in gone :
          /\ Remove(n) /\ todo' = todo \ {n}
          /\ UNCHANGED <<pc, desired, toStart, batch>>
     \/ /\ gone = {}
        /\ pc' = "changed" /\ todo' = {n \in Name : desired[n] # None}
        /\ UNCHANGED <<managed, agent, desired, toStart, batch, victim>>
  /\ UNCHANGED <<registry, known, left, life, cancel, budget>>

\* Mutant of Compare: any agent of that name will do.
CompareNameOnly(n) ==
  /\ pc = "changed" /\ victim = None /\ n \in todo
  /\ todo' = todo \ {n}
  /\ toStart' = IF managed[n] # None THEN toStart ELSE toStart \cup {n}
  /\ UNCHANGED <<managed, agent, victim>>
  /\ UNCHANGED <<registry, known, left, pc, desired, batch, life, cancel, budget>>

\* Mutant of Compare: a changed agent is started anew before the old one is stopped.
CompareWithoutStop(n) ==
  /\ pc = "changed" /\ victim = None /\ n \in todo
  /\ todo' = todo \ {n}
  /\ toStart' = IF managed[n] # None /\ agent[managed[n]].version = desired[n]
                THEN toStart ELSE toStart \cup {n}
  /\ UNCHANGED <<managed, agent, victim>>
  /\ UNCHANGED <<registry, known, left, pc, desired, batch, life, cancel, budget>>

\* The second loop: an agent of that fingerprint stays, any other is stopped
\* first.
Compare(n) ==
  /\ pc = "changed" /\ victim = None /\ n \in todo
  /\ todo' = todo \ {n}
  /\ \/ /\ managed[n] # None /\ agent[managed[n]].version = desired[n]
        /\ UNCHANGED <<managed, agent, toStart, victim>>
     \/ /\ managed[n] # None /\ agent[managed[n]].version # desired[n]
        /\ Remove(n) /\ toStart' = toStart \cup {n}
     \/ /\ managed[n] = None
        /\ toStart' = toStart \cup {n} /\ UNCHANGED <<managed, agent, victim>>
  /\ UNCHANGED <<registry, known, left, pc, desired, batch, life, cancel, budget>>

\* _reconcile returns: the first one lets start() return.
Reconciled ==
  /\ pc' = "wait"
  /\ life' = IF life = "starting" THEN "running" ELSE life

\* asyncio.gather of the starts.
Gather ==
  /\ pc = "changed" /\ victim = None /\ todo = {}
  /\ \/ toStart = {} /\ Reconciled /\ UNCHANGED <<agent, batch>>
     \/ /\ toStart # {} /\ Cardinality(Free) >= Cardinality(toStart)
        /\ LET slot == CHOOSE f \in [toStart -> Free] :
                         \A m, n \in toStart : f[m] = f[n] => m = n
           IN /\ batch' = {slot[n] : n \in toStart}
              /\ agent' = [a \in Agent |->
                   IF \E n \in toStart : slot[n] = a
                   THEN LET n == CHOOSE m \in toStart : slot[m] = a IN
                        [phase |-> "provision", name |-> n, version |-> desired[n]]
                   ELSE agent[a]]
        /\ pc' = "gather" /\ UNCHANGED life
  /\ UNCHANGED <<registry, known, managed, left, desired, todo, toStart, victim, cancel, budget>>

-----------------------------------------------------------------------------
(* The start of an agent, awaited by gather or left alone *)

\* It goes on when the event loop is free, unless gather has passed a
\* cancellation on to it.
MayGoOn(a) == ~Busy /\ (a \in batch => ~cancel)

\* Mutant of Provisioned: the agent is managed before it is started.
ProvisionedAndManaged(a) ==
  /\ MayGoOn(a) /\ agent[a].phase = "provision"
  /\ agent' = [agent EXCEPT ![a].phase = "joining"]
  /\ managed' = [managed EXCEPT ![agent[a].name] = a]
  /\ UNCHANGED <<registry, known, left, pc, locals, life, cancel, budget>>

Provisioned(a) ==
  /\ MayGoOn(a) /\ agent[a].phase = "provision"
  /\ agent' = [agent EXCEPT ![a].phase = "joining"]
  /\ UNCHANGED <<registry, known, managed, left, pc, locals, life, cancel, budget>>

\* The consumer has joined; whatever was managed under the name is overwritten.
Started(a) ==
  /\ MayGoOn(a) /\ agent[a].phase = "joining"
  /\ agent' = [agent EXCEPT ![a].phase = "running"]
  /\ managed' = [managed EXCEPT ![agent[a].name] = a]
  /\ batch' = batch \ {a}
  /\ IF batch = {a} THEN Reconciled ELSE UNCHANGED <<pc, life>>
  /\ UNCHANGED <<registry, known, left, desired, todo, toStart, victim, cancel, budget>>

\* The consumer of an agent of each of these names goes on by itself.
LeaveBehind(names) ==
  left' = [n \in Name |-> IF n \in names THEN left[n] + 1 ELSE left[n]]

\* The start raises (no card, no topic, no processor, no broker) and undoes
\* nothing.  An awaited one ends the reconciliation; gather leaves the others
\* to themselves.
StartFails(a) ==
  /\ MayGoOn(a) /\ Spend("start")
  /\ \/ agent[a].phase \in {"provision", "joining"} /\ UNCHANGED left
     \/ agent[a].phase = "joining" /\ LeaveBehind({agent[a].name})
  /\ agent' = [agent EXCEPT ![a] = Unused]
  /\ IF a \in batch THEN pc' = "wait" /\ batch' = {} ELSE UNCHANGED <<pc, batch>>
  /\ UNCHANGED <<registry, known, managed, desired, todo, toStart, victim, life, cancel>>

-----------------------------------------------------------------------------
(* The stop of an agent, awaited by _reconcile or by stop() *)

StopGoesOn(from, to) ==
  /\ victim # None /\ ~cancel /\ agent[victim].phase = from
  /\ agent' = [agent EXCEPT ![victim].phase = to]
  /\ UNCHANGED <<registry, known, managed, left, pc, locals, life, cancel, budget>>

Unpublished == StopGoesOn("quitting", "leaving")
ConsumerStopped == StopGoesOn("leaving", "closing")

StopEnds == /\ agent' = [agent EXCEPT ![victim] = Unused]
            /\ victim' = None
            /\ UNCHANGED <<registry, known, managed, desired, todo, toStart, batch, cancel>>

Quit == /\ victim # None /\ ~cancel /\ agent[victim].phase = "closing"
        /\ StopEnds /\ UNCHANGED <<left, pc, life, budget>>

\* Closing the consumer, the store or the transport raises, and so does who waits.
QuitFails ==
  /\ victim # None /\ ~cancel /\ Spend("stop")
  /\ \/ agent[victim].phase \in {"leaving", "closing"} /\ UNCHANGED left
     \/ agent[victim].phase = "leaving" /\ LeaveBehind({agent[victim].name})
  /\ StopEnds
  /\ IF life = "draining" THEN life' = "failed" /\ UNCHANGED pc
     ELSE pc' = "wait" /\ UNCHANGED life

-----------------------------------------------------------------------------
(* stop() *)

Stop ==
  /\ life = "running" /\ ~Busy
  /\ life' = "stopping" /\ cancel' = TRUE
  /\ UNCHANGED <<registry, known, managed, agent, left, pc, locals, budget>>

Ended == pc' = "ended" /\ cancel' = FALSE

\* Mutant of LoopEnds: the loop sleeps and does not look at _stop.
LoopEndsCanceled ==
  /\ pc = "wait" /\ life = "stopping" /\ cancel
  /\ Ended /\ UNCHANGED <<registry, known, managed, agent, left, locals, life, budget>>

\* The loop waits: it is cancelled, or sees _stop.
LoopEnds ==
  /\ pc = "wait" /\ life = "stopping"
  /\ Ended /\ UNCHANGED <<registry, known, managed, agent, left, locals, life, budget>>

\* The cancellation reaches the children of gather; each that was joining may
\* leave its consumer behind.
CancelStarts ==
  /\ pc = "gather" /\ cancel
  /\ \E names \in SUBSET {agent[a].name : a \in {b \in batch : agent[b].phase = "joining"}} :
       LeaveBehind(names)
  /\ agent' = [a \in Agent |-> IF a \in batch THEN Unused ELSE agent[a]]
  /\ batch' = {} /\ Ended
  /\ UNCHANGED <<registry, known, managed, desired, todo, toStart, victim, life, budget>>

\* The cancellation meets an agent's stop where it awaits a task it has cancelled
\* itself, and takes the CancelledError for that task's: the heartbeat and the push
\* worker end all the same, but the consumer's task is stopping the consumer, and
\* that is cut short.
CancelSwallowed ==
  /\ victim # None /\ cancel
  /\ \/ agent[victim].phase = "quitting" /\ UNCHANGED <<agent, left>>
     \/ /\ agent[victim].phase = "leaving"
        /\ agent' = [agent EXCEPT ![victim].phase = "closing"]
        /\ UNCHANGED left \/ LeaveBehind({agent[victim].name})
  /\ cancel' = FALSE
  /\ UNCHANGED <<registry, known, managed, pc, locals, life, budget>>

\* ... or where nothing catches it: during the card's deletion, with the
\* consumer still on, or behind the consumer's stop.
CancelAborts ==
  /\ victim # None /\ cancel
  /\ \/ agent[victim].phase = "quitting" /\ LeaveBehind({agent[victim].name})
     \/ agent[victim].phase = "closing" /\ UNCHANGED left
  /\ agent' = [agent EXCEPT ![victim] = Unused]
  /\ victim' = None /\ Ended
  /\ UNCHANGED <<registry, known, managed, desired, todo, toStart, batch, life, budget>>

\* Mutant of BeginDrain: the loop that was cancelled is not awaited.
BeginDrainAtOnce ==
  /\ life = "stopping"
  /\ life' = "draining" /\ todo' = Managed
  /\ UNCHANGED <<registry, known, managed, agent, left, pc, desired, toStart, batch, victim,
                 cancel, budget>>

\* The loop has ended: what is managed by now is stopped.
BeginDrain ==
  /\ pc = "ended" /\ life = "stopping"
  /\ life' = "draining" /\ todo' = Managed
  /\ UNCHANGED <<registry, known, managed, agent, left, pc, desired, toStart, batch, victim,
                 cancel, budget>>

Drain ==
  /\ life = "draining" /\ victim = None
  /\ \/ /\ todo = {} /\ life' = "stopped"
        /\ UNCHANGED <<managed, agent, todo, victim>>
     \/ \E n \in todo : Remove(n) /\ todo' = todo \ {n} /\ UNCHANGED life
  /\ UNCHANGED <<registry, known, left, pc, desired, toStart, batch, cancel, budget>>

-----------------------------------------------------------------------------
Loop == Answered \/ Undesired \/ (\E n \in Name : Compare(n)) \/ Gather
AgentStop == Unpublished \/ ConsumerStopped \/ Quit
Ending == LoopEnds \/ CancelStarts \/ CancelSwallowed \/ CancelAborts \/ BeginDrain \/ Drain

Next ==
  \/ \E n \in Name, v \in Version \cup {None} : Edit(n, v)
  \/ Loop \/ Malformed \/ Unreachable
  \/ \E a \in Agent : Provisioned(a) \/ Started(a) \/ StartFails(a)
  \/ AgentStop \/ QuitFails
  \/ Stop \/ Ending

Spec == Init /\ [][Next]_vars

\* The loop, the control plane, the broker and the event loop go on.
FairSpec ==
  /\ Spec
  /\ WF_vars(Loop) /\ WF_vars(AgentStop) /\ WF_vars(Ending)
  /\ \A a \in Agent : WF_vars(Provisioned(a)) /\ WF_vars(Started(a))

-----------------------------------------------------------------------------
(* Properties *)

\* The phases of an agent that somebody still starts, runs or stops.
Present == {"provision", "joining", "running", "quitting", "leaving", "closing"}

\* Every variable keeps its type.
TypeOK ==
  /\ {registry, known, desired} \subseteq [Name -> Version \cup {None}]
  /\ managed \in [Name -> Agent \cup {None}]
  /\ agent \in [Agent -> {Unused} \cup
                 [phase : Present, name : Name, version : Version]]
  /\ left \in [Name -> Nat]
  /\ pc \in {"wait", "undesired", "changed", "gather", "ended"}
  /\ life \in {"starting", "running", "stopping", "draining", "stopped", "failed"}
  /\ todo \subseteq Name /\ toStart \subseteq Name /\ batch \subseteq Agent
  /\ victim \in Agent \cup {None} /\ cancel \in BOOLEAN
  /\ (batch # {}) = (pc = "gather")
  /\ budget \in [{"edit", "outage", "start", "stop"} -> Nat]

\* A local delegation that finds an agent in _managed finds one that has started
\* and is not being stopped (_find_local_agent hands it out as it is).
ManagedServes ==
  \A n \in Managed : agent[managed[n]].phase = "running" /\ agent[managed[n]].name = n

\* The agents of one process are independent runtime names: no name has two
\* agents (they would share a consumer group, and only one can be stopped).
OneAgentPerName ==
  \A a, b \in Agent :
    agent[a].phase \in Present /\ agent[b].phase \in Present /\ agent[a].name = agent[b].name
      => a = b

FailedStops == MaxStopFaults - budget["stop"]

\* As long as no start has failed, no name has two agents, whatever the control
\* plane answers, whichever stop fails, and wherever stop() interrupts; and beside
\* an agent there is no consumer in its group but what a failed stop left there, one
\* each, and one more that stop() itself cut off.
UniqueWhileStartsSucceed ==
  budget["start"] = MaxStartFaults =>
    /\ OneAgentPerName
    /\ \A n \in Name :
         left[n] <= FailedStops + IF life \in {"starting", "running"} THEN 0 ELSE 1

\* When stop() has returned and no start failed, nothing is managed and no agent goes
\* on; what stays in the group of a name is one consumer that the cancellation of the
\* loop cut off on its way in or out, and those of failed stops.
StopLeavesOnePerName ==
  life = "stopped" /\ budget["start"] = MaxStartFaults =>
    /\ Managed = {}
    /\ \A a \in Agent : agent[a].phase \notin Present
    /\ \A n \in Name : left[n] <= FailedStops + 1

\* An outage of the control plane stops no agent: one that is removed by the
\* loop is not in the last list received, or there in another version.
OutageStopsNobody ==
  [][\A n \in Managed :
       managed'[n] = None => life = "draining" \/ known[n] # agent[managed[n]].version]_vars

\* When the control plane's list stays, the managed agents become the listed
\* ones, after outages and failed starts and stops, unless the service is stopped.
Converges ==
  \/ <>(life \notin {"starting", "running"})
  \/ <>[](\A n \in Name : registry[n] = IF managed[n] = None THEN None
                                         ELSE agent[managed[n]].version)

\* stop() returns or raises, though an agent's stop may swallow the cancellation.
StopReturns == life = "stopping" ~> life \in {"stopped", "failed"}
=============================================================================
