----------------------------- MODULE SharedProofs -----------------------------
(***************************************************************************)
(* What the shared runtime has in _managed has started and is not being    *)
(* stopped, and as long as no start fails no name has two agents: for any  *)
(* names and versions, any control plane, any number of edits, outages and *)
(* failed stops, and stop() at any moment.  stop() leaves no agent behind, *)
(* and in the group of a name no consumer but the one its own cancellation *)
(* cut off and those of failed stops.                                      *)
(***************************************************************************)
EXTENDS SharedRuntime, FiniteSetTheorems, TLAPS

\* An agent whose stop is awaited is being stopped, and who awaits it is _reconcile
\* or stop().
VictimInv ==
  victim # None => /\ agent[victim].phase \in {"quitting", "leaving", "closing"}
                   /\ pc \in {"undesired", "changed"} \/ (pc = "ended" /\ life = "draining")

\* What gather waits for has not started yet.
BatchInv == \A a \in batch : agent[a].phase \in {"provision", "joining"}

\* The loops of _reconcile and stop() look at what there is: a name that is managed to
\* be removed, a name that is listed to be started.
LoopInv ==
  /\ pc = "undesired" => todo \subseteq Managed /\ toStart = {}
  /\ life = "draining" => todo \subseteq Managed
  /\ pc = "changed" => \A n \in todo \cup toStart : desired[n] # None
  /\ life \in {"draining", "stopped", "failed"} => pc = "ended"

\* While no start failed, every agent there is is awaited, being stopped or managed;
\* so a name that is to be started has none.
Accounted ==
  budget["start"] = MaxStartFaults /\ pc # "ended" =>
    /\ \A a \in Agent : agent[a].phase \in Present =>
         a \in batch \/ a = victim \/ managed[agent[a].name] = a
    /\ pc = "changed" => \A n \in toStart : managed[n] = None

BudgetInv == budget["start"] <= MaxStartFaults

Unique == budget["start"] = MaxStartFaults => OneAgentPerName

SharedInv ==
  /\ TypeOK /\ ManagedServes /\ VictimInv /\ BatchInv /\ LoopInv /\ BudgetInv
  /\ Accounted /\ Unique


-----------------------------------------------------------------------------
(* Steps of the loop *)

AgentType == {Unused} \cup
  [phase : Present,
   name : Name, version : Version]

\* An agent with a phase of its own has a name and a version.
LEMMA AgentFacts ==
  ASSUME TypeOK
  PROVE  /\ agent \in [Agent -> AgentType] /\ Unused.phase = "free"
         /\ \A a \in Agent : agent[a].phase # "free" =>
              /\ agent[a] \in [phase : Present,
                               name : Name, version : Version]
              /\ agent[a].name \in Name
BY DEF TypeOK, AgentType, Unused

\* A step that leaves the agents alone and does not go on with a reconciliation.
LEMMA IdleStep ==
  ASSUME SharedInv, UNCHANGED <<managed, agent, batch, victim, todo, toStart, desired, pc, life>>,
         budget' = budget \/ \E kind \in {"edit", "outage"} : budget' = [budget EXCEPT ![kind] = @ - 1],
         TypeOK'
  PROVE  SharedInv'
<1>1. budget'["start"] = budget["start"]
  BY DEF SharedInv, TypeOK
<1> QED BY <1>1 DEF SharedInv, ManagedServes, Managed, VictimInv, BatchInv, LoopInv, BudgetInv,
     Accounted, Unique, OneAgentPerName

\* Edits of the control plane's list.
LEMMA EditStep ==
  ASSUME SharedInv, \E n \in Name, v \in Version \cup {None} : Edit(n, v)
  PROVE  SharedInv'
<1>1. TypeOK'
  <2>2. ASSUME NEW n \in Name, NEW v \in Version \cup {None}, Edit(n, v) PROVE TypeOK'
    <3>1. registry' \in [Name -> Version \cup {None}]
      BY <2>2 DEF SharedInv, TypeOK, Edit
    <3>2. budget' \in [{"edit", "outage", "start", "stop"} -> Nat]
      BY <2>2 DEF SharedInv, TypeOK, Edit, Spend
    <3> QED BY <2>2, <3>1, <3>2 DEF SharedInv, TypeOK, Edit, locals
  <2> QED BY <2>2
<1> QED BY <1>1, IdleStep DEF Edit, Spend, locals

\* A reconciliation begins; nobody is started or stopped while the loop waits.
LEMMA ReconcileStep ==
  ASSUME SharedInv, Polls, NEW list \in {registry, known, Nothing}, Reconcile(list),
         known' \in {registry, known, Nothing},
         budget' = budget \/ budget' = [budget EXCEPT !["outage"] = @ - 1], budget' \in [DOMAIN budget -> Nat]
  PROVE  SharedInv'
<1>1. TypeOK'
  BY DEF SharedInv, TypeOK, Polls, Reconcile, Nothing, Managed
<1>2. budget'["start"] = budget["start"]
  BY DEF SharedInv, TypeOK
<1>3. ManagedServes' /\ VictimInv' /\ BatchInv' /\ LoopInv' /\ BudgetInv'
  BY <1>2 DEF SharedInv, Polls, Reconcile, ManagedServes, Managed, VictimInv, BatchInv, LoopInv, BudgetInv
<1>4. Accounted' /\ Unique'
  BY <1>2 DEF SharedInv, Polls, Reconcile, Accounted, Unique, OneAgentPerName
<1> QED BY <1>1, <1>3, <1>4 DEF SharedInv

\* The three ways a poll of the control plane ends keep the invariant.
LEMMA PollStep ==
  ASSUME SharedInv, Answered \/ Malformed \/ Unreachable
  PROVE  SharedInv'
<1>1. /\ budget \in [{"edit", "outage", "start", "stop"} -> Nat]
      /\ Spend("outage") => budget' \in [DOMAIN budget -> Nat]
  BY DEF SharedInv, TypeOK, Spend
<1>2. CASE Answered
  BY <1>1, <1>2, ReconcileStep DEF Answered
<1>3. CASE Malformed
  BY <1>1, <1>3, ReconcileStep DEF Malformed, Spend
<1>4. CASE Unreachable /\ known # Nothing
  BY <1>1, <1>4, ReconcileStep DEF Unreachable, Spend
<1>5. CASE Unreachable /\ known = Nothing
  <2>1. TypeOK'
    BY <1>5 DEF SharedInv, TypeOK, Unreachable, Spend, locals
  <2> QED BY <1>5, <2>1, IdleStep DEF Unreachable, Spend, locals
<1> QED BY <1>2, <1>3, <1>4, <1>5

\* An agent that is taken out of _managed and stopped was running; the others that
\* are managed are others.
LEMMA Removed ==
  ASSUME SharedAssumption, SharedInv, NEW n \in Managed, Remove(n), victim = None
  PROVE  /\ managed[n] \in Agent /\ victim' = managed[n] /\ victim' # None
         /\ agent' = [agent EXCEPT ![managed[n]].phase = "quitting"]
         /\ agent' \in [Agent -> AgentType] /\ managed' \in [Name -> Agent \cup {None}]
         /\ agent[managed[n]].name = n /\ agent[managed[n]].phase = "running"
         /\ Managed' = Managed \ {n} /\ ManagedServes'
         /\ \A b \in Agent : agent'[b].name = agent[b].name
         /\ \A b \in Agent \ {managed[n]} : agent'[b] = agent[b]
         /\ managed[n] \notin batch
<1>1. /\ managed \in [Name -> Agent \cup {None}] /\ agent \in [Agent -> AgentType] /\ n \in Name
      /\ managed[n] \in Agent /\ managed[n] # None
  BY AgentFacts DEF SharedInv, TypeOK, Managed, SharedAssumption
<1>2. agent[managed[n]].phase = "running" /\ agent[managed[n]].name = n
  BY DEF SharedInv, ManagedServes
<1>3. agent' = [agent EXCEPT ![managed[n]].phase = "quitting"] /\ victim' = managed[n]
      /\ managed' = [managed EXCEPT ![n] = None]
  BY DEF Remove
<1>4. agent' \in [Agent -> AgentType] /\ agent'[managed[n]].phase = "quitting"
      /\ agent'[managed[n]].name = n /\ \A b \in Agent \ {managed[n]} : agent'[b] = agent[b]
  BY <1>1, <1>2, <1>3 DEF AgentType, Present, Unused
<1>5. ManagedServes' /\ Managed' = Managed \ {n}
  BY <1>1, <1>2, <1>3, <1>4 DEF SharedInv, ManagedServes, Managed
<1>6. managed[n] \notin batch
  BY <1>2 DEF SharedInv, BatchInv
<1> QED BY <1>1, <1>2, <1>3, <1>4, <1>5, <1>6

\* The loops of _reconcile and stop() take an agent out.
LEMMA RemoveStep ==
  ASSUME SharedAssumption, SharedInv, NEW n \in todo, n \in Managed, Remove(n), victim = None,
         todo' = todo \ {n}, UNCHANGED <<registry, known, left, pc, desired, batch, life, cancel, budget>>,
         \/ pc \in {"undesired", "changed"}
         \/ life = "draining",
         toStart' = toStart \/ (pc = "changed" /\ toStart' = toStart \cup {n})
  PROVE  SharedInv'
<1>1. /\ managed[n] \in Agent /\ victim' = managed[n] /\ victim' # None
      /\ agent' = [agent EXCEPT ![managed[n]].phase = "quitting"]
      /\ agent' \in [Agent -> AgentType] /\ managed' \in [Name -> Agent \cup {None}]
      /\ agent[managed[n]].name = n /\ agent[managed[n]].phase = "running"
      /\ Managed' = Managed \ {n} /\ ManagedServes'
      /\ \A b \in Agent : agent'[b].name = agent[b].name
      /\ \A b \in Agent \ {managed[n]} : agent'[b] = agent[b]
      /\ managed[n] \notin batch
  BY Removed
<1>2. n \in Name /\ agent'[managed[n]].phase = "quitting" /\ managed' = [managed EXCEPT ![n] = None]
  BY <1>1, AgentFacts DEF SharedInv, Managed, Remove, AgentType, Unused
<1>3. TypeOK'
  BY <1>1, <1>2 DEF SharedInv, TypeOK, AgentType
<1>4. VictimInv' /\ BatchInv' /\ BudgetInv'
  BY <1>1, <1>2 DEF SharedInv, TypeOK, VictimInv, BatchInv, LoopInv, BudgetInv
<1>5. LoopInv'
  BY <1>1 DEF SharedInv, LoopInv
<1>6. Unique'
  BY <1>1 DEF SharedInv, Unique, OneAgentPerName, Present
<1>7. Accounted'
  <2> SUFFICES ASSUME budget["start"] = MaxStartFaults, pc # "ended"
               PROVE  /\ \A a \in Agent : agent'[a].phase \in Present =>
                           a \in batch \/ a = victim' \/ managed'[agent'[a].name] = a
                      /\ pc = "changed" => \A m \in toStart' : managed'[m] = None
    BY DEF Accounted
  <2>1. ASSUME NEW a \in Agent, agent'[a].phase \in Present, a # managed[n]
        PROVE  a \in batch \/ managed'[agent'[a].name] = a
    <3>1. agent'[a] = agent[a] /\ (a \in batch \/ managed[agent[a].name] = a)
      BY <1>1, <2>1 DEF SharedInv, Accounted, SharedAssumption
    <3>2. agent[a].name = n => a \in batch
      BY <2>1, <3>1
    <3> QED BY <1>2, <3>1, <3>2 DEF SharedInv, TypeOK
  <2>2. pc = "changed" => \A m \in toStart' : managed'[m] = None
    BY <1>2 DEF SharedInv, TypeOK, Accounted
  <2> QED BY <1>1, <2>1, <2>2
<1> QED BY <1>1, <1>3, <1>4, <1>5, <1>6, <1>7 DEF SharedInv

\* The two loops of _reconcile.
LEMMA LoopStep ==
  ASSUME SharedAssumption, SharedInv, Undesired \/ \E n \in Name : Compare(n)
  PROVE  SharedInv'
<1>1. ASSUME pc \in {"undesired", "changed"}, victim = None,
             UNCHANGED <<registry, known, managed, agent, left, desired, batch, victim, life, cancel, budget>>,
             pc' = "changed", todo' \subseteq Name, toStart' \subseteq Name,
             \A n \in todo' \cup toStart' : desired[n] # None,
             \A n \in toStart' : managed[n] = None \/ (n \in toStart /\ pc = "changed")
      PROVE  SharedInv'
  <2>1. TypeOK'
    BY <1>1 DEF SharedInv, TypeOK
  <2>2. ManagedServes' /\ VictimInv' /\ BatchInv' /\ LoopInv' /\ BudgetInv'
    BY <1>1 DEF SharedInv, ManagedServes, Managed, VictimInv, BatchInv, LoopInv, BudgetInv
  <2>3. Unique' /\ Accounted'
    BY <1>1 DEF SharedInv, Unique, OneAgentPerName, Accounted
  <2> QED BY <2>1, <2>2, <2>3 DEF SharedInv
<1>2. CASE Undesired
  <2>1. ASSUME NEW n \in todo, Remove(n), todo' = todo \ {n}, UNCHANGED <<pc, desired, toStart, batch>>
        PROVE  SharedInv'
    <3>1. /\ n \in Managed /\ victim = None /\ pc \in {"undesired", "changed"}
          /\ UNCHANGED <<registry, known, left, life, cancel, budget>>
      BY <1>2 DEF Undesired, SharedInv, LoopInv
    <3> QED BY <2>1, <3>1, RemoveStep
  <2>2. ASSUME pc' = "changed", todo' = {n \in Name : desired[n] # None},
               UNCHANGED <<managed, agent, desired, toStart, batch, victim>>
        PROVE  SharedInv'
    <3>1. toStart = {}
      BY <1>2 DEF Undesired, SharedInv, LoopInv
    <3> QED BY <1>1, <1>2, <2>2, <3>1 DEF Undesired
  <2> QED BY <1>2, <2>1, <2>2 DEF Undesired
<1>3. ASSUME NEW n \in Name, Compare(n) PROVE SharedInv'
  <2>1. /\ n \in todo /\ pc = "changed" /\ victim = None /\ todo' = todo \ {n}
        /\ todo \subseteq Name /\ toStart \subseteq Name
        /\ \A m \in todo \cup toStart : desired[m] # None
        /\ UNCHANGED <<registry, known, left, pc, desired, batch, life, cancel, budget>>
    BY <1>3 DEF Compare, SharedInv, TypeOK, LoopInv
  <2>2. CASE Remove(n) /\ toStart' = toStart \cup {n} /\ managed[n] # None
    <3>1. n \in Managed
      BY <2>2 DEF Managed
    <3> QED BY <2>1, <2>2, <3>1, RemoveStep
  <2>3. CASE UNCHANGED <<managed, agent, toStart, victim>>
    BY <1>1, <2>1, <2>3
  <2>4. CASE managed[n] = None /\ toStart' = toStart \cup {n} /\ UNCHANGED <<managed, agent, victim>>
    BY <1>1, <2>1, <2>4
  <2> QED BY <1>3, <2>2, <2>3, <2>4 DEF Compare
<1> QED BY <1>2, <1>3

\* Drain, the loop of stop().
LEMMA DrainStep ==
  ASSUME SharedAssumption, SharedInv, BeginDrain \/ Drain
  PROVE  SharedInv'
<1>1. ASSUME UNCHANGED <<registry, known, managed, agent, left, pc, desired, toStart, batch, victim, cancel, budget>>,
             todo' \subseteq Managed, life' \in {"draining", "stopped"}, pc = "ended",
             victim # None => life' = "draining"
      PROVE  SharedInv'
  <2>1. TypeOK'
    BY <1>1 DEF SharedInv, TypeOK, Managed
  <2>2. ManagedServes' /\ VictimInv' /\ BatchInv' /\ LoopInv' /\ BudgetInv'
    BY <1>1 DEF SharedInv, ManagedServes, Managed, VictimInv, BatchInv, LoopInv, BudgetInv
  <2>3. Unique' /\ Accounted'
    BY <1>1 DEF SharedInv, Unique, OneAgentPerName, Accounted
  <2> QED BY <2>1, <2>2, <2>3 DEF SharedInv
<1>2. CASE BeginDrain
  BY <1>1, <1>2 DEF BeginDrain
<1>3. CASE Drain
  <2>1. pc = "ended" /\ todo \subseteq Managed
    BY <1>3 DEF Drain, SharedInv, LoopInv
  <2>2. ASSUME NEW n \in todo, Remove(n), todo' = todo \ {n}, life' = life PROVE SharedInv'
    <3>1. /\ n \in Managed /\ victim = None /\ life = "draining"
          /\ UNCHANGED <<registry, known, left, pc, desired, toStart, batch, cancel, budget>>
      BY <1>3, <2>1 DEF Drain
    <3> QED BY <2>2, <3>1, RemoveStep
  <2>3. CASE todo = {} /\ life' = "stopped" /\ UNCHANGED <<managed, agent, todo, victim>>
    BY <1>1, <1>3, <2>1, <2>3 DEF Drain
  <2> QED BY <1>3, <2>2, <2>3 DEF Drain
<1> QED BY <1>2, <1>3

-----------------------------------------------------------------------------
(* The start of agents *)

\* Where there is room, every name that is to be started gets an object of its own.
LEMMA SlotExists ==
  ASSUME SharedAssumption, TypeOK, Cardinality(Free) >= Cardinality(toStart)
  PROVE  \E f \in [toStart -> Free] : \A m, n \in toStart : f[m] = f[n] => m = n
<1>1. IsFiniteSet(Free) /\ IsFiniteSet(toStart)
  BY FS_Subset DEF SharedAssumption, TypeOK, Free
<1> DEFINE k == Cardinality(toStart)
           l == Cardinality(Free)
<1>2. k \in Nat /\ l \in Nat /\ k <= l
  BY <1>1, FS_CardinalityType
<1>3. PICK g \in Bijection(1 .. k, toStart) : TRUE
  BY <1>1, FS_CardinalityType DEF ExistsBijection
<1>4. PICK h \in Bijection(1 .. l, Free) : TRUE
  BY <1>1, FS_CardinalityType DEF ExistsBijection
<1>5. \A n \in toStart : \E i \in 1 .. k : g[i] = n
  BY DEF Bijection, Surjection
<1>6. \A i, j \in 1 .. l : h[i] = h[j] => i = j
  BY DEF Bijection, Injection, IsInjective
<1>7. h \in [1 .. l -> Free] /\ 1 .. k \subseteq 1 .. l
  BY <1>2 DEF Bijection, Injection
<1> DEFINE place(n) == CHOOSE i \in 1 .. k : g[i] = n
           f == [n \in toStart |-> h[place(n)]]
<1>8. \A n \in toStart : place(n) \in 1 .. k /\ g[place(n)] = n
  BY <1>5
<1> HIDE DEF place
<1>9. f \in [toStart -> Free]
  BY <1>7, <1>8
<1>10. \A m, n \in toStart : f[m] = f[n] => m = n
  BY <1>6, <1>7, <1>8
<1> QED BY <1>9, <1>10

\* gather starts the missing agents in free objects, each under its name.
LEMMA GatherStep ==
  ASSUME SharedAssumption, SharedInv, Gather
  PROVE  SharedInv'
<1>1. pc = "changed" /\ victim = None /\ todo = {} /\ batch = {} /\ life \notin {"draining", "stopped", "failed"}
  BY DEF Gather, SharedInv, TypeOK, LoopInv
<1>2. CASE toStart = {} /\ Reconciled /\ UNCHANGED <<agent, batch>>
  <2>1. TypeOK'
    BY <1>1, <1>2 DEF Gather, Reconciled, SharedInv, TypeOK
  <2>2. ManagedServes' /\ VictimInv' /\ BatchInv' /\ LoopInv' /\ BudgetInv'
    BY <1>1, <1>2 DEF Gather, Reconciled, SharedInv, ManagedServes, Managed, VictimInv, BatchInv, LoopInv,
       BudgetInv
  <2>3. Unique' /\ Accounted'
    BY <1>1, <1>2 DEF Gather, Reconciled, SharedInv, Unique, OneAgentPerName, Accounted
  <2> QED BY <2>1, <2>2, <2>3 DEF SharedInv
<1>3. CASE toStart # {} /\ ~(toStart = {} /\ Reconciled /\ UNCHANGED <<agent, batch>>)
  <2> DEFINE Wanted(f) == \A m, n \in toStart : f[m] = f[n] => m = n
             slot == CHOOSE f \in [toStart -> Free] : Wanted(f)
             Holder(a) == CHOOSE m \in toStart : slot[m] = a
             Taken == {slot[n] : n \in toStart}
             New(n) == [phase |-> "provision", name |-> n, version |-> desired[n]]
  <2>1. slot \in [toStart -> Free]
    <3>1. \E f \in [toStart -> Free] : Wanted(f)
      BY <1>3, SlotExists DEF Gather, SharedInv
    <3> QED BY <3>1
  <2>2. /\ batch' = Taken /\ pc' = "gather" /\ UNCHANGED <<life, managed, left, desired, todo, toStart, victim, budget>>
        /\ agent' = [a \in Agent |-> IF a \in Taken THEN New(Holder(a)) ELSE agent[a]]
    <3>1. /\ batch' = Taken /\ pc' = "gather"
          /\ UNCHANGED <<life, managed, left, desired, todo, toStart, victim, budget>>
          /\ agent' = [a \in Agent |-> IF \E n \in toStart : slot[n] = a THEN New(Holder(a)) ELSE agent[a]]
      BY <1>3 DEF Gather
    <3>2. \A a \in Agent : (\E n \in toStart : slot[n] = a) <=> a \in Taken
      OBVIOUS
    <3> QED BY <3>1, <3>2
  <2>3. \A a \in Taken : Holder(a) \in toStart /\ slot[Holder(a)] = a
    OBVIOUS
  <2> HIDE DEF slot, Holder
  <2>4. Taken \subseteq Agent /\ Taken # {} /\ \A a \in Taken : agent[a].phase = "free"
    BY <1>3, <2>1 DEF Free
  <2> HIDE DEF Taken
  <2>5. agent \in [Agent -> AgentType] /\ toStart \subseteq Name
        /\ \A n \in toStart : desired[n] \in Version
    BY <1>1, AgentFacts DEF SharedInv, TypeOK, LoopInv
  <2>6. \A a \in Taken : /\ agent'[a] = New(Holder(a)) /\ New(Holder(a)) \in AgentType
                         /\ agent'[a].phase = "provision" /\ agent'[a].name = Holder(a)
    BY <2>2, <2>3, <2>4, <2>5 DEF AgentType, Present
  <2>7. \A a \in Agent \ Taken : agent'[a] = agent[a]
    BY <2>2
  <2>8. agent' \in [Agent -> AgentType]
    BY <2>2, <2>3, <2>5, <2>6, <2>7
  <2>9. TypeOK'
    BY <1>1, <2>2, <2>4, <2>8 DEF Gather, SharedInv, TypeOK, AgentType
  <2>10. ManagedServes'
    BY <2>2, <2>4, <2>7 DEF SharedInv, TypeOK, ManagedServes, Managed
  <2>11. VictimInv' /\ BatchInv' /\ LoopInv' /\ BudgetInv'
    BY <1>1, <2>2, <2>6 DEF SharedInv, VictimInv, BatchInv, LoopInv, BudgetInv
  <2>12. budget["start"] = MaxStartFaults =>
           \A b \in Agent \ Taken : agent[b].phase \in Present => agent[b].name \notin toStart
    BY <1>1 DEF SharedInv, Accounted, SharedAssumption, Present
  <2>13. Accounted'
    BY <1>1, <2>2, <2>7 DEF SharedInv, Accounted
  <2>14. Unique'
    <3> SUFFICES ASSUME budget["start"] = MaxStartFaults, NEW a \in Agent, NEW b \in Agent,
                        agent'[a].phase \in Present, agent'[b].phase \in Present,
                        agent'[a].name = agent'[b].name
                 PROVE  a = b
      BY <2>2 DEF Unique, OneAgentPerName
    <3>1. CASE a \in Taken /\ b \in Taken
      <4>1. Holder(a) = Holder(b)
        BY <2>6, <3>1
      <4> QED BY <2>3, <3>1, <4>1
    <3>2. CASE a \in Taken /\ b \notin Taken
      <4>1. agent'[b] = agent[b] /\ agent[b].name \notin toStart
        BY <2>7, <2>12, <3>2
      <4>2. agent'[a].name \in toStart
        BY <2>3, <2>6, <3>2
      <4> QED BY <4>1, <4>2
    <3>3. CASE a \notin Taken /\ b \in Taken
      <4>1. agent'[a] = agent[a] /\ agent[a].name \notin toStart
        BY <2>7, <2>12, <3>3
      <4>2. agent'[b].name \in toStart
        BY <2>3, <2>6, <3>3
      <4> QED BY <4>1, <4>2
    <3>4. CASE a \notin Taken /\ b \notin Taken
      BY <2>7, <3>4 DEF SharedInv, Unique, OneAgentPerName
    <3> QED BY <3>1, <3>2, <3>3, <3>4
  <2> QED BY <2>9, <2>10, <2>11, <2>13, <2>14 DEF SharedInv
<1> QED BY <1>2, <1>3 DEF Gather

\* The object of an agent changes its phase, keeps its name and becomes no managed one.
LEMMA PhaseStep ==
  ASSUME SharedInv, NEW a \in Agent, NEW x \in AgentType, agent' = [agent EXCEPT ![a] = x],
         x = Unused \/ x.name = agent[a].name, agent[a].phase \notin {"free", "running"},
         UNCHANGED managed
  PROVE  /\ ManagedServes' /\ agent' \in [Agent -> AgentType] /\ agent'[a] = x
         /\ \A b \in Agent \ {a} : agent'[b] = agent[b]
         /\ agent[a].phase \in Present
<1>1. agent \in [Agent -> AgentType] /\ managed \in [Name -> Agent \cup {None}]
  BY AgentFacts DEF SharedInv, TypeOK
<1>2. agent' \in [Agent -> AgentType] /\ agent'[a] = x /\ \A b \in Agent \ {a} : agent'[b] = agent[b]
  BY <1>1
<1>3. ManagedServes'
  BY <1>1, <1>2 DEF SharedInv, ManagedServes, Managed
<1>4. agent[a].phase \in Present
  BY <1>1 DEF AgentType, Unused, Present
<1> QED BY <1>2, <1>3, <1>4

\* The start of an agent goes on, or ends early.
LEMMA StartStep ==
  ASSUME SharedAssumption, SharedInv, NEW a \in Agent, Provisioned(a) \/ Started(a) \/ StartFails(a)
  PROVE  SharedInv'
<1>1. /\ agent[a].phase \in {"provision", "joining"} /\ a # victim
      /\ agent[a].name \in Name /\ agent \in [Agent -> AgentType]
      /\ agent[a] \in [phase : Present,
                       name : Name, version : Version]
      /\ managed \in [Name -> Agent \cup {None}] /\ \A n \in Name : managed[n] # a
  <2>1. agent[a].phase \in {"provision", "joining"}
    BY DEF Provisioned, Started, StartFails
  <2>2. a # victim
    BY <2>1 DEF SharedInv, VictimInv, SharedAssumption
  <2>3. \A n \in Name : managed[n] # a
    BY <2>1 DEF SharedInv, ManagedServes, Managed, SharedAssumption
  <2> QED BY <2>1, <2>2, <2>3, AgentFacts DEF SharedInv, TypeOK
<1>2. CASE Provisioned(a)
  <2> DEFINE x == [agent[a] EXCEPT !.phase = "joining"]
  <2>1. x \in AgentType /\ x.name = agent[a].name /\ x.phase = "joining"
    BY <1>1 DEF AgentType, Present
  <2>2. agent' = [agent EXCEPT ![a] = x]
    BY <1>1, <1>2 DEF Provisioned
  <2>3. UNCHANGED <<registry, known, managed, left, pc, locals, life, cancel, budget>>
    BY <1>2 DEF Provisioned
  <2> HIDE DEF x
  <2>4. /\ ManagedServes' /\ agent' \in [Agent -> AgentType] /\ agent'[a] = x
        /\ \A b \in Agent \ {a} : agent'[b] = agent[b]
    BY <1>1, <2>1, <2>2, <2>3, PhaseStep
  <2>5. TypeOK'
    BY <2>3, <2>4 DEF SharedInv, TypeOK, AgentType, locals
  <2>6. VictimInv' /\ BatchInv' /\ LoopInv' /\ BudgetInv'
    BY <1>1, <2>1, <2>3, <2>4 DEF SharedInv, TypeOK, VictimInv, BatchInv, LoopInv, Managed, BudgetInv, locals
  <2>7. Accounted' /\ Unique'
    <3>1. \A b \in Agent : agent'[b].name = agent[b].name
                           /\ (agent'[b].phase \in Present => agent[b].phase \in Present)
      BY <1>1, <2>1, <2>4 DEF Present
    <3> QED BY <2>3, <3>1 DEF SharedInv, Accounted, Unique, OneAgentPerName, locals
  <2> QED BY <2>4, <2>5, <2>6, <2>7 DEF SharedInv
<1>3. CASE Started(a)
  <2>1. /\ agent' = [agent EXCEPT ![a].phase = "running"] /\ managed' = [managed EXCEPT ![agent[a].name] = a]
        /\ batch' = batch \ {a} /\ UNCHANGED <<registry, known, left, desired, todo, toStart, victim, budget>>
        /\ (batch = {a} /\ pc' = "wait" /\ life' = IF life = "starting" THEN "running" ELSE life)
           \/ (batch # {a} /\ UNCHANGED <<pc, life>>)
        /\ cancel' = cancel
    BY <1>3 DEF Started, Reconciled
  <2>2. /\ agent' \in [Agent -> AgentType] /\ agent'[a].phase = "running" /\ agent'[a].name = agent[a].name
        /\ \A b \in Agent \ {a} : agent'[b] = agent[b]
    BY <1>1, <2>1 DEF AgentType, Present
  <2>3. /\ managed' \in [Name -> Agent \cup {None}] /\ managed'[agent[a].name] = a
        /\ \A n \in Name \ {agent[a].name} : managed'[n] = managed[n]
        /\ Managed \subseteq Managed'
    BY <1>1, <2>1 DEF Managed, SharedAssumption
  <2>4. batch = {a} => pc = "gather"
    BY DEF SharedInv, TypeOK
  <2>5. TypeOK'
    BY <2>1, <2>2, <2>3, <2>4 DEF SharedInv, TypeOK, AgentType
  <2>6. ManagedServes'
    BY <1>1, <2>2, <2>3 DEF SharedInv, ManagedServes, Managed
  <2>7. VictimInv' /\ BatchInv' /\ LoopInv' /\ BudgetInv'
    <3>1. VictimInv'
      BY <1>1, <2>1, <2>2, <2>4 DEF SharedInv, TypeOK, VictimInv
    <3>2. BatchInv'
      BY <2>1, <2>2 DEF SharedInv, TypeOK, BatchInv
    <3>3. LoopInv' /\ BudgetInv'
      BY <2>1, <2>3, <2>4 DEF SharedInv, LoopInv, BudgetInv
    <3> QED BY <3>1, <3>2, <3>3
  <2>8. Unique'
    BY <1>1, <2>1, <2>2 DEF SharedInv, Unique, OneAgentPerName, Present
  <2>9. Accounted'
    <3> SUFFICES ASSUME budget["start"] = MaxStartFaults, pc' # "ended"
                 PROVE  /\ \A b \in Agent : agent'[b].phase \in Present =>
                             b \in batch' \/ b = victim \/ managed'[agent'[b].name] = b
                        /\ pc' # "changed"
      BY <2>1 DEF Accounted
    <3>1. pc # "ended"
      BY <2>1, <2>4
    <3>2. a \in batch /\ pc = "gather"
      BY <1>1, <3>1 DEF SharedInv, Accounted, TypeOK, Present
    <3>3. ASSUME NEW b \in Agent \ {a}, agent'[b].phase \in Present
          PROVE  b \in batch' \/ b = victim \/ managed'[agent'[b].name] = b
      <4>1. agent'[b] = agent[b] /\ (b \in batch \/ b = victim \/ managed[agent[b].name] = b)
        BY <2>2, <3>1, <3>3 DEF SharedInv, Accounted
      <4>2. agent[b].name # agent[a].name
        BY <1>1, <3>3, <4>1 DEF SharedInv, Unique, OneAgentPerName, Present
      <4>3. agent[b].name \in Name
        BY <3>3, <4>1, AgentFacts DEF SharedInv, Present
      <4> QED BY <2>1, <2>3, <4>1, <4>2, <4>3
    <3> QED BY <2>1, <2>2, <2>3, <3>2, <3>3
  <2> QED BY <2>5, <2>6, <2>7, <2>8, <2>9 DEF SharedInv
<1>4. CASE StartFails(a)
  <2>1. /\ agent' = [agent EXCEPT ![a] = Unused] /\ budget["start"] > 0
        /\ UNCHANGED left \/ LeaveBehind({agent[a].name})
        /\ budget' = [budget EXCEPT !["start"] = @ - 1]
        /\ UNCHANGED <<registry, known, managed, desired, todo, toStart, victim, life, cancel>>
        /\ (a \in batch /\ pc' = "wait" /\ batch' = {}) \/ (a \notin batch /\ UNCHANGED <<pc, batch>>)
    BY <1>4 DEF StartFails, Spend
  <2>2. Unused \in AgentType /\ left' \in [Name -> Nat]
    BY <2>1 DEF AgentType, LeaveBehind, SharedInv, TypeOK
  <2>3. /\ ManagedServes' /\ agent' \in [Agent -> AgentType]
        /\ \A b \in Agent \ {a} : agent'[b] = agent[b]
    BY <1>1, <2>1, <2>2, PhaseStep
  <2>4. budget' \in [{"edit", "outage", "start", "stop"} -> Nat] /\ budget'["start"] = budget["start"] - 1
        /\ budget["start"] \in Nat
    BY <2>1 DEF SharedInv, TypeOK
  <2>5. a \in batch => pc = "gather"
    BY DEF SharedInv, TypeOK
  <2>6. TypeOK'
    BY <2>1, <2>2, <2>3, <2>4, <2>5 DEF SharedInv, TypeOK, AgentType
  <2>7. budget'["start"] < MaxStartFaults /\ MaxStartFaults \in Nat
    BY <2>4 DEF SharedInv, BudgetInv, SharedAssumption
  <2>8. BudgetInv' /\ Accounted' /\ Unique'
    BY <2>4, <2>7 DEF BudgetInv, Accounted, Unique
  <2>9. VictimInv' /\ BatchInv' /\ LoopInv'
    BY <1>1, <2>1, <2>3, <2>5 DEF SharedInv, TypeOK, VictimInv, BatchInv, LoopInv, Managed
  <2> QED BY <2>3, <2>6, <2>8, <2>9 DEF SharedInv
<1> QED BY <1>2, <1>3, <1>4

-----------------------------------------------------------------------------
(* The stop of agents and of the service *)

\* The agent whose stop is awaited goes on to its end, or is left with it.
LEMMA VictimStep ==
  ASSUME SharedAssumption, SharedInv, AgentStop \/ QuitFails \/ CancelSwallowed \/ CancelAborts
  PROVE  SharedInv'
<1>1. /\ victim \in Agent /\ victim # None /\ agent[victim].phase \in {"quitting", "leaving", "closing"}
      /\ agent[victim] \in [phase : Present, name : Name, version : Version]
      /\ victim \notin batch /\ batch = {}
      /\ pc \in {"undesired", "changed"} \/ (pc = "ended" /\ life = "draining")
  <2>1. victim # None
    BY DEF AgentStop, Unpublished, ConsumerStopped, StopGoesOn, Quit, QuitFails, CancelSwallowed, CancelAborts
  <2>2. /\ agent[victim].phase \in {"quitting", "leaving", "closing"} /\ victim \in Agent
        /\ pc \in {"undesired", "changed"} \/ (pc = "ended" /\ life = "draining")
    BY <2>1 DEF SharedInv, VictimInv, TypeOK
  <2>3. batch = {}
    BY <2>2 DEF SharedInv, TypeOK
  <2> QED BY <2>1, <2>2, <2>3, AgentFacts DEF SharedInv
<1> DEFINE x == agent'[victim]
<1>2. /\ agent' = [agent EXCEPT ![victim] = x] /\ x \in AgentType
      /\ x = Unused \/ (x.name = agent[victim].name /\ x.phase \in {"quitting", "leaving", "closing"})
      /\ UNCHANGED managed
  <2>1. /\ DOMAIN agent = Agent /\ agent \in [Agent -> AgentType]
        /\ {"quitting", "leaving", "closing"} \subseteq Present
    BY AgentFacts DEF SharedInv, TypeOK, Present
  <2>2. ASSUME NEW to \in {"leaving", "closing"}, agent' = [agent EXCEPT ![victim].phase = to], UNCHANGED managed
        PROVE  /\ agent' = [agent EXCEPT ![victim] = x] /\ x \in AgentType
               /\ x.name = agent[victim].name /\ x.phase = to
    BY <1>1, <2>1, <2>2 DEF AgentType
  <2>3. CASE Unpublished \/ ConsumerStopped
    BY <2>2, <2>3 DEF Unpublished, ConsumerStopped, StopGoesOn
  <2>4. CASE Quit \/ QuitFails \/ CancelAborts
    BY <1>1, <2>1, <2>4 DEF Quit, QuitFails, CancelAborts, StopEnds, AgentType
  <2>5. CASE CancelSwallowed
    <3>1. CASE UNCHANGED agent
      BY <1>1, <2>1, <2>5, <3>1 DEF CancelSwallowed
    <3>2. CASE agent' = [agent EXCEPT ![victim].phase = "closing"]
      BY <2>2, <2>5, <3>2 DEF CancelSwallowed
    <3> QED BY <2>5, <3>1, <3>2 DEF CancelSwallowed
  <2> QED BY <2>3, <2>4, <2>5 DEF AgentStop
<1> HIDE DEF x
<1>3. /\ ManagedServes' /\ agent' \in [Agent -> AgentType] /\ agent'[victim] = x
      /\ \A b \in Agent \ {victim} : agent'[b] = agent[b]
  <2>1. agent[victim].phase \notin {"free", "running"}
    BY <1>1
  <2> QED BY <1>1, <1>2, <2>1, PhaseStep
<1>a. left' \in [Name -> Nat]
  <2>1. left \in [Name -> Nat]
    BY DEF SharedInv, TypeOK
  <2> QED BY <2>1 DEF AgentStop, Unpublished, ConsumerStopped, StopGoesOn, Quit, QuitFails, CancelSwallowed,
             CancelAborts, LeaveBehind
<1>4. /\ UNCHANGED <<registry, known, managed, desired, todo, toStart, batch>>
      /\ budget' = budget \/ (budget["stop"] > 0 /\ budget' = [budget EXCEPT !["stop"] = @ - 1])
      /\ \/ victim' = victim /\ x # Unused /\ UNCHANGED <<pc, life>>
         \/ victim' = None /\ x = Unused /\ UNCHANGED <<pc, life>>
         \/ victim' = None /\ x = Unused /\ pc' = pc /\ life = "draining" /\ life' = "failed"
         \/ victim' = None /\ x = Unused /\ pc' = "wait" /\ life' = life /\ life # "draining"
         \/ victim' = None /\ x = Unused /\ pc' = "ended" /\ life' = life
      /\ cancel' \in BOOLEAN
  <2>1. /\ DOMAIN agent = Agent /\ cancel \in BOOLEAN /\ Unused.phase = "free"
        /\ "free" \notin {"quitting", "leaving", "closing"}
    BY DEF SharedInv, TypeOK, Unused
  <2>2. CASE Unpublished \/ ConsumerStopped
    <3>1. x.phase \in {"leaving", "closing"}
      BY <1>1, <2>1, <2>2 DEF Unpublished, ConsumerStopped, StopGoesOn, x
    <3> QED BY <2>1, <2>2, <3>1 DEF Unpublished, ConsumerStopped, StopGoesOn, locals
  <2>3. CASE Quit
    BY <1>1, <2>1, <2>3 DEF Quit, StopEnds, x
  <2>4. CASE QuitFails
    BY <1>1, <2>1, <2>4 DEF QuitFails, StopEnds, Spend, x
  <2>5. CASE CancelAborts
    BY <1>1, <2>1, <2>5 DEF CancelAborts, Ended, x
  <2>6. CASE CancelSwallowed
    <3>1. x.phase \in {"quitting", "closing"}
      BY <1>1, <2>1, <2>6 DEF CancelSwallowed, x
    <3> QED BY <2>1, <2>6, <3>1 DEF CancelSwallowed, locals
  <2> QED BY <2>2, <2>3, <2>4, <2>5, <2>6 DEF AgentStop
<1>5. /\ budget' \in [{"edit", "outage", "start", "stop"} -> Nat]
      /\ budget'["start"] = budget["start"]
  BY <1>4 DEF SharedInv, TypeOK
<1>6. TypeOK'
  BY <1>1, <1>3, <1>a, <1>4, <1>5 DEF SharedInv, TypeOK, AgentType
<1>7. VictimInv' /\ BatchInv' /\ LoopInv' /\ BudgetInv'
  BY <1>1, <1>2, <1>3, <1>4, <1>5 DEF SharedInv, VictimInv, BatchInv, LoopInv, Managed, BudgetInv
<1>8. ASSUME NEW b \in Agent, agent'[b].phase \in Present
      PROVE  agent[b].phase \in Present /\ agent'[b].name = agent[b].name /\ (b = victim => x # Unused)
  BY <1>1, <1>2, <1>3, <1>8 DEF Present, Unused
<1>9. Unique'
  BY <1>5, <1>8 DEF SharedInv, Unique, OneAgentPerName
<1>10. Accounted'
  <2>1. pc' # "ended" => pc # "ended" /\ (victim' = victim \/ x = Unused) /\ pc' \in {pc, "wait"}
    BY <1>1, <1>4
  <2> QED BY <1>4, <1>5, <1>8, <2>1 DEF SharedInv, Accounted
<1> QED BY <1>3, <1>6, <1>7, <1>9, <1>10 DEF SharedInv

\* stop() is called, the loop ends, or the cancellation reaches what gather waits for.
LEMMA StopStep ==
  ASSUME SharedAssumption, SharedInv, Stop \/ LoopEnds \/ CancelStarts
  PROVE  SharedInv'
<1>1. CASE Stop
  <2>1. /\ life = "running" /\ life' = "stopping" /\ cancel' = TRUE
        /\ UNCHANGED <<registry, known, managed, agent, left, pc, desired, todo, toStart, batch, victim, budget>>
    BY <1>1 DEF Stop, locals
  <2>2. TypeOK'
    BY <2>1 DEF SharedInv, TypeOK
  <2> QED BY <2>1, <2>2 DEF SharedInv, ManagedServes, Managed, VictimInv, BatchInv, LoopInv, BudgetInv,
             Accounted, Unique, OneAgentPerName
<1>2. CASE LoopEnds
  <2>1. /\ pc = "wait" /\ pc' = "ended" /\ cancel' = FALSE /\ life = "stopping"
        /\ UNCHANGED <<registry, known, managed, agent, left, desired, todo, toStart, batch, victim, life, budget>>
    BY <1>2 DEF LoopEnds, Ended, locals
  <2>2. TypeOK'
    BY <2>1 DEF SharedInv, TypeOK
  <2> QED BY <2>1, <2>2 DEF SharedInv, ManagedServes, Managed, VictimInv, BatchInv, LoopInv, BudgetInv,
             Accounted, Unique, OneAgentPerName
<1>3. CASE CancelStarts
  <2>1. /\ pc = "gather" /\ pc' = "ended" /\ cancel' = FALSE /\ batch' = {}
        /\ agent' = [a \in Agent |-> IF a \in batch THEN Unused ELSE agent[a]]
        /\ UNCHANGED <<registry, known, managed, desired, todo, toStart, victim, life, budget>>
    BY <1>3 DEF CancelStarts, Ended
  <2>2. agent \in [Agent -> AgentType] /\ managed \in [Name -> Agent \cup {None}]
    BY AgentFacts DEF SharedInv, TypeOK
  <2>3. Unused \in AgentType /\ Unused.phase \notin Present /\ left' \in [Name -> Nat]
    BY <1>3 DEF SharedInv, TypeOK, CancelStarts, LeaveBehind, AgentType, Unused, Present
  <2>4. agent' \in [Agent -> AgentType]
    BY <2>1, <2>2, <2>3
  <2>5. \A a \in Agent : agent'[a].phase \in Present => agent'[a] = agent[a]
    BY <2>1, <2>3
  <2>6. TypeOK'
    BY <2>1, <2>3, <2>4 DEF SharedInv, TypeOK, AgentType
  <2>7. ManagedServes'
    <3>1. \A n \in Managed : managed[n] \notin batch
      BY DEF SharedInv, ManagedServes, BatchInv
    <3> QED BY <2>1, <2>2, <3>1 DEF SharedInv, ManagedServes, Managed
  <2>8. VictimInv' /\ BatchInv' /\ LoopInv' /\ BudgetInv'
    BY <2>1 DEF SharedInv, VictimInv, BatchInv, LoopInv, Managed, BudgetInv
  <2>9. Unique' /\ Accounted'
    BY <2>1, <2>5 DEF SharedInv, Unique, OneAgentPerName, Accounted
  <2> QED BY <2>6, <2>7, <2>8, <2>9 DEF SharedInv
<1> QED BY <1>1, <1>2, <1>3

-----------------------------------------------------------------------------
(* The invariant *)

\* Before the first poll there is no agent and nothing is awaited.
LEMMA SharedInit == SharedAssumption /\ Init => SharedInv
<1> SUFFICES ASSUME SharedAssumption, Init PROVE SharedInv
  OBVIOUS
<1>1. Managed = {} /\ agent = [a \in Agent |-> Unused] /\ Unused.phase = "free"
  BY DEF Init, Managed, Nothing, Unused
<1>2. TypeOK
  <2>1. {registry, known, desired} \subseteq [Name -> Version \cup {None}]
    BY DEF Init, Nothing
  <2>2. managed \in [Name -> Agent \cup {None}]
    BY DEF Init, Nothing
  <2>3. budget \in [{"edit", "outage", "start", "stop"} -> Nat]
    BY DEF Init, SharedAssumption
  <2> QED BY <1>1, <2>1, <2>2, <2>3 DEF Init, TypeOK
<1>3. ManagedServes /\ VictimInv /\ BatchInv /\ LoopInv
  BY <1>1 DEF Init, ManagedServes, VictimInv, BatchInv, LoopInv
<1>4. BudgetInv /\ Accounted /\ Unique
  BY <1>1 DEF Init, BudgetInv, Accounted, Unique, OneAgentPerName, Present, SharedAssumption
<1> QED BY <1>2, <1>3, <1>4 DEF SharedInv

\* Every step of the shared runtime keeps the invariant.
LEMMA SharedNext == SharedAssumption /\ SharedInv /\ [Next]_vars => SharedInv'
<1> SUFFICES ASSUME SharedAssumption, SharedInv, [Next]_vars PROVE SharedInv'
  OBVIOUS
<1>1. CASE UNCHANGED vars
  <2>1. TypeOK'
    BY <1>1 DEF vars, SharedInv, TypeOK
  <2> QED BY <1>1, <2>1, IdleStep DEF vars
<1>2. ASSUME Next PROVE SharedInv'
  BY <1>2, EditStep, PollStep, LoopStep, GatherStep, StartStep, VictimStep, StopStep, DrainStep
     DEF Next, Loop, Ending
<1> QED BY <1>1, <1>2

\* The inductive invariant.
THEOREM SharedIsSound == Spec => []SharedInv
<1>1. SharedAssumption
  BY SharedAssumption
<1>2. Init => SharedInv
  BY <1>1, SharedInit
<1>3. SharedInv /\ [Next]_vars => SharedInv'
  BY <1>1, SharedNext
<1> QED BY <1>2, <1>3, PTL DEF Spec

\* A local delegation that finds an agent in _managed finds one that has started and
\* is not being stopped.
THEOREM ManagedAgentsServe == Spec => []ManagedServes
<1>1. SharedInv => ManagedServes
  BY DEF SharedInv
<1> QED BY <1>1, SharedIsSound, PTL

-----------------------------------------------------------------------------
(* Outages *)

\* A reconciliation works on the last list received.
ListInv == pc \in {"undesired", "changed"} => desired = known

\* A reconciliation's loops work on the last list received: only a poll that
\* brought a list, and starts them, replaces it.
LEMMA ListStep ==
  ASSUME ListInv, [Next]_vars
  PROVE  ListInv'
<1>1. CASE Answered \/ Malformed \/ Unreachable
  BY <1>1 DEF Answered, Malformed, Unreachable, Polls, Reconcile, ListInv, locals
<1>2. CASE Undesired \/ (\E n \in Name : Compare(n)) \/ Gather
  BY <1>2 DEF Undesired, Compare, Gather, Reconciled, ListInv
<1>3. ASSUME NEW a \in Agent, Provisioned(a) \/ Started(a) \/ StartFails(a) PROVE ListInv'
  BY <1>3 DEF Provisioned, Started, StartFails, Reconciled, ListInv, locals
<1>4. CASE AgentStop \/ QuitFails \/ CancelAborts \/ CancelSwallowed
  BY <1>4 DEF AgentStop, Unpublished, ConsumerStopped, StopGoesOn, Quit, QuitFails, StopEnds, CancelAborts, CancelSwallowed, Ended, ListInv, locals
<1>5. CASE Stop \/ LoopEnds \/ CancelStarts \/ BeginDrain \/ Drain
  BY <1>5 DEF Stop, LoopEnds, CancelStarts, BeginDrain, Drain, Ended, ListInv, locals
<1>6. CASE UNCHANGED vars \/ \E n \in Name, v \in Version \cup {None} : Edit(n, v)
  BY <1>6 DEF vars, Edit, ListInv, locals
<1> QED BY <1>1, <1>2, <1>3, <1>4, <1>5, <1>6 DEF Next, Loop, Ending

\* What a step takes out of _managed is not in the last list received, or there in
\* another version, or the service is being stopped.
LEMMA RemovedIsUnlisted ==
  ASSUME SharedAssumption, SharedInv, ListInv, [Next]_vars, NEW n \in Managed, managed'[n] = None
  PROVE  life = "draining" \/ known[n] # agent[managed[n]].version
<1>1. /\ managed \in [Name -> Agent \cup {None}] /\ n \in Name /\ managed[n] # None /\ managed[n] \in Agent
      /\ agent[managed[n]].version # None
  <2>1. n \in Name /\ managed[n] \in Agent /\ managed[n] # None /\ agent[managed[n]].phase = "running"
        /\ managed \in [Name -> Agent \cup {None}]
    BY DEF SharedInv, TypeOK, ManagedServes, Managed
  <2>2. agent[managed[n]].version \in Version
    BY <2>1, AgentFacts DEF SharedInv
  <2> QED BY <2>1, <2>2 DEF SharedAssumption
<1>2. managed' # managed
  BY <1>1
<1>3. ASSUME NEW m \in Name, Remove(m) PROVE n = m
  BY <1>1, <1>3 DEF Remove
<1>4. ASSUME NEW a \in Agent, Started(a) PROVE FALSE
  BY <1>1, <1>4 DEF Started, SharedAssumption
<1>5. CASE Undesired
  <2>1. PICK m \in todo : desired[m] = None /\ Remove(m) /\ m \in Name
    BY <1>2, <1>5 DEF Undesired, SharedInv, TypeOK
  <2>2. desired = known
    BY <1>5 DEF Undesired, ListInv
  <2> QED BY <1>1, <1>3, <2>1, <2>2
<1>6. ASSUME NEW m \in Name, Compare(m) PROVE known[n] # agent[managed[n]].version
  <2>1. Remove(m) /\ agent[managed[m]].version # desired[m] /\ desired = known
    BY <1>2, <1>6 DEF Compare, ListInv
  <2> QED BY <1>3, <2>1
<1>7. CASE Drain
  BY <1>7 DEF Drain
<1>8. CASE \/ UNCHANGED vars \/ Answered \/ Malformed \/ Unreachable \/ Gather
           \/ (\E m \in Name, v \in Version \cup {None} : Edit(m, v))
           \/ (\E a \in Agent : Provisioned(a) \/ StartFails(a))
           \/ AgentStop \/ QuitFails \/ CancelAborts \/ CancelSwallowed
           \/ Stop \/ LoopEnds \/ CancelStarts \/ BeginDrain
  BY <1>2, <1>8 DEF vars, Answered, Malformed, Unreachable, Reconcile, Gather, Edit, Provisioned, StartFails,
     AgentStop, Unpublished, ConsumerStopped, StopGoesOn, Quit, QuitFails, StopEnds, CancelAborts,
     CancelSwallowed, Stop, LoopEnds, CancelStarts, BeginDrain
<1> QED BY <1>4, <1>5, <1>6, <1>7, <1>8 DEF Next, Loop, Ending

\* While the control plane is out no agent is stopped for it: the loop takes out only
\* what the last list received does not have, or has in another version (_load_registry).
THEOREM OutagesStopNobody == Spec => OutageStopsNobody
<1>1. Init => ListInv
  BY DEF Init, ListInv
<1>2. ListInv /\ [Next]_vars => ListInv'
  BY ListStep
<1>3. SharedInv /\ ListInv /\ [Next]_vars =>
        [\A n \in Managed :
           managed'[n] = None => life = "draining" \/ known[n] # agent[managed[n]].version]_vars
  BY SharedAssumption, RemovedIsUnlisted
<1> QED BY <1>1, <1>2, <1>3, SharedIsSound, PTL DEF Spec, OutageStopsNobody

-----------------------------------------------------------------------------
(* What a stop and a cancellation leave behind *)

\* A cancellation is under way to a loop that has not ended, and only stop() ends it.
CancelInv ==
  /\ cancel => life = "stopping" /\ pc # "ended"
  /\ pc = "ended" => life \in {"stopping", "draining", "stopped", "failed"}

\* A cancellation is sent by stop() and received by the end of the loop.
LEMMA CancelStep == SharedInv /\ CancelInv /\ [Next]_vars => CancelInv'
<1> SUFFICES ASSUME SharedInv, CancelInv, [Next]_vars PROVE CancelInv'
  OBVIOUS
<1>1. CASE Answered \/ Malformed \/ Unreachable
  BY <1>1 DEF Answered, Malformed, Unreachable, Polls, Reconcile, CancelInv, locals
<1>2. CASE Undesired \/ \E n \in Name : Compare(n)
  BY <1>2 DEF Undesired, Compare, CancelInv
<1>3. CASE Gather
  BY <1>3 DEF Gather, Reconciled, CancelInv
<1>4. ASSUME NEW a \in Agent, Provisioned(a) \/ Started(a) \/ StartFails(a) PROVE CancelInv'
  <2>1. batch # {} => pc = "gather"
    BY DEF SharedInv, TypeOK
  <2> QED BY <1>4, <2>1 DEF Provisioned, Started, StartFails, Reconciled, CancelInv, locals
<1>5. CASE AgentStop \/ QuitFails \/ CancelAborts \/ CancelSwallowed
  <2>1. victim # None => pc \in {"undesired", "changed"} \/ (pc = "ended" /\ life = "draining")
    BY DEF SharedInv, VictimInv
  <2> QED
    BY <1>5, <2>1 DEF AgentStop, Unpublished, ConsumerStopped, StopGoesOn, Quit, QuitFails, StopEnds, CancelAborts, CancelSwallowed, Ended, CancelInv,
       locals
<1>6. CASE Stop
  BY <1>6 DEF Stop, CancelInv
<1>7. CASE LoopEnds \/ CancelStarts \/ BeginDrain \/ Drain
  BY <1>7 DEF LoopEnds, CancelStarts, BeginDrain, Drain, Ended, CancelInv
<1>8. CASE UNCHANGED vars \/ \E n \in Name, v \in Version \cup {None} : Edit(n, v)
  BY <1>8 DEF vars, Edit, CancelInv, locals
<1> QED BY <1>1, <1>2, <1>3, <1>4, <1>5, <1>6, <1>7, <1>8 DEF Next, Loop, Ending

\* What the group of a name keeps without an agent: one consumer for each stop that
\* failed, and one more once the loop's cancellation has been received.
BehindInv ==
  budget["start"] = MaxStartFaults =>
    \A n \in Name :
      left[n] <= FailedStops + IF cancel \/ life \in {"starting", "running"} THEN 0 ELSE 1

\* Only failed starts and stops and the one cancellation leave a consumer behind.
LEMMA BehindStep ==
  ASSUME SharedAssumption, SharedInv, CancelInv, BehindInv, [Next]_vars
  PROVE  BehindInv'
<1> SUFFICES ASSUME budget'["start"] = MaxStartFaults, NEW n \in Name
             PROVE  left'[n] <= FailedStops' + IF cancel' \/ life' \in {"starting", "running"} THEN 0 ELSE 1
  BY DEF BehindInv
<1>a. /\ budget \in [{"edit", "outage", "start", "stop"} -> Nat] /\ budget["start"] <= MaxStartFaults
      /\ MaxStartFaults \in Nat /\ MaxStopFaults \in Nat /\ left \in [Name -> Nat] /\ cancel \in BOOLEAN
  BY DEF SharedInv, TypeOK, BudgetInv, SharedAssumption
<1>b. FailedStops \in Int
  BY <1>a DEF FailedStops
<1>c. ASSUME NEW names, LeaveBehind(names) PROVE left'[n] \in Nat /\ left'[n] <= left[n] + 1
  BY <1>a, <1>c DEF LeaveBehind
<1>q. ASSUME UNCHANGED left,
             \/ UNCHANGED budget
             \/ \E kind \in {"edit", "outage"} : budget' = [budget EXCEPT ![kind] = @ - 1],
             \/ UNCHANGED <<cancel, life>>
             \/ life \in {"starting", "running"} /\ (cancel' \/ life' \in {"starting", "running"})
             \/ life' \notin {"starting", "running"} /\ ~cancel'
      PROVE  left'[n] <= FailedStops' + IF cancel' \/ life' \in {"starting", "running"} THEN 0 ELSE 1
  <2>1. budget'["start"] = budget["start"] /\ budget'["stop"] = budget["stop"]
    BY <1>a, <1>q
  <2>2. FailedStops' = FailedStops
    BY <2>1 DEF FailedStops
  <2>3. left[n] <= FailedStops + IF cancel \/ life \in {"starting", "running"} THEN 0 ELSE 1
    BY <2>1 DEF BehindInv
  <2> QED BY <1>a, <1>b, <1>q, <2>2, <2>3
<1>1. CASE Answered \/ Malformed \/ Unreachable
  BY <1>1, <1>q DEF Answered, Malformed, Unreachable, Polls, Reconcile, Spend, locals
<1>2. CASE Undesired \/ \E m \in Name : Compare(m)
  BY <1>2, <1>q DEF Undesired, Compare
<1>3. CASE Gather
  BY <1>3, <1>q DEF Gather, Reconciled
<1>4. ASSUME NEW a \in Agent, Provisioned(a) \/ Started(a)
      PROVE  left'[n] <= FailedStops' + IF cancel' \/ life' \in {"starting", "running"} THEN 0 ELSE 1
  BY <1>4, <1>q DEF Provisioned, Started, Reconciled, locals
<1>5. ASSUME NEW a \in Agent, StartFails(a) PROVE FALSE
  BY <1>a, <1>5 DEF StartFails, Spend
<1>6. CASE AgentStop \/ (CancelSwallowed /\ UNCHANGED left) \/ (CancelAborts /\ UNCHANGED left)
  <2>1. CancelInv /\ (CancelSwallowed \/ CancelAborts => cancel)
    BY DEF CancelSwallowed, CancelAborts
  <2> QED BY <1>6, <1>q, <2>1 DEF AgentStop, Unpublished, ConsumerStopped, StopGoesOn, Quit, StopEnds,
             CancelSwallowed, CancelAborts, Ended, CancelInv, locals
<1>7. CASE QuitFails
  <2>1. /\ budget'["start"] = budget["start"] /\ budget'["stop"] = budget["stop"] - 1
        /\ cancel' = cancel /\ life' \in {life, "failed"}
    BY <1>a, <1>7 DEF QuitFails, Spend, StopEnds
  <2>2. FailedStops' = FailedStops + 1
    BY <1>a, <2>1 DEF FailedStops
  <2>3. left'[n] <= left[n] + 1 /\ left'[n] \in Nat
    BY <1>a, <1>c, <1>7 DEF QuitFails
  <2>4. left[n] <= FailedStops + IF cancel \/ life \in {"starting", "running"} THEN 0 ELSE 1
    BY <2>1 DEF BehindInv
  <2>5. cancel \/ life \in {"starting", "running"} \/ ~(cancel' \/ life' \in {"starting", "running"})
    BY <2>1
  <2> QED BY <1>a, <1>b, <2>2, <2>3, <2>4, <2>1, <2>5
<1>8. CASE CancelStarts \/ CancelSwallowed \/ CancelAborts
  <2>1. cancel /\ ~cancel' /\ life = "stopping" /\ life' = life /\ UNCHANGED budget
    BY <1>8 DEF CancelStarts, CancelSwallowed, CancelAborts, Ended, CancelInv
  <2>2. left'[n] <= left[n] + 1 /\ left'[n] \in Nat
    BY <1>a, <1>c, <1>8 DEF CancelStarts, CancelSwallowed, CancelAborts
  <2>3. left[n] <= FailedStops /\ FailedStops' = FailedStops
    BY <1>b, <2>1 DEF BehindInv, FailedStops
  <2> QED BY <1>a, <1>b, <2>1, <2>2, <2>3
<1>9. CASE Stop
  BY <1>9, <1>q DEF Stop
<1>10. CASE LoopEnds \/ BeginDrain \/ Drain
  <2>1. LoopEnds => life = "stopping"
    BY DEF LoopEnds
  <2>2. BeginDrain \/ Drain => ~cancel
    <3>1. SharedInv /\ life = "draining" => pc = "ended"
      BY DEF SharedInv, LoopInv
    <3> QED BY <1>a, <3>1 DEF BeginDrain, Drain, CancelInv
  <2> QED BY <1>10, <1>q, <2>1, <2>2 DEF LoopEnds, BeginDrain, Drain, Ended
<1>11. CASE UNCHANGED vars \/ \E m \in Name, v \in Version \cup {None} : Edit(m, v)
  BY <1>11, <1>q DEF vars, Edit, Spend, locals
<1> QED BY <1>1, <1>2, <1>3, <1>4, <1>5, <1>6, <1>7, <1>8, <1>9, <1>10, <1>11 DEF Next, Loop, Ending

\* Before the first poll no cancellation is under way and nothing was left behind.
LEMMA BehindInit == SharedAssumption /\ Init => CancelInv /\ BehindInv
<1> SUFFICES ASSUME SharedAssumption, Init PROVE CancelInv /\ BehindInv
  OBVIOUS
<1>1. MaxStopFaults \in Nat /\ budget["stop"] = MaxStopFaults /\ \A n \in Name : left[n] = 0
  BY DEF Init, SharedAssumption
<1>2. FailedStops = 0
  BY <1>1 DEF FailedStops
<1> QED BY <1>1, <1>2 DEF Init, CancelInv, BehindInv

\* With one agent to a name, the bound on what is left is what remains to be said.
LEMMA UniqueFollows == SharedInv /\ BehindInv => UniqueWhileStartsSucceed
<1> SUFFICES ASSUME SharedInv, BehindInv, budget["start"] = MaxStartFaults PROVE UniqueWhileStartsSucceed
  BY DEF UniqueWhileStartsSucceed
<1>1. OneAgentPerName
  BY DEF SharedInv, Unique
<1>2. ASSUME NEW n \in Name
      PROVE  left[n] <= FailedStops + IF life \in {"starting", "running"} THEN 0 ELSE 1
  <2>1. FailedStops \in Int /\ left[n] \in Nat /\ cancel \in BOOLEAN
    BY SharedAssumption DEF SharedInv, TypeOK, FailedStops, SharedAssumption
  <2>2. left[n] <= FailedStops + IF cancel \/ life \in {"starting", "running"} THEN 0 ELSE 1
    BY DEF BehindInv
  <2> QED BY <2>1, <2>2
<1> QED BY <1>1, <1>2 DEF UniqueWhileStartsSucceed

\* As long as no start failed, no name has two agents, whatever the control plane
\* answers, whichever stop fails, and wherever stop() interrupts, and beside its agent
\* no consumer but those of failed stops and one that stop() cut off.
THEOREM OneAgentUnlessAStartFailed == Spec => []UniqueWhileStartsSucceed
<1>1. Init => CancelInv /\ BehindInv
  BY SharedAssumption, BehindInit
<1>2. SharedInv /\ CancelInv /\ BehindInv /\ [Next]_vars => CancelInv' /\ BehindInv'
  BY SharedAssumption, CancelStep, BehindStep
<1> QED BY <1>1, <1>2, UniqueFollows, SharedIsSound, PTL DEF Spec

\* Every agent in its group is managed or being stopped.
Attended ==
  \A a \in Agent : agent[a].phase \in Present => a = victim \/ managed[agent[a].name] = a

\* When the loop has ended, no agent is without somebody to stop it; what is managed
\* while stop() goes through its list is on that list.
LeftInv ==
  budget["start"] = MaxStartFaults =>
    /\ pc = "ended" => Attended
    /\ life = "draining" => Managed \subseteq todo
    /\ life = "stopped" => Managed = {} /\ victim = None

\* Behind the loop's end no agent is on its way into its group.
LEMMA NobodyJoins ==
  ASSUME SharedAssumption, SharedInv, LeftInv, budget["start"] = MaxStartFaults, pc = "ended"
  PROVE  \A a \in Agent : agent[a].phase \notin {"provision", "joining"}
<1> SUFFICES ASSUME NEW a \in Agent, agent[a].phase \in {"provision", "joining"} PROVE FALSE
  OBVIOUS
<1>2. a = victim \/ managed[agent[a].name] = a
  BY DEF LeftInv, Attended, Present
<1>3. CASE a = victim
  BY <1>3 DEF SharedInv, VictimInv, SharedAssumption
<1>4. CASE managed[agent[a].name] = a
  <2>1. agent[a].name \in Name /\ a # None
    BY AgentFacts DEF SharedInv, SharedAssumption
  <2>2. agent[a].name \in Managed
    BY <1>4, <2>1 DEF Managed
  <2> QED BY <1>4, <2>2 DEF SharedInv, ManagedServes
<1> QED BY <1>2, <1>3, <1>4

\* When the loop ends, what gather waited for goes, a stop it awaited is given up,
\* and everything else is managed.
LEMMA LoopLeavesNone ==
  ASSUME SharedAssumption, SharedInv, CancelInv, budget["start"] = MaxStartFaults,
         LoopEnds \/ CancelStarts \/ CancelAborts
  PROVE  Attended'
<1>1. pc # "ended"
  BY DEF LoopEnds, CancelStarts, CancelAborts, CancelInv
<1>2. \A a \in Agent : agent[a].phase \in Present => a \in batch \/ a = victim \/ managed[agent[a].name] = a
  BY <1>1 DEF SharedInv, Accounted
<1>u. Unused.phase \notin Present
  BY DEF Unused, Present
<1>3. CASE LoopEnds
  <2>1. /\ pc = "wait" /\ UNCHANGED <<managed, agent, victim>>
    BY <1>3 DEF LoopEnds, locals
  <2>2. batch = {}
    BY <2>1 DEF SharedInv, TypeOK
  <2> QED BY <1>2, <2>1, <2>2 DEF Attended
<1>4. CASE CancelStarts
  <2>1. /\ UNCHANGED <<managed, victim>>
        /\ agent' = [a \in Agent |-> IF a \in batch THEN Unused ELSE agent[a]]
    BY <1>4 DEF CancelStarts
  <2> QED BY <1>2, <1>u, <2>1 DEF Attended
<1>5. CASE CancelAborts
  <2>1. /\ victim # None /\ UNCHANGED managed /\ victim' = None /\ victim \in Agent
        /\ agent' = [agent EXCEPT ![victim] = Unused]
    BY <1>5 DEF CancelAborts, SharedInv, TypeOK
  <2>2. batch = {}
    BY <2>1 DEF SharedInv, TypeOK, VictimInv
  <2>3. agent'[victim] = Unused /\ \A a \in Agent \ {victim} : agent'[a] = agent[a]
    BY <2>1 DEF SharedInv, TypeOK
  <2> QED BY <1>2, <1>u, <2>1, <2>2, <2>3 DEF Attended
<1> QED BY <1>3, <1>4, <1>5

\* The list of stop() is worked off: what it takes out is the next victim.
LEMMA DrainLeaves ==
  ASSUME SharedAssumption, SharedInv, LeftInv, budget["start"] = MaxStartFaults,
         NEW n \in todo, life = "draining", victim = None, Remove(n), todo' = todo \ {n}
  PROVE  Attended' /\ Managed' \subseteq todo'
<1>1. n \in Managed
  BY DEF SharedInv, LoopInv
<1>2. /\ managed[n] \in Agent /\ victim' = managed[n]
      /\ agent[managed[n]].name = n /\ Managed' = Managed \ {n}
      /\ \A b \in Agent \ {managed[n]} : agent'[b] = agent[b]
  BY <1>1, Removed
<1>3. managed' = [managed EXCEPT ![n] = None] /\ managed \in [Name -> Agent \cup {None}] /\ n \in Name
  BY <1>1 DEF Remove, SharedInv, TypeOK, Managed
<1>4. Attended'
  <2> SUFFICES ASSUME NEW a \in Agent, agent'[a].phase \in Present, a # managed[n]
               PROVE  managed'[agent'[a].name] = a
    BY <1>2 DEF Attended
  <2>1. agent'[a] = agent[a]
    BY <1>2
  <2>2. a # victim /\ pc = "ended"
    BY DEF SharedAssumption, SharedInv, LoopInv
  <2>3. managed[agent[a].name] = a
    BY <2>1, <2>2 DEF LeftInv, Attended
  <2>4. agent[a].name # n
    BY <2>3
  <2>5. agent[a].phase # "free"
    BY <2>1 DEF Present
  <2>6. agent[a].name \in Name
    BY <2>5, AgentFacts DEF SharedInv
  <2> QED BY <1>3, <2>1, <2>3, <2>4, <2>6
<1>5. Managed' \subseteq todo'
  BY <1>2 DEF LeftInv
<1> QED BY <1>4, <1>5

\* Every step keeps agents attended behind the loop's end, and stop()'s list complete.
LEMMA LeftStep ==
  ASSUME SharedAssumption, SharedInv, CancelInv, LeftInv, [Next]_vars
  PROVE  LeftInv'
<1> SUFFICES ASSUME budget'["start"] = MaxStartFaults
             PROVE  /\ pc' = "ended" => Attended'
                    /\ life' = "draining" => Managed' \subseteq todo'
                    /\ life' = "stopped" => Managed' = {} /\ victim' = None
  BY DEF LeftInv
<1>a. /\ budget \in [{"edit", "outage", "start", "stop"} -> Nat] /\ budget["start"] <= MaxStartFaults
      /\ MaxStartFaults \in Nat
  BY DEF SharedInv, TypeOK, BudgetInv, SharedAssumption
<1>b. /\ life \in {"draining", "stopped", "failed"} => pc = "ended"
      /\ batch # {} => pc = "gather"
      /\ victim # None => pc \in {"undesired", "changed"} \/ (pc = "ended" /\ life = "draining")
      /\ life = "draining" => todo \subseteq Managed
  BY DEF SharedInv, TypeOK, LoopInv, VictimInv
<1>q. ASSUME budget["start"] = MaxStartFaults, UNCHANGED <<managed, agent, victim>>,
             UNCHANGED <<pc, life, todo>> \/ (pc' # "ended" /\ life' \notin {"draining", "stopped"})
      PROVE  /\ pc' = "ended" => Attended'
             /\ life' = "draining" => Managed' \subseteq todo'
             /\ life' = "stopped" => Managed' = {} /\ victim' = None
  BY <1>q DEF LeftInv, Attended, Managed
<1>0. budget["start"] = MaxStartFaults
  <2>1. ASSUME NEW kind \in {"edit", "outage", "start", "stop"}, Spend(kind)
        PROVE  budget["start"] = MaxStartFaults
    BY <1>a, <2>1 DEF Spend
  <2>2. CASE budget' = budget
    BY <2>2
  <2> QED
    <3>1. budget' = budget \/ \E kind \in {"edit", "outage", "start", "stop"} : Spend(kind)
      BY DEF Next, Loop, AgentStop, Ending, vars, locals, Edit, Answered, Malformed, Unreachable, Undesired,
         Compare, Gather, Provisioned, Started, StartFails, Unpublished, ConsumerStopped, StopGoesOn, Quit,
         QuitFails, Stop, LoopEnds, CancelStarts, CancelSwallowed, CancelAborts, BeginDrain, Drain
    <3> QED BY <2>1, <2>2, <3>1
<1>1. CASE Answered \/ Malformed \/ Unreachable
  <2>1. UNCHANGED <<managed, agent, victim, life>> /\ pc = "wait" /\ pc' # "ended"
        /\ life \in {"starting", "running"}
    BY <1>1 DEF Answered, Malformed, Unreachable, Polls, Reconcile, locals
  <2> QED BY <1>0, <1>q, <2>1
<1>2. CASE Undesired \/ (\E n \in Name : Compare(n)) \/ Gather
  <2>1. pc \in {"undesired", "changed"} /\ pc' # "ended" /\ life' \in {life, "running"}
    BY <1>2 DEF Undesired, Compare, Gather, Reconciled
  <2> QED BY <1>b, <2>1
<1>3. ASSUME NEW a \in Agent, Provisioned(a) \/ Started(a) \/ StartFails(a)
      PROVE  pc' # "ended" /\ life' \notin {"draining", "stopped"}
  <2>1. pc # "ended"
    BY <1>0, <1>3, NobodyJoins DEF Provisioned, Started, StartFails
  <2>2. pc' \in {pc, "wait"} /\ life' \in {life, "running"}
    BY <1>3 DEF Provisioned, Started, StartFails, Reconciled, locals
  <2> QED BY <1>b, <2>1, <2>2
<1>4. CASE AgentStop \/ QuitFails \/ CancelSwallowed
  <2>1. victim # None /\ UNCHANGED <<managed, todo>> /\ pc' \in {pc, "wait"} /\ life' \in {life, "failed"}
        /\ (pc = "ended" => pc' = "ended")
    BY <1>4, <1>b DEF AgentStop, Unpublished, ConsumerStopped, StopGoesOn, Quit, QuitFails, StopEnds,
       CancelSwallowed, locals
  <2>2. CASE pc # "ended"
    BY <1>b, <2>1, <2>2
  <2>3. CASE pc = "ended"
    <3>1. Attended
      BY <1>0, <2>3 DEF LeftInv
    <3>2. victim \in Agent /\ agent \in [Agent -> AgentType] /\ Unused.phase \notin Present
      BY <2>1, AgentFacts DEF SharedInv, TypeOK, Present
    <3>3. \/ victim' = victim /\ \A a \in Agent \ {victim} : agent'[a] = agent[a]
          \/ victim' = None /\ agent' = [agent EXCEPT ![victim] = Unused]
      BY <1>4, <3>2 DEF AgentStop, Unpublished, ConsumerStopped, StopGoesOn, Quit, QuitFails, StopEnds,
         CancelSwallowed, locals
    <3>4. \A a \in Agent : agent'[a].phase \in Present => a = victim' \/ (a # victim /\ agent'[a] = agent[a])
      BY <3>2, <3>3
    <3>5. Attended'
      BY <2>1, <3>1, <3>4 DEF Attended
    <3>6. life = "draining"
      BY <1>b, <2>1, <2>3
    <3>7. life' # "stopped" /\ (life' = "draining" => Managed' \subseteq todo')
      BY <1>0, <2>1, <3>6 DEF LeftInv, Managed
    <3> QED BY <3>5, <3>7
  <2> QED BY <2>2, <2>3
<1>5. CASE LoopEnds \/ CancelStarts \/ CancelAborts
  <2>1. pc # "ended" /\ life' = life
    BY <1>5 DEF LoopEnds, CancelStarts, CancelAborts, CancelInv
  <2>2. Attended'
    BY <1>0, <1>5, LoopLeavesNone
  <2> QED BY <1>b, <2>1, <2>2
<1>6. CASE BeginDrain
  <2>1. pc = "ended" /\ life' = "draining" /\ todo' = Managed /\ UNCHANGED <<managed, agent, victim>>
    BY <1>6 DEF BeginDrain
  <2> QED BY <1>0, <2>1 DEF LeftInv, Attended, Managed
<1>7. CASE Drain
  <2>1. life = "draining" /\ victim = None /\ pc = "ended" /\ pc' = pc
    BY <1>7, <1>b DEF Drain
  <2>2. CASE todo = {} /\ life' = "stopped" /\ UNCHANGED <<managed, agent, todo, victim>>
    BY <1>0, <2>1, <2>2 DEF LeftInv, Attended, Managed
  <2>3. ASSUME NEW n \in todo, Remove(n), todo' = todo \ {n}, life' = life
        PROVE  Attended' /\ Managed' \subseteq todo' /\ life' # "stopped"
    BY <1>0, <2>1, <2>3, DrainLeaves
  <2> QED BY <1>7, <2>2, <2>3 DEF Drain
<1>8. CASE Stop
  <2>1. life = "running" /\ life' = "stopping" /\ pc # "ended" /\ pc' = pc
    BY <1>8 DEF Stop, CancelInv
  <2> QED BY <2>1
<1>9. CASE UNCHANGED vars \/ \E n \in Name, v \in Version \cup {None} : Edit(n, v)
  BY <1>0, <1>9, <1>q DEF vars, Edit, locals
<1> QED BY <1>1, <1>2, <1>3, <1>4, <1>5, <1>6, <1>7, <1>8, <1>9 DEF Next, Loop, Ending

\* With nothing managed and no stop awaited, no agent is in its group.
LEMMA NoneIsLeft == SharedInv /\ LeftInv /\ BehindInv => StopLeavesOnePerName
<1> SUFFICES ASSUME SharedInv, LeftInv, BehindInv, life = "stopped", budget["start"] = MaxStartFaults
             PROVE  /\ Managed = {}
                    /\ \A a \in Agent : agent[a].phase \notin Present
                    /\ \A n \in Name : left[n] <= FailedStops + 1
  BY DEF StopLeavesOnePerName
<1>1. pc = "ended" /\ Managed = {} /\ victim = None
  BY DEF SharedInv, LoopInv, LeftInv
<1>2. ASSUME NEW a \in Agent, agent[a].phase \in Present PROVE FALSE
  <2>1. a # None /\ agent[a].name \in Name
    BY <1>2, AgentFacts, SharedAssumption DEF SharedInv, Present, SharedAssumption
  <2>2. managed[agent[a].name] # a
    BY <1>1, <2>1 DEF Managed
  <2> QED BY <1>1, <1>2, <2>1, <2>2 DEF LeftInv, Attended
<1>3. ASSUME NEW n \in Name PROVE left[n] <= FailedStops + 1
  BY UniqueFollows DEF UniqueWhileStartsSucceed
<1> QED BY <1>1, <1>2, <1>3

\* stop() that has returned leaves nothing managed and no agent that goes on, and in
\* the group of a name at most the consumer that its own cancellation cut off on its
\* way in or out and those of failed stops, as long as no start failed.
THEOREM StopLeavesOne == Spec => []StopLeavesOnePerName
<1>1. Init => CancelInv /\ BehindInv /\ LeftInv
  <2>1. Init => LeftInv
    BY DEF Init, LeftInv
  <2> QED BY <2>1, SharedAssumption, BehindInit
<1>2. SharedInv /\ CancelInv /\ BehindInv /\ LeftInv /\ [Next]_vars => CancelInv' /\ BehindInv' /\ LeftInv'
  BY SharedAssumption, CancelStep, BehindStep, LeftStep
<1> QED BY <1>1, <1>2, NoneIsLeft, SharedIsSound, PTL DEF Spec
=============================================================================
