----------------------------- MODULE MemoryProofs -----------------------------
(***************************************************************************)
(* The agent over the store in memory, whose calls do not suspend their    *)
(* callers: who works on a task, what a cancel reaches, what an error      *)
(* leaves and in which order push notifications wait, for every set of     *)
(* requests and every bound.                                               *)
(***************************************************************************)
EXTENDS AgentProofs

(* Phases and turns *)

\* The types of what the invariants of the runs speak of.
LEMMA MemoryTypes ==
  ASSUME TypeOK
  PROVE  /\ hpc \in [Req -> HandlerPhase] /\ kind \in [Req -> AllKinds \cup {"none"}]
         /\ task \in [Req -> Req \cup {NoReq}] /\ reply \in [Req -> {"none", "ok", "error"}]
         /\ ppc \in [Req -> PreparePhase] /\ rpc \in [Req -> RunPhase]
         /\ cancelReq \in [Req -> BOOLEAN] /\ processing \in [Req -> Req \cup {NoReq}]
         /\ status \in [Req -> States \cup {"none"}] /\ log \in [Req -> Seq(Event)]
         /\ ready \in Seq(Actor)
BY DEF TypeOK, StoreType, HandlerType, RunType, LoopType

\* A request that has not arrived is at the start of everything.
LEMMA ArrivePhase ==
  ASSUME MemoryInv, NEW r \in Req, NEW k \in AllKinds, NEW t \in Req, Arrive(r, k, t)
  PROVE  PhaseInv' /\ TurnInv'
<1>1. TypeOK
  BY DEF MemoryInv, StreamInv, ControlInv
<1>2. PhaseInv'
  BY <1>1, MemoryTypes DEF Arrive, MemoryInv, PhaseInv, PhaseOf, runVars
<1>3. TurnInv'
  BY <1>1, MemoryTypes DEF Arrive, MemoryInv, TurnInv, TurnOf, runVars, Working
<1>4. QED BY <1>2, <1>3

\* A step of one request leaves the phases of the others alone.
LEMMA OnePhase ==
  ASSUME MemoryInv, NEW r \in Req, Steady(r), PhaseOf(r)', \A x \in Req \ {r} : reply'[x] = reply[x]
  PROVE  PhaseInv'
BY DEF MemoryInv, Steady, PhaseInv, PhaseOf

\* One coroutine runs at a time: a step of one request finds no other between two
\* calls of the store.
LEMMA OneTurn ==
  ASSUME MemoryInv, NEW r \in Req, NEW a \in {"handler", "prepare", "run"},
         Turn(<<a, r>>) \/ Turn(Idle), Steady(r), TurnOf(r)'
  PROVE  TurnInv'
<1> SUFFICES ASSUME NEW x \in Req \ {r} PROVE TurnOf(x)'
  BY DEF TurnInv
<1>1. loop # <<"handler", x>> /\ loop # <<"prepare", x>> /\ loop # <<"run", x>>
  BY DEF Turn, Idle
<1>2. QED BY <1>1 DEF MemoryInv, TurnInv, TurnOf, Steady

\* The handler's steps keep the phases in order.
LEMMA HandlerPhases ==
  ASSUME AgentAssumption, ~StoreBlocks, MemoryInv, NEW r \in Req, Handler(r)
  PROVE  PhaseOf(r)' /\ TurnOf(r)' /\ \A x \in Req \ {r} : reply'[x] = reply[x]
<1>1. /\ TypeOK /\ PhaseOf(r) /\ TurnOf(r) /\ hpc[r] # "idle" /\ kind[r] \in AllKinds
  BY HandlerShape DEF MemoryInv, StreamInv, ControlInv, NameInv, PhaseInv, TurnInv
<1> USE <1>1, MemoryTypes DEF PhaseOf, TurnOf, At, Turn, Idle
<1>2. CASE Dispatch(r) \/ Admit(r) \/ Reply(r)
  BY <1>2 DEF Dispatch, Admit, Reply, runVars, Working
<1>3. CASE Refuse(r) \/ InlineFail(r) \/ Subscribe(r) \/ CancelTail(r)
  BY <1>3 DEF Refuse, InlineFail, Subscribe, CancelTail, Answer, runVars, Working
<1>4. CASE Create(r) \/ StreamTail(r) \/ LocalStreamTail(r)
  BY <1>4 DEF Create, StreamTail, LocalStreamTail, Goto, AfterStore, CreatedBy, Creators, runVars, Working
<1>5. CASE SendTail(r)
  BY <1>5 DEF SendTail, Answer, CreatedBy, Local, runVars, Working
<1>6. CASE StartInline(r)
  BY <1>6 DEF StartInline, Register, Answer, runVars, Working
<1>7. CASE Fetch(r)
  BY <1>7 DEF Fetch, Answer, Goto, AfterStore, runVars, Working, Resumers, Watchers, Creators
<1>8. CASE Resume(r) \/ Cancel(r)
  BY <1>8 DEF Resume, Cancel, Answer, Goto, AfterStore, runVars, Working
<1>9. CASE ResumeTail(r)
  BY <1>9 DEF ResumeTail, Answer, Goto, AfterStore, runVars, Working, Local, Resumers
<1>10. CASE \E c \in Config : Configure(r, c) \/ SetConfig(r, c)
  BY <1>10 DEF Configure, SetConfig, Answer, Goto, AfterStore, runVars, Working
<1>11. CASE \E cs \in SUBSET Config : DeleteConfig(r, cs)
  BY <1>11 DEF DeleteConfig, Answer, runVars, Working
<1>12. QED
  BY <1>2, <1>3, <1>4, <1>5, <1>6, <1>7, <1>8, <1>9, <1>10, <1>11 DEF Handler

\* So do those of preparations and runs.
LEMMA WorkerPhases ==
  ASSUME AgentAssumption, ~StoreBlocks, MemoryInv, NEW r \in Req, Prepare(r) \/ Run(r)
  PROVE  PhaseOf(r)' /\ TurnOf(r)' /\ reply' = reply
<1>1. /\ TypeOK /\ PhaseOf(r) /\ TurnOf(r)
  BY DEF MemoryInv, StreamInv, ControlInv, PhaseInv, TurnInv
<1> USE <1>1, MemoryTypes DEF PhaseOf, TurnOf, Turn, Idle
<1>2. CASE Prepare(r)
  BY <1>2 DEF Prepare, PrepareStart, PrepareFinish, PrepareFail, PrepareFailTail, Register,
     AfterStore, Yield, handlerVars, runVars, First, Working
<1>3. CASE RunStart(r) \/ RunComplete(r) \/ RunRaise(r) \/ \E s \in ProcStates : RunYieldStatus(r, s)
  BY <1>3 DEF RunStart, RunComplete, RunRaise, RunYieldStatus, RunAppend, RunAt, RunGoto, AfterStore,
     handlerVars, First, Working
<1>4. CASE RunPush(r) \/ RunYieldArtifact(r) \/ RunExhaust(r) \/ RunLeave(r)
  BY <1>4 DEF RunPush, RunYieldArtifact, RunExhaust, RunLeave, RunAt, RunGoto, AfterStore, Yield,
     handlerVars, Working
<1>5. CASE RunStillborn(r) \/ RunAbort(r) \/ RunFinally(r)
  BY <1>5 DEF RunStillborn, RunAbort, RunFinally, AfterStore, Yield, handlerVars, First, Working
<1>6. QED BY <1>2, <1>3, <1>4, <1>5 DEF Run

\* Every step of a request's handler, preparation or run takes the event loop.
LEMMA TakesTurn ==
  ASSUME NEW r \in Req, Handler(r) \/ Prepare(r) \/ Run(r)
  PROVE  \E a \in {"handler", "prepare", "run"} : Turn(<<a, r>>) \/ Turn(Idle)
<1>1. CASE Handler(r)
  BY <1>1 DEF Handler, Dispatch, Admit, Refuse, Create, SendTail, StreamTail, LocalStreamTail,
     StartInline, InlineFail, Fetch, Resume, ResumeTail, Cancel, CancelTail, Subscribe, Configure,
     SetConfig, DeleteConfig, Reply, First, At, CreatedBy
<1>2. CASE Prepare(r)
  BY <1>2 DEF Prepare, PrepareStart, PrepareFinish, PrepareFail, PrepareFailTail, First
<1>3. CASE Run(r)
  BY <1>3 DEF Run, RunStart, RunStillborn, RunPush, RunYieldStatus, RunYieldArtifact, RunExhaust,
     RunComplete, RunRaise, RunLeave, RunAbort, RunFinally, RunAt, First
<1>4. QED BY <1>1, <1>2, <1>3

-----------------------------------------------------------------------------
(* Who works on a task *)

\* What is known of a request that starts or does a run.
LEMMA WorkFacts ==
  ASSUME MemoryInv, NEW r \in Req
  PROVE  /\ TypeOK /\ StatusInv /\ SoleInv /\ OwnInv /\ LiveRunIsRegistered /\ ServedInv
         /\ PhaseOf(r) /\ TurnOf(r) /\ StatusOf(r)
         /\ Starting(r) \/ Live(r) => task[r] \in Req
<1>1. /\ TypeOK /\ StatusInv /\ SoleInv /\ OwnInv /\ LiveRunIsRegistered /\ ServedInv
      /\ PhaseOf(r) /\ TurnOf(r) /\ StatusOf(r) /\ ControlInv
  BY DEF MemoryInv, WorkInv, StreamInv, ControlInv, PhaseInv, TurnInv, StatusInv
<1>2. Starting(r) \/ Live(r) => hpc[r] # "idle" \/ ppc[r] # "none" \/ rpc[r] # "none"
  BY DEF Starting, Introducing, Live
<1>3. QED BY <1>1, <1>2, ArrivedFacts

\* Nobody else is about to start or doing a run of the task a request serves.
LEMMA AloneWithTask ==
  ASSUME MemoryInv, NEW u \in Req, NEW x \in Req \ {u}, task[x] = task[u],
         Starting(u) \/ Live(u)
  PROVE  ~Starting(x) /\ ~Live(x) /\ ~cancelReq[x]
BY DEF MemoryInv, WorkInv, SoleInv, LiveRunIsRegistered, StatusInv, StatusOf

\* The work on a task is as it was when its status, the registered runs and those
\* who start or do one are, and no run more is cancelled.
LEMMA SameWork ==
  ASSUME MemoryInv, NEW r \in Req, Steady(r), UNCHANGED <<status, processing>>,
         \A x \in Req : cancelReq'[x] => cancelReq[x],
         Starting(r)' <=> Starting(r), Live(r)' <=> Live(r), rpc[r] # "none" => rpc'[r] # "none",
         StatusOf(r)'
  PROVE  WorkInv'
<1>1. \A x \in Req : (Starting(x)' <=> Starting(x)) /\ (Live(x)' <=> Live(x))
  BY DEF Steady, Starting, Live
<1>2. \A x \in Req : Serving(x) => Serving(x)'
  BY <1>1 DEF Serving
<1>3. StatusInv'
  BY <1>1 DEF MemoryInv, WorkInv, StatusInv, StatusOf, Steady
<1>4. SoleInv' /\ LiveRunIsRegistered'
  BY <1>1 DEF MemoryInv, WorkInv, SoleInv, LiveRunIsRegistered, Steady
<1>5. OwnInv'
  <2>1. \A x \in Req : rpc[x] # "none" => rpc'[x] # "none"
    BY DEF Steady
  <2>2. \A t \in Req : processing[t] # NoReq => processing[t] \in Req
    BY WorkFacts, MemoryTypes
  <2>3. QED BY <2>1, <2>2 DEF MemoryInv, WorkInv, OwnInv, Steady
<1>6. ServedInv'
  BY <1>2 DEF MemoryInv, WorkInv, ServedInv, Steady
<1>7. QED BY <1>3, <1>4, <1>5, <1>6 DEF WorkInv

\* A task's status is written by the request that is alone with it, which goes on
\* serving it: it is to start a run, or is a run that is not cancelled.
LEMMA WriteWork ==
  ASSUME MemoryInv, NEW r \in Req, NEW s \in States, Steady(r), task[r] \in Req,
         status' = [status EXCEPT ![task[r]] = s], UNCHANGED <<cancelReq, processing>>,
         rpc[r] # "none" => rpc'[r] # "none",
         Live(r)' <=> Live(r), Starting(r)' => ~Live(r), Serving(r)', StatusOf(r)',
         \A x \in Req \ {r} : task[x] = task[r] =>
           ~Starting(x) /\ ~Live(x) /\ ~cancelReq[x] /\ hpc[x] # "fetched"
  PROVE  WorkInv'
<1>1. /\ TypeOK /\ StatusInv /\ SoleInv /\ OwnInv /\ LiveRunIsRegistered /\ ServedInv
  BY WorkFacts
<1>2. /\ \A x \in Req : Live(x)' <=> Live(x)
      /\ \A x \in Req \ {r} : Starting(x)' <=> Starting(x)
      /\ UNCHANGED <<task, kind>>
  BY DEF Live, Starting, Steady
<1>3. StatusInv'
  <2>1. ASSUME NEW x \in Req \ {r} PROVE StatusOf(x)'
    <3>1. CASE task[x] = task[r]
      BY <1>1, <1>2, <3>1 DEF StatusOf, Starting, Live, Steady
    <3>2. CASE task[x] # task[r]
      BY <1>1, <1>2, <3>2, MemoryTypes DEF StatusOf, StatusInv, Steady
    <3>3. QED BY <3>1, <3>2
  <2>2. QED BY <2>1 DEF StatusInv
<1>4. SoleInv'
  <2> SUFFICES ASSUME NEW x \in Req, NEW y \in Req, Starting(x)', task[y] = task[x]
               PROVE  ~Live(y) /\ (Starting(y)' => y = x)
    BY <1>2 DEF SoleInv
  <2>1. CASE x = r
    BY <1>2, <2>1
  <2>2. CASE x # r
    BY <1>1, <1>2, <2>2 DEF SoleInv
  <2>3. QED BY <2>1, <2>2
<1>5. LiveRunIsRegistered'
  BY <1>1, <1>2 DEF LiveRunIsRegistered
<1>6. OwnInv'
  <2>1. \A x \in Req : rpc[x] # "none" => rpc'[x] # "none"
    BY DEF Steady
  <2>2. \A t \in Req : processing[t] # NoReq => processing[t] \in Req
    BY <1>1, MemoryTypes
  <2>3. QED BY <1>1, <2>1, <2>2 DEF OwnInv, Steady
<1>7. ServedInv'
  <2> SUFFICES ASSUME NEW t \in Req, status'[t] \in {"submitted", "working"}
               PROVE  \E x \in Req : task[x] = t /\ Serving(x)'
    BY <1>2 DEF ServedInv
  <2>1. CASE t = task[r]
    BY <2>1
  <2>2. CASE t # task[r]
    <3>1. PICK x \in Req : task[x] = t /\ Serving(x)
      BY <1>1, <2>2, MemoryTypes DEF ServedInv
    <3>2. QED BY <1>2, <2>2, <3>1 DEF Serving
  <2>3. QED BY <2>1, <2>2
<1>8. QED BY <1>3, <1>4, <1>5, <1>6, <1>7 DEF WorkInv

\* A run ends: it was the only one of its task, and the task is settled.
LEMMA EndWork ==
  ASSUME MemoryInv, NEW u \in Req, Steady(u), Live(u), rpc' = [rpc EXCEPT ![u] = "done"],
         cancelReq' = [cancelReq EXCEPT ![u] = FALSE],
         \/ processing' = processing
         \/ processing' = [processing EXCEPT ![task[u]] = NoReq],
         status[task[u]] \in FinalStates, UNCHANGED status, UNCHANGED handlerVars, UNCHANGED ppc
  PROVE  WorkInv'
<1>1. /\ TypeOK /\ StatusInv /\ SoleInv /\ OwnInv /\ LiveRunIsRegistered /\ ServedInv
      /\ task[u] \in Req
  BY WorkFacts
<1>2. /\ \A x \in Req : Live(x)' <=> Live(x) /\ x # u
      /\ \A x \in Req : Starting(x)' <=> Starting(x)
      /\ ~Starting(u)
  BY <1>1, MemoryTypes DEF Live, Starting, handlerVars, SoleInv
<1>3. StatusInv'
  BY <1>1, <1>2, MemoryTypes DEF StatusInv, StatusOf, handlerVars
<1>4. SoleInv'
  BY <1>1, <1>2 DEF SoleInv, handlerVars
<1>5. LiveRunIsRegistered'
  <2>1. \A x \in Req \ {u} : Live(x) => task[x] # task[u] /\ task[x] \in Req
    BY AloneWithTask, WorkFacts
  <2>2. QED BY <1>1, <1>2, <2>1, MemoryTypes DEF LiveRunIsRegistered, handlerVars
<1>6. OwnInv'
  BY <1>1, MemoryTypes DEF OwnInv, handlerVars
<1>7. ServedInv'
  <2> SUFFICES ASSUME NEW t \in Req, status[t] \in {"submitted", "working"}
               PROVE  \E x \in Req : task[x] = t /\ Serving(x)'
    BY DEF ServedInv, handlerVars
  <2>1. PICK x \in Req : task[x] = t /\ Serving(x)
    BY <1>1 DEF ServedInv
  <2>2. x # u
    BY <2>1 DEF FinalStates, Resumable
  <2>3. QED BY <1>1, <1>2, <2>1, <2>2, MemoryTypes DEF Serving
<1>8. QED BY <1>3, <1>4, <1>5, <1>6, <1>7 DEF WorkInv

\* A run is registered: its request was alone with the task.
LEMMA RegisterWork ==
  ASSUME MemoryInv, NEW r \in Req, Steady(r), Starting(r), rpc[r] = "none", Register(r),
         ~Starting(r)', UNCHANGED status, hpc'[r] # "fetched"
  PROVE  WorkInv'
<1>1. /\ TypeOK /\ StatusInv /\ SoleInv /\ OwnInv /\ LiveRunIsRegistered /\ ServedInv
      /\ task[r] \in Req
  BY WorkFacts
<1>2. /\ \A x \in Req : Live(x)' <=> Live(x) \/ x = r
      /\ \A x \in Req : Starting(x)' <=> Starting(x) /\ x # r
      /\ ~Live(r) /\ ~cancelReq[r] /\ UNCHANGED <<task, kind, cancelReq>>
  BY <1>1, MemoryTypes DEF Live, Starting, Steady, Register, StatusInv, StatusOf
<1>3. StatusInv'
  <2>1. StatusOf(r)'
    BY <1>1, <1>2, MemoryTypes DEF StatusOf, Starting, Register
  <2>2. \A x \in Req \ {r} : StatusOf(x)'
    BY <1>1, <1>2 DEF StatusInv, StatusOf, Steady
  <2>3. QED BY <2>1, <2>2 DEF StatusInv
<1>4. \A x \in Req \ {r} : task[x] = task[r] => ~Starting(x) /\ ~Live(x)
  BY AloneWithTask
<1>5. SoleInv'
  BY <1>1, <1>2, <1>4 DEF SoleInv
<1>6. LiveRunIsRegistered'
  BY <1>1, <1>2, <1>4, MemoryTypes DEF LiveRunIsRegistered, Register
<1>7. OwnInv'
  BY <1>1, <1>2, MemoryTypes DEF OwnInv, Register
<1>8. ServedInv'
  BY <1>1, <1>2 DEF ServedInv, Serving
<1>9. QED BY <1>3, <1>5, <1>6, <1>7, <1>8 DEF WorkInv

\* A cancel reaches the one run of the task, if there is one.
LEMMA CancelWork ==
  ASSUME ~StoreBlocks, MemoryInv, NEW r \in Req, Steady(r), Cancel(r), task[r] \in Req
  PROVE  WorkInv'
<1>1. /\ TypeOK /\ StatusInv /\ SoleInv /\ OwnInv /\ LiveRunIsRegistered /\ ServedInv
      /\ PhaseOf(r) /\ StatusOf(r)
  BY WorkFacts
<1>2. /\ \A x \in Req : (Live(x)' <=> Live(x)) /\ (Starting(x)' <=> Starting(x))
      /\ UNCHANGED <<task, kind, processing, rpc, ppc>>
      /\ hpc[r] = "fetched" /\ hpc' = [hpc EXCEPT ![r] = "canceled"]
      /\ status' = [status EXCEPT ![task[r]] = "canceled"]
  BY <1>1, MemoryTypes DEF Live, Starting, Introducing, Steady, Cancel, Goto, At, AppendStatus
<1>3. \A x \in Req : cancelReq'[x] <=> cancelReq[x] \/ (Live(x) /\ task[x] = task[r])
  <2>1. \A x \in Req : task[x] = task[r] /\ Live(x) => processing[task[r]] = x
    BY <1>1 DEF LiveRunIsRegistered
  <2>2. HasLiveRun(task[r]) => /\ processing[task[r]] \in Req /\ Live(processing[task[r]])
                               /\ task[processing[task[r]]] = task[r]
    BY <1>1, MemoryTypes DEF HasLiveRun, OwnInv
  <2>3. \A x \in Req : task[x] = task[r] /\ Live(x) => HasLiveRun(task[r])
    BY <1>1, <2>1, AgentAssumption DEF HasLiveRun, AgentAssumption
  <2>4. QED BY <1>1, <2>1, <2>2, <2>3, MemoryTypes DEF Cancel
<1>4. StatusInv'
  <2> SUFFICES ASSUME NEW x \in Req PROVE StatusOf(x)'
    BY DEF StatusInv
  <2>1. CASE task[x] # task[r]
    BY <1>1, <1>2, <1>3, <2>1, MemoryTypes DEF StatusInv, StatusOf, Live
  <2>2. CASE task[x] = task[r]
    <3>1. x # r => hpc[x] \notin Introducing \cup {"fetched"}
      BY DEF Cancel, At, Turn, Idle, MemoryInv, TurnInv, TurnOf, Working, Introducing
    <3>2. hpc'[x] \notin Introducing /\ hpc'[x] # "fetched"
      BY <1>1, <1>2, <3>1, MemoryTypes DEF Introducing
    <3>3. status'[task'[x]] = "canceled" /\ "canceled" \in FinalStates
      BY <1>1, <1>2, <2>2, MemoryTypes DEF FinalStates
    <3>4. cancelReq'[x] => Live(x)'
      BY <1>1, <1>2, <1>3 DEF StatusInv, StatusOf
    <3>5. QED BY <3>2, <3>3, <3>4 DEF StatusOf
  <2>3. QED BY <2>1, <2>2
<1>5. SoleInv' /\ LiveRunIsRegistered'
  BY <1>1, <1>2 DEF SoleInv, LiveRunIsRegistered
<1>6. OwnInv'
  BY <1>1, <1>2 DEF OwnInv
<1>7. ServedInv'
  BY <1>1, <1>2, <1>3, MemoryTypes DEF ServedInv, Serving
<1>8. QED BY <1>4, <1>5, <1>6, <1>7 DEF WorkInv

-----------------------------------------------------------------------------
(* The steps *)

\* The arrival of a request changes nobody's work.
LEMMA ArriveWork ==
  ASSUME MemoryInv, NEW r \in Req, NEW k \in AllKinds, NEW t \in Req, Arrive(r, k, t)
  PROVE  WorkInv'
<1>1. /\ TypeOK /\ StatusInv /\ SoleInv /\ OwnInv /\ LiveRunIsRegistered /\ ServedInv
      /\ PhaseOf(r) /\ StatusOf(r)
  BY WorkFacts
<1>2. /\ UNCHANGED <<status, cancelReq, processing, rpc, ppc>>
      /\ rpc[r] = "none" /\ ppc[r] = "none" /\ hpc[r] = "idle" /\ hpc'[r] = "dispatched"
      /\ \A x \in Req \ {r} : task'[x] = task[x] /\ kind'[x] = kind[x] /\ hpc'[x] = hpc[x]
  BY <1>1, MemoryTypes DEF Arrive, storeVars, runVars, PhaseOf
<1>3. /\ ~Live(r) /\ ~Starting(r) /\ ~Starting(r)'
      /\ \A x \in Req : (Live(x)' <=> Live(x)) /\ (Starting(x)' <=> Starting(x))
  BY <1>2 DEF Live, Starting, Introducing
<1>4. StatusInv'
  BY <1>1, <1>2, <1>3 DEF StatusInv, StatusOf, Introducing
<1>5. SoleInv' /\ LiveRunIsRegistered'
  BY <1>1, <1>2, <1>3 DEF SoleInv, LiveRunIsRegistered
<1>6. OwnInv'
  BY <1>1, <1>2, MemoryTypes DEF OwnInv
<1>7. ServedInv'
  BY <1>1, <1>2, <1>3 DEF ServedInv, Serving
<1>8. QED BY <1>4, <1>5, <1>6, <1>7 DEF WorkInv

\* A task is created or resumed when nobody works on it.
LEMMA IntroduceWork ==
  ASSUME ~StoreBlocks, MemoryInv, NEW r \in Req, Steady(r), Create(r) \/ Resume(r)
  PROVE  WorkInv'
<1>1. /\ TypeOK /\ StatusInv /\ SoleInv /\ OwnInv /\ LiveRunIsRegistered /\ ServedInv
      /\ PhaseOf(r) /\ StatusOf(r) /\ BirthInv /\ ExistInv /\ NameInv
      /\ task[r] \in Req /\ hpc[r] # "idle"
  <2>1. hpc[r] # "idle"
    BY DEF Create, Resume, At
  <2>2. QED BY <2>1, WorkFacts, ArrivedFacts DEF MemoryInv, StreamInv, ControlInv
<1>2. CASE Resume(r) /\ HasLiveRun(task[r])
  <2>1. /\ UNCHANGED <<status, cancelReq, processing, rpc, ppc>>
        /\ hpc[r] = "fetched" /\ hpc'[r] \in {"replying", "done"}
    BY <1>1, <1>2, MemoryTypes DEF Resume, Answer, storeVars, runVars, At
  <2>2. StatusOf(r)' /\ (Starting(r)' <=> Starting(r)) /\ (Live(r)' <=> Live(r))
    BY <1>1, <2>1 DEF StatusOf, Starting, Introducing, Live, Steady
  <2>3. QED BY <2>1, <2>2, SameWork
<1>3. CASE Create(r) \/ (Resume(r) /\ ~HasLiveRun(task[r]))
  <2>1. /\ status' = [status EXCEPT ![task[r]] = "submitted"]
        /\ hpc'[r] \in Introducing /\ hpc[r] \in {"begin", "fetched"} /\ loop \in {Idle, <<"handler", r>>}
        /\ UNCHANGED <<cancelReq, processing, rpc, ppc>>
    <3>1. CASE Create(r)
      BY <1>1, <3>1, MemoryTypes
         DEF Create, CreateTask, Goto, runVars, At, Turn, NameInv, Introducing
    <3>2. CASE Resume(r) /\ ~HasLiveRun(task[r])
      BY <1>1, <3>2, MemoryTypes
         DEF Resume, AppendStatus, Goto, runVars, At, Turn, Introducing
    <3>3. QED BY <1>3, <3>1, <3>2
  <2>2. /\ ppc[r] = "none" /\ rpc[r] = "none" /\ ~cancelReq[r] /\ ~Live(r) /\ ~Live(r)'
    BY <1>1, <2>1 DEF PhaseOf, StatusOf, Live
  <2>3. \A x \in Req \ {r} : task[x] = task[r] => ~Starting(x) /\ ~Live(x)
    <3>1. CASE Create(r)
      <4>1. log[task[r]] = <<>>
        BY <1>1, <3>1 DEF Create, At, BirthInv, Before, NameInv
      <4>2. \A x \in Req : Starting(x) \/ Live(x) => Engaged(x)
        BY DEF Starting, Live, Engaged, Introducing, Working
      <4>3. QED BY <1>1, <4>1, <4>2 DEF ExistInv
    <3>2. CASE Resume(r) /\ ~HasLiveRun(task[r])
      <4>1. status[task[r]] \in Resumable
        BY <1>1, <3>2 DEF Resume, At, StatusOf
      <4>2. \A x \in Req \ {r} : task[x] = task[r] => ~Starting(x)
        BY <1>1, <4>1 DEF StatusInv, StatusOf, Starting, Resumable
      <4>3. \A x \in Req : task[x] = task[r] => ~Live(x)
        BY <1>1, <3>2, AgentAssumption DEF LiveRunIsRegistered, HasLiveRun, AgentAssumption
      <4>4. QED BY <4>2, <4>3
    <3>3. QED BY <1>3, <3>1, <3>2
  <2>4. \A x \in Req \ {r} : hpc[x] # "fetched" /\ (~Live(x) => ~cancelReq[x])
    BY <1>1, <2>1 DEF Idle, MemoryInv, TurnInv, TurnOf, Working, StatusInv, StatusOf
  <2>5. StatusOf(r)' /\ Starting(r)' /\ Serving(r)'
    BY <1>1, <2>1, <2>2, MemoryTypes DEF StatusOf, Steady, Introducing, Live, Starting, Serving
  <2>6. "submitted" \in States
    BY DEF States
  <2>7. QED BY <1>1, <2>1, <2>2, <2>3, <2>4, <2>5, <2>6, WriteWork
<1>4. QED BY <1>2, <1>3

\* The handler's steps.
LEMMA HandlerWork ==
  ASSUME ~StoreBlocks, MemoryInv, NEW r \in Req, Steady(r), Handler(r)
  PROVE  WorkInv'
<1>1. /\ TypeOK /\ PhaseOf(r) /\ TurnOf(r) /\ StatusOf(r) /\ task[r] \in Req /\ hpc[r] # "idle"
  BY HandlerShape, WorkFacts, ArrivedFacts DEF MemoryInv, StreamInv
<1>2. CASE Create(r) \/ Resume(r) \/ Cancel(r)
  BY <1>1, <1>2, IntroduceWork, CancelWork
<1>3. CASE StartInline(r)
  <2>1. Register(r) /\ hpc[r] = "prepared" /\ hpc'[r] \in {"replying", "done"} /\ UNCHANGED <<status, ppc>>
    BY <1>1, <1>3, MemoryTypes DEF StartInline, Answer, At, storeVars
  <2>2. Starting(r) /\ ~Starting(r)' /\ rpc[r] = "none"
    BY <1>1, <2>1 DEF Starting, PhaseOf, Introducing
  <2>3. QED BY <2>1, <2>2, RegisterWork
<1>4. ASSUME UNCHANGED <<status, cancelReq, processing, rpc>>, Starting(r)' <=> Starting(r),
             hpc'[r] \in Introducing => hpc[r] \in Introducing,
             hpc'[r] = "fetched" /\ kind[r] \in Resumers => status[task[r]] \in Resumable
      PROVE  WorkInv'
  <2>1. Live(r)' <=> Live(r)
    BY <1>4 DEF Live
  <2>2. StatusOf(r)'
    BY <1>1, <1>4, <2>1 DEF StatusOf, Steady, Starting
  <2>3. QED BY <1>4, <2>1, <2>2, SameWork
<1>5. CASE Dispatch(r) \/ Admit(r) \/ Reply(r)
  BY <1>1, <1>4, <1>5, MemoryTypes DEF Dispatch, Admit, Reply, storeVars, runVars, Starting, Introducing
<1>6. CASE Refuse(r) \/ InlineFail(r) \/ Subscribe(r) \/ CancelTail(r)
  BY <1>1, <1>4, <1>6, MemoryTypes
     DEF Refuse, InlineFail, Subscribe, CancelTail, Answer, At, storeVars, runVars, Starting, Introducing
<1>7. CASE StreamTail(r) \/ LocalStreamTail(r)
  BY <1>1, <1>4, <1>7, MemoryTypes
     DEF StreamTail, LocalStreamTail, CreatedBy, Goto, At, storeVars, runVars, Starting, Introducing
<1>8. CASE SendTail(r)
  BY <1>1, <1>4, <1>8, MemoryTypes
     DEF SendTail, CreatedBy, Answer, At, storeVars, runVars, Starting, Introducing
<1>9. CASE Fetch(r)
  BY <1>1, <1>4, <1>9, MemoryTypes
     DEF Fetch, Answer, Goto, At, storeVars, runVars, Starting, Introducing
<1>10. CASE ResumeTail(r)
  BY <1>1, <1>4, <1>10, MemoryTypes
     DEF ResumeTail, Answer, Goto, At, storeVars, runVars, Starting, Introducing
<1>11. CASE \E c \in Config : Configure(r, c) \/ SetConfig(r, c)
  BY <1>1, <1>4, <1>11, MemoryTypes
     DEF Configure, SetConfig, Answer, Goto, At, runVars, Starting, Introducing
<1>12. CASE \E cs \in SUBSET Config : DeleteConfig(r, cs)
  BY <1>1, <1>4, <1>12, MemoryTypes
     DEF DeleteConfig, Answer, At, runVars, Starting, Introducing
<1>13. QED
  BY <1>2, <1>3, <1>5, <1>6, <1>7, <1>8, <1>9, <1>10, <1>11, <1>12 DEF Handler

\* The steps of a preparation.
LEMMA PrepareWork ==
  ASSUME ~StoreBlocks, MemoryInv, NEW r \in Req, Steady(r), Prepare(r)
  PROVE  WorkInv'
<1>1. TypeOK /\ PhaseOf(r) /\ TurnOf(r) /\ StatusOf(r)
  BY WorkFacts
<1>2. CASE PrepareStart(r)
  <2>1. /\ UNCHANGED <<status, cancelReq, processing, rpc, hpc>>
        /\ ppc[r] = "spawned" /\ ppc'[r] = "preparing"
    BY <1>1, <1>2, MemoryTypes DEF PrepareStart, storeVars, runVars, handlerVars
  <2>2. StatusOf(r)' /\ Starting(r) /\ Starting(r)' /\ (Live(r)' <=> Live(r))
    BY <1>1, <2>1 DEF StatusOf, Steady, Starting, Live
  <2>3. QED BY <2>1, <2>2, SameWork
<1>3. CASE PrepareFinish(r)
  <2>1. /\ Register(r) /\ UNCHANGED <<status, hpc>>
        /\ ppc[r] = "preparing" /\ ppc'[r] = "done"
    BY <1>1, <1>3, MemoryTypes DEF PrepareFinish, storeVars, handlerVars
  <2>2. hpc[r] \in {"replying", "done"} /\ rpc[r] = "none"
    BY <1>1, <2>1 DEF PhaseOf
  <2>3. Starting(r) /\ ~Starting(r)' /\ hpc'[r] # "fetched"
    BY <2>1, <2>2 DEF Starting, Introducing
  <2>4. QED BY <2>1, <2>2, <2>3, RegisterWork
<1>4. QED BY <1>1, <1>2, <1>3 DEF Prepare, PrepareFail, PrepareFailTail, TurnOf

\* The steps of a run.
LEMMA RunWork ==
  ASSUME AgentAssumption, ~StoreBlocks, MemoryInv, NEW u \in Req, Steady(u), Run(u)
  PROVE  WorkInv'
<1>1. Live(u)
  BY DEF Run, RunStart, RunStillborn, RunPush, RunYieldStatus, RunYieldArtifact, RunExhaust,
     RunComplete, RunRaise, RunLeave, RunAbort, RunFinally, RunAt, Live
<1>2. /\ TypeOK /\ StatusOf(u) /\ task[u] \in Req /\ ~Starting(u)
      /\ hpc[u] \notin Introducing \cup {"fetched"} /\ UNCHANGED <<handlerVars, ppc>>
      /\ ~Starting(u)'
  <2>1. /\ TypeOK /\ StatusOf(u) /\ task[u] \in Req /\ ~Starting(u) /\ PhaseOf(u)
    BY <1>1, WorkFacts DEF SoleInv
  <2>2. UNCHANGED <<handlerVars, ppc>>
    BY DEF Run, RunStart, RunStillborn, RunPush, RunYieldStatus, RunYieldArtifact, RunExhaust,
       RunComplete, RunRaise, RunLeave, RunAbort, RunFinally
  <2>3. QED BY <1>1, <2>1, <2>2 DEF Live, PhaseOf, Introducing, handlerVars, Starting
<1>3. ASSUME NEW s \in States, NEW p \in {"appended", "reported"}, RunAppend(u, s, p),
             ~cancelReq[u], p = "reported" => s \in FinalStates
      PROVE  WorkInv'
  <2>1. /\ status' = [status EXCEPT ![task[u]] = s] /\ rpc' = [rpc EXCEPT ![u] = p]
        /\ UNCHANGED <<cancelReq, processing>>
    BY <1>3 DEF RunAppend, AppendStatus, RunGoto
  <2>2. Live(u)' /\ Serving(u)' /\ StatusOf(u)' /\ rpc'[u] # "none"
    BY <1>2, <1>3, <2>1, MemoryTypes DEF Live, Serving, StatusOf, handlerVars, Starting
  <2>3. Turn(<<"run", u>>) \/ Turn(Idle)
    BY DEF Run, RunStart, RunStillborn, RunPush, RunYieldStatus, RunYieldArtifact, RunExhaust,
       RunComplete, RunRaise, RunLeave, RunAbort, RunFinally, RunAt, First
  <2>4. \A x \in Req \ {u} : hpc[x] # "fetched"
    BY <2>3 DEF Turn, Idle, MemoryInv, TurnInv, TurnOf, Working
  <2>5. QED BY <1>1, <1>2, <2>1, <2>2, <2>4, AloneWithTask, WriteWork
<1>4. CASE RunStart(u) \/ RunComplete(u) \/ RunRaise(u)
  BY <1>3, <1>4 DEF RunStart, RunComplete, RunRaise, RunAt, States, FinalStates
<1>5. CASE \E s \in ProcStates : RunYieldStatus(u, s)
  BY <1>3, <1>5 DEF RunYieldStatus, RunAt, AgentAssumption
<1>6. CASE RunPush(u) \/ RunYieldArtifact(u) \/ RunExhaust(u) \/ RunLeave(u)
  <2>1. /\ UNCHANGED <<status, cancelReq, processing>> /\ ~cancelReq[u]
        /\ \E p \in {"appended", "processing", "finally", "leaving", "open"} :
             /\ rpc' = [rpc EXCEPT ![u] = p]
             /\ p \in {"finally", "leaving"} => status[task[u]] \in FinalStates
    BY <1>2, <1>6 DEF RunPush, RunYieldArtifact, RunExhaust, RunLeave, RunGoto, RunAt, StatusOf,
       AppendArtifact, storeVars
  <2>2. Live(u)' /\ rpc'[u] # "none" /\ StatusOf(u)'
    BY <1>2, <2>1, MemoryTypes DEF Live, StatusOf, handlerVars
  <2>3. QED BY <1>1, <1>2, <2>1, <2>2, SameWork
<1>7. CASE RunAbort(u)
  <2>1. /\ UNCHANGED <<status, processing>> /\ cancelReq[u]
        /\ rpc' = [rpc EXCEPT ![u] = "finally"] /\ cancelReq' = [cancelReq EXCEPT ![u] = FALSE]
    BY <1>7 DEF RunAbort, storeVars
  <2>2. Live(u)' /\ rpc'[u] # "none" /\ StatusOf(u)'
    BY <1>2, <2>1, MemoryTypes DEF Live, StatusOf, handlerVars, FinalStates
  <2>3. \A x \in Req : cancelReq'[x] => cancelReq[x]
    BY <1>2, <2>1, MemoryTypes
  <2>4. QED BY <1>1, <1>2, <2>1, <2>2, <2>3, SameWork
<1>8. CASE RunStillborn(u) \/ RunFinally(u)
  <2>1. /\ rpc' = [rpc EXCEPT ![u] = "done"] /\ cancelReq' = [cancelReq EXCEPT ![u] = FALSE]
        /\ processing' = processing \/ processing' = [processing EXCEPT ![task[u]] = NoReq]
        /\ UNCHANGED status
    BY <1>8 DEF RunStillborn, RunFinally, storeVars
  <2>2. status[task[u]] \in FinalStates
    BY <1>2, <1>8 DEF RunStillborn, RunFinally, StatusOf, FinalStates
  <2>3. QED BY <1>1, <1>2, <2>1, <2>2, EndWork
<1>9. QED BY <1>4, <1>5, <1>6, <1>7, <1>8 DEF Run

\* Every step of the agent over the store in memory preserves its invariant.
THEOREM MemoryNext == AgentAssumption /\ ~StoreBlocks /\ MemoryInv /\ [Next]_vars => MemoryInv'
<1> SUFFICES ASSUME AgentAssumption, ~StoreBlocks, MemoryInv, [Next]_vars PROVE MemoryInv'
  OBVIOUS
<1>1. StreamInv' /\ ControlInv
  BY StreamNext DEF MemoryInv, StreamInv
<1>2. ASSUME NEW r \in Req, NEW k \in Kinds[r], NEW t \in Req, Arrive(r, k, t)
      PROVE  MemoryInv'
  <2>1. k \in AllKinds
    BY DEF AgentAssumption
  <2>2. QED BY <1>1, <1>2, <2>1, ArrivePhase, ArriveWork DEF MemoryInv
<1>3. ASSUME NEW r \in Req, Handler(r) \/ Prepare(r) \/ Run(r) PROVE MemoryInv'
  <2>1. Steady(r)
    BY <1>1, <1>3, HandlerControl, PrepareControl, RunControl
  <2>2. PhaseOf(r)' /\ TurnOf(r)' /\ \A x \in Req \ {r} : reply'[x] = reply[x]
    BY <1>3, HandlerPhases, WorkerPhases
  <2>3. PhaseInv' /\ TurnInv'
    BY <1>3, <2>1, <2>2, OnePhase, OneTurn, TakesTurn
  <2>4. WorkInv'
    BY <1>3, <2>1, HandlerWork, PrepareWork, RunWork
  <2>5. QED BY <1>1, <2>3, <2>4 DEF MemoryInv
<1>4. ASSUME UNCHANGED <<status, handlerVars, runVars, ppc, loop>> PROVE MemoryInv'
  BY <1>1, <1>4 DEF MemoryInv, PhaseInv, PhaseOf, TurnInv, TurnOf, WorkInv, StatusInv, StatusOf,
     SoleInv, OwnInv, LiveRunIsRegistered, ServedInv, Serving, Starting, Live, handlerVars, runVars
<1>5. CASE \E r \in Req : Forward(r)
  BY <1>4, <1>5 DEF Forward, ForwardOn, ForwardStart, ForwardSend, ForwardFail, Unsubscribe, storeVars
<1>6. CASE PushLoop \/ UNCHANGED vars
  BY <1>4, <1>6 DEF PushLoop, PushTake, PushDeliver, PushFail, vars, storeVars
<1>7. QED BY <1>2, <1>3, <1>5, <1>6 DEF Next

\* At the start nobody works.
LEMMA MemoryInit == Init => MemoryInv
<1> SUFFICES ASSUME Init PROVE MemoryInv
  OBVIOUS
<1>1. StreamInv
  BY StreamInit
<1>2. PhaseInv /\ TurnInv
  BY DEF Init, PhaseInv, PhaseOf, TurnInv, TurnOf, Working
<1>3. \A r \in Req : ~Live(r) /\ ~Starting(r)
  BY DEF Init, Live, Starting, Introducing
<1>4. WorkInv
  BY <1>3 DEF Init, WorkInv, StatusInv, StatusOf, Introducing, SoleInv, OwnInv, LiveRunIsRegistered, ServedInv
<1>5. QED BY <1>1, <1>2, <1>4 DEF MemoryInv

\* Over the store in memory the run registered for a task is its only unfinished
\* one (_processing): a cancel reaches the run it means, no task is run twice at a
\* time.  Over a store that suspends its callers two continues break it.
THEOREM RunsAreRegistered == ASSUME ~StoreBlocks PROVE Spec => []LiveRunIsRegistered
<1>1. MemoryInv => LiveRunIsRegistered
  BY DEF MemoryInv, WorkInv
<1>2. QED BY <1>1, AgentAssumption, MemoryInit, MemoryNext, PTL DEF Spec

\* Over the store in memory an open task always has a coroutine that moves it on,
\* whatever is cancelled, refused or resumed meanwhile.
THEOREM OpenTasksAreServed == ASSUME ~StoreBlocks PROVE Spec => []OpenTaskHasWorker
<1>1. MemoryInv => OpenTaskHasWorker
  BY DEF MemoryInv, WorkInv, ServedInv, Serving, Starting, Introducing, OpenTaskHasWorker
<1>2. QED BY <1>1, AgentAssumption, MemoryInit, MemoryNext, PTL DEF Spec

-----------------------------------------------------------------------------
(* A canceled task rests *)

\* The ready queue is extended by streams and runs of request r, and by its
\* preparation when its handler leaves it to one; or it loses its head, which
\* takes its first step.
Extended(r) ==
  /\ Len(ready) <= Len(ready')
  /\ \A i \in 1 .. Len(ready) : ready'[i] = ready[i]
  /\ \A i \in Len(ready) + 1 .. Len(ready') :
       \/ ready'[i] \in {"forward", "run"} \X {r}
       \/ ready'[i] = <<"prepare", r>> /\ hpc[r] \in Working

Popped(a) ==
  /\ 1 <= Len(ready) /\ Len(ready') = Len(ready) - 1 /\ ready[1] = a
  /\ \A i \in 1 .. Len(ready') : ready'[i] = ready[i + 1]

Took(r) ==
  \/ Popped(<<"handler", r>>) \/ Popped(<<"forward", r>>) \/ Popped(<<"run", r>>)
  \/ Popped(<<"prepare", r>>) /\ PrepareStart(r)

\* What two sequences put one behind the other hold.
LEMMA Concatenation ==
  ASSUME NEW S, NEW s \in Seq(S), NEW t \in Seq(S)
  PROVE  /\ Len(s \o t) = Len(s) + Len(t)
         /\ \A i \in 1 .. Len(s) : (s \o t)[i] = s[i]
         /\ \A i \in Len(s) + 1 .. Len(s) + Len(t) : (s \o t)[i] = t[i - Len(s)]
OBVIOUS

\* The ways a step has with the ready queue.
LEMMA QueueForms ==
  ASSUME ready \in Seq(Actor), NEW r \in Req
  PROVE  /\ ready' = ready => Extended(r)
         /\ \A a \in {"forward", "run"} \X {r} : ready' = Append(ready, a) => Extended(r)
         /\ ready' = Append(ready, <<"prepare", r>>) /\ hpc[r] \in Working =>
              Extended(r) /\ ready'[Len(ready')] = <<"prepare", r>> /\ 1 <= Len(ready')
         /\ ready' = ready \o << <<"forward", r>>, <<"prepare", r>> >> /\ hpc[r] \in Working =>
              Extended(r) /\ ready'[Len(ready')] = <<"prepare", r>> /\ 1 <= Len(ready')
         /\ \A a \in Actor : First(a) /\ ready' = Tail(ready) => Popped(a)
<1>1. ready' = ready => Extended(r)
  BY DEF Extended
<1>2. ASSUME NEW a \in {"forward", "run"} \X {r}, ready' = Append(ready, a)
      PROVE  Extended(r)
  BY <1>2 DEF Extended
<1>3. ASSUME ready' = Append(ready, <<"prepare", r>>), hpc[r] \in Working
      PROVE  Extended(r) /\ ready'[Len(ready')] = <<"prepare", r>> /\ 1 <= Len(ready')
  BY <1>3 DEF Extended
<1>4. ASSUME ready' = ready \o << <<"forward", r>>, <<"prepare", r>> >>, hpc[r] \in Working
      PROVE  Extended(r) /\ ready'[Len(ready')] = <<"prepare", r>> /\ 1 <= Len(ready')
  <2> DEFINE two == << <<"forward", r>>, <<"prepare", r>> >>
  <2>1. /\ two \in Seq(Actor) /\ Len(two) = 2
        /\ two[1] = <<"forward", r>> /\ two[2] = <<"prepare", r>>
    BY DEF Actor
  <2>2. ready' = ready \o two
    BY <1>4
  <2> HIDE DEF two
  <2>3. /\ Len(ready') = Len(ready) + 2
        /\ \A i \in 1 .. Len(ready) : ready'[i] = ready[i]
        /\ \A i \in Len(ready) + 1 .. Len(ready) + 2 : ready'[i] = two[i - Len(ready)]
    <3>1. /\ Len(ready \o two) = Len(ready) + Len(two)
          /\ \A i \in 1 .. Len(ready) : (ready \o two)[i] = ready[i]
          /\ \A i \in Len(ready) + 1 .. Len(ready) + Len(two) : (ready \o two)[i] = two[i - Len(ready)]
      BY <2>1, Concatenation
    <3>2. QED BY <2>1, <2>2, <3>1, Zenon
  <2>4. Len(ready) \in Nat
    OBVIOUS
  <2>5. \A i \in Len(ready) + 1 .. Len(ready) + 2 :
          i - Len(ready) = 1 \/ (i - Len(ready) = 2 /\ i = Len(ready) + 2)
    BY <2>4
  <2>6. ready'[Len(ready')] = <<"prepare", r>> /\ 1 <= Len(ready')
    <3>1. Len(ready) + 2 \in Len(ready) + 1 .. Len(ready) + 2 /\ (Len(ready) + 2) - Len(ready) = 2
      BY <2>4
    <3>2. ready'[Len(ready) + 2] = two[2]
      BY <2>3, <3>1
    <3>3. QED BY <2>1, <2>3, <2>4, <3>2
  <2>7. ASSUME NEW i \in Len(ready) + 1 .. Len(ready')
        PROVE  ready'[i] \in {"forward", "run"} \X {r} \/ ready'[i] = <<"prepare", r>>
    <3>1. ready'[i] = two[i - Len(ready)] /\ (i - Len(ready) = 1 \/ i - Len(ready) = 2)
      BY <2>3, <2>5
    <3>2. QED BY <2>1, <3>1
  <2>8. Len(ready) <= Len(ready')
    BY <2>3, <2>4
  <2>9. QED BY <1>4, <2>3, <2>6, <2>7, <2>8 DEF Extended
<1>5. ASSUME NEW a \in Actor, First(a), ready' = Tail(ready)
      PROVE  Popped(a)
  BY <1>5 DEF Popped, First
<1>6. QED BY <1>1, <1>2, <1>3, <1>4, <1>5

\* What each step of a request's coroutines does to the ready queue.
LEMMA QueueStep ==
  ASSUME ready \in Seq(Actor), NEW r \in Req, Handler(r) \/ Prepare(r) \/ Run(r) \/ Forward(r)
  PROVE  Extended(r) \/ Took(r)
<1>0. \A a \in {"handler", "forward", "prepare", "run"} : <<a, r>> \in Actor
  BY DEF Actor
<1>1. CASE Dispatch(r)
  BY <1>0, <1>1, QueueForms DEF Dispatch, Took
<1>2. CASE SendTail(r) \/ StreamTail(r) \/ Subscribe(r) \/ StartInline(r) \/ ResumeTail(r)
  BY <1>2, QueueForms
     DEF SendTail, StreamTail, Subscribe, StartInline, Register, ResumeTail, CreatedBy, At, Working
<1>3. CASE Prepare(r)
  BY <1>0, <1>3, QueueForms
     DEF Prepare, PrepareStart, PrepareFinish, PrepareFail, PrepareFailTail, Register, Took
<1>4. CASE Run(r)
  BY <1>0, <1>4, QueueForms DEF Run, RunStart, RunStillborn, RunPush, RunYieldStatus, RunYieldArtifact,
     RunExhaust, RunComplete, RunRaise, RunLeave, RunAbort, RunFinally, Took
<1>5. CASE Forward(r)
  BY <1>0, <1>5, QueueForms DEF Forward, ForwardOn, ForwardStart, ForwardSend, ForwardFail, Unsubscribe, Took
<1>6. CASE UNCHANGED ready
  BY <1>6, QueueForms
<1>7. QED
  BY <1>1, <1>2, <1>3, <1>4, <1>5, <1>6
     DEF Handler, Admit, Refuse, Create, LocalStreamTail, InlineFail, Fetch, Resume, Cancel,
         CancelTail, Configure, SetConfig, DeleteConfig, Reply

\* What an entry of the ready queue says after the step was there before it.
LEMMA QueueEntries ==
  ASSUME ready \in Seq(Actor), ready' \in Seq(Actor), NEW r \in Req, Extended(r) \/ Took(r)
  PROVE  \E d \in {0, 1} : \A i \in 1 .. Len(ready') :
           \/ i + d \in 1 .. Len(ready) /\ ready'[i] = ready[i + d]
           \/ ready'[i] \in {"forward", "run"} \X {r}
           \/ ready'[i] = <<"prepare", r>> /\ hpc[r] \in Working
<1>1. CASE Extended(r)
  BY <1>1 DEF Extended
<1>2. ASSUME NEW a \in Actor, Popped(a) PROVE \A i \in 1 .. Len(ready') :
        i + 1 \in 1 .. Len(ready) /\ ready'[i] = ready[i + 1]
  BY <1>2 DEF Popped
<1>3. CASE Took(r)
  BY <1>2, <1>3 DEF Took, Actor
<1>4. QED BY <1>1, <1>3

\* A request that is dispatched has only its handler to start.
LEMMA OnlyDispatches ==
  ASSUME MemoryInv, NEW r \in Req, hpc[r] = "dispatched",
         Handler(r) \/ Prepare(r) \/ Run(r) \/ Forward(r)
  PROVE  Dispatch(r)
<1>1. Handler(r) => Dispatch(r)
  BY DEF Handler, Admit, Refuse, Create, SendTail, StreamTail, LocalStreamTail,
     StartInline, InlineFail, Fetch, Resume, ResumeTail, Cancel, CancelTail, Subscribe, Configure,
     SetConfig, DeleteConfig, Reply, At, CreatedBy
<1>2. rpc[r] = "none" /\ ppc[r] = "none" /\ fpc[r] = "none"
  BY WorkFacts DEF MemoryInv, StreamInv, PhaseOf, FreshInv, Before
<1>3. ~Prepare(r) /\ ~Run(r)
  BY <1>2 DEF Prepare, PrepareStart, PrepareFinish, PrepareFail, PrepareFailTail, Run,
     RunStart, RunStillborn, RunPush, RunYieldStatus, RunYieldArtifact, RunExhaust, RunComplete,
     RunRaise, RunLeave, RunAbort, RunFinally, RunAt
<1>4. ~Forward(r)
  BY <1>2 DEF Forward, ForwardOn, ForwardStart, ForwardSend, ForwardFail, Unsubscribe
<1>5. QED BY <1>1, <1>3, <1>4

\* The handlers in the ready queue stay apart.
LEMMA QueueKept ==
  ASSUME MemoryInv, MemoryInv', QueueInv, NEW r \in Req, Steady(r),
         Handler(r) \/ Prepare(r) \/ Run(r) \/ Forward(r)
  PROVE  QueueInv'
<1>1. /\ ready \in Seq(Actor) /\ ready' \in Seq(Actor) /\ hpc \in [Req -> HandlerPhase]
  BY MemoryTypes, WorkFacts DEF MemoryInv, StreamInv, ControlInv, TypeOK, LoopType
<1>2. PICK d \in {0, 1} : \A i \in 1 .. Len(ready') :
           \/ i + d \in 1 .. Len(ready) /\ ready'[i] = ready[i + d]
           \/ ready'[i] \in {"forward", "run"} \X {r}
           \/ ready'[i] = <<"prepare", r>> /\ hpc[r] \in Working
  BY <1>1, QueueStep, QueueEntries
<1>3. ASSUME NEW c \in Req, NEW i \in 1 .. Len(ready'), ready'[i] = <<"handler", c>>
      PROVE  i + d \in 1 .. Len(ready) /\ ready[i + d] = <<"handler", c>>
  <2>1. ready'[i] \notin {"forward", "run"} \X {r} /\ ready'[i] # <<"prepare", r>>
    BY <1>3
  <2>2. QED BY <1>2, <1>3, <2>1
<1>4. ASSUME NEW c \in Req, NEW i \in 1 .. Len(ready'), NEW j \in 1 .. Len(ready'),
             ready'[i] = <<"handler", c>>, ready'[j] = <<"handler", c>>
      PROVE  i = j
  <2>1. i + d = j + d
    BY <1>3, <1>4 DEF QueueInv
  <2>2. QED BY <1>1, <2>1
<1>5. ASSUME NEW c \in Req, NEW i \in 1 .. Len(ready'), ready'[i] = <<"handler", c>>
      PROVE  hpc'[c] = "dispatched"
  <2>1. i + d \in 1 .. Len(ready) /\ ready[i + d] = <<"handler", c>>
    BY <1>3, <1>5
  <2>2. hpc[c] = "dispatched"
    BY <2>1 DEF QueueInv
  <2>3. CASE c # r
    BY <2>2, <2>3 DEF Steady
  <2>4. CASE c = r
    <3>1. ready[1] = <<"handler", c>> /\ 1 \in 1 .. Len(ready) /\ ready' = Tail(ready)
      BY <1>1, <2>2, <2>4, OnlyDispatches DEF Dispatch, First
    <3>2. ready'[i] = ready[i + 1] /\ i + 1 \in 1 .. Len(ready)
      BY <1>1, <3>1
    <3>3. i + 1 = 1
      BY <1>5, <3>1, <3>2 DEF QueueInv
    <3>4. QED BY <3>3
  <2>5. QED BY <2>3, <2>4
<1>6. QED BY <1>4, <1>5 DEF QueueInv

\* A request that arrives is put behind all others.
LEMMA QueueArrive ==
  ASSUME MemoryInv, QueueInv, NEW r \in Req, NEW k \in AllKinds, NEW t \in Req, Arrive(r, k, t)
  PROVE  QueueInv'
<1>1. /\ ready \in Seq(Actor) /\ hpc \in [Req -> HandlerPhase]
      /\ ready' = Append(ready, <<"handler", r>>) /\ hpc[r] = "idle"
      /\ hpc' = [hpc EXCEPT ![r] = "dispatched"]
  BY WorkFacts, MemoryTypes DEF Arrive
<1>2. /\ Len(ready) \in Nat /\ Len(ready') = Len(ready) + 1 /\ ready'[Len(ready) + 1] = <<"handler", r>>
      /\ \A i \in 1 .. Len(ready) : ready'[i] = ready[i]
  BY <1>1
<1>3. \A i \in 1 .. Len(ready) : ready[i] # <<"handler", r>>
  BY <1>1 DEF QueueInv
<1>4. ASSUME NEW c \in Req, NEW i \in 1 .. Len(ready'), NEW j \in 1 .. Len(ready'),
             ready'[i] = <<"handler", c>>, ready'[j] = <<"handler", c>>
      PROVE  i = j
  <2>1. CASE c = r
    <3>1. i = Len(ready) + 1 /\ j = Len(ready) + 1
      BY <1>2, <1>3, <1>4, <2>1
    <3>2. QED BY <3>1
  <2>2. CASE c # r
    <3>1. i # Len(ready) + 1 /\ j # Len(ready) + 1
      BY <1>2, <1>4, <2>2
    <3>2. i \in 1 .. Len(ready) /\ j \in 1 .. Len(ready)
      BY <1>2, <3>1
    <3>3. ready[i] = <<"handler", c>> /\ ready[j] = <<"handler", c>>
      BY <1>2, <1>4, <3>2
    <3>4. QED BY <3>2, <3>3 DEF QueueInv
  <2>3. QED BY <2>1, <2>2
<1>5. ASSUME NEW c \in Req, NEW i \in 1 .. Len(ready'), ready'[i] = <<"handler", c>>
      PROVE  hpc'[c] = "dispatched"
  <2>1. CASE c = r
    BY <1>1, <2>1
  <2>2. CASE c # r
    <3>1. i \in 1 .. Len(ready)
      BY <1>2, <1>5, <2>2
    <3>2. hpc[c] = "dispatched"
      BY <1>2, <1>5, <3>1 DEF QueueInv
    <3>3. QED BY <1>1, <3>2
  <2>3. QED BY <2>1, <2>2
<1>6. QED BY <1>4, <1>5 DEF QueueInv

-----------------------------------------------------------------------------
(* The preparation of a message/send comes before whatever names its task *)

\* Nobody names a task that is not there yet.
LEMMA UnbornUnnamed ==
  ASSUME MemoryInv, NEW r \in Req, log[r] = <<>>
  PROVE  \A c \in Req \ {r} : hpc[c] = "idle" \/ task[c] # r
BY DEF MemoryInv, StreamInv, ControlInv, NameInv, ExistInv, Engaged

\* The arrival of a request finds no handler at work, and goes behind all others.
LEMMA LineArrive ==
  ASSUME MemoryInv, QueueInv, LineInv, NEW r \in Req, NEW k \in AllKinds, NEW t \in Req, Arrive(r, k, t)
  PROVE  LineInv'
<1> SUFFICES ASSUME NEW x \in Req PROVE LineOf(x)'
  BY DEF LineInv
<1>1. /\ ready \in Seq(Actor) /\ hpc \in [Req -> HandlerPhase] /\ task \in [Req -> Req \cup {NoReq}]
      /\ kind \in [Req -> AllKinds \cup {"none"}]
      /\ ready' = Append(ready, <<"handler", r>>) /\ hpc[r] = "idle" /\ loop = Idle
      /\ hpc' = [hpc EXCEPT ![r] = "dispatched"] /\ task' = [task EXCEPT ![r] = t]
      /\ kind' = [kind EXCEPT ![r] = k] /\ UNCHANGED <<ppc, status>>
  BY WorkFacts, MemoryTypes DEF Arrive, Turn, storeVars
<1>2. /\ Len(ready) \in Nat /\ Len(ready') = Len(ready) + 1 /\ ready'[Len(ready) + 1] = <<"handler", r>>
      /\ \A i \in 1 .. Len(ready) : ready'[i] = ready[i] /\ i \in 1 .. Len(ready')
  BY <1>1
<1>3. hpc'[x] \notin {"created", "configured"}
  BY <1>1 DEF MemoryInv, TurnInv, TurnOf, Idle, Working
<1>4. ppc[r] = "none" /\ LineOf(x)
  BY <1>1, WorkFacts DEF PhaseOf, LineInv
<1>5. ppc'[x] = "spawned" => \E i \in 1 .. Len(ready') : ready'[i] = <<"prepare", x>>
  BY <1>1, <1>2, <1>4 DEF LineOf
<1>6. ASSUME ppc'[x] = "spawned", kind'[x] = "send" PROVE Leads(x)'
  <2>1. x # r /\ Leads(x)
    BY <1>1, <1>4, <1>6 DEF LineOf
  <2> SUFFICES ASSUME NEW c \in Req \ {x}, hpc'[c] # "idle", task'[c] = x
               PROVE  /\ hpc'[c] = "dispatched"
                      /\ \A i, j \in 1 .. Len(ready') :
                           ready'[i] = <<"prepare", x>> /\ ready'[j] = <<"handler", c>> => i < j
    BY DEF Leads
  <2>2. hpc'[c] = "dispatched"
    BY <1>1, <2>1 DEF Leads
  <2>3. ASSUME NEW i \in 1 .. Len(ready'), NEW j \in 1 .. Len(ready'),
               ready'[i] = <<"prepare", x>>, ready'[j] = <<"handler", c>>
        PROVE  i < j
    <3>1. i \in 1 .. Len(ready)
      BY <1>2, <2>3
    <3>2. CASE j = Len(ready) + 1
      BY <1>2, <3>1, <3>2
    <3>3. CASE j # Len(ready) + 1
      <4>1. j \in 1 .. Len(ready)
        BY <1>2, <3>3
      <4>2. ready[i] = <<"prepare", x>> /\ ready[j] = <<"handler", c>>
        BY <1>2, <2>3, <3>1, <4>1
      <4>3. c # r
        BY <1>1, <4>1, <4>2 DEF QueueInv
      <4>4. QED BY <1>1, <2>1, <3>1, <4>1, <4>2, <4>3 DEF Leads
    <3>4. QED BY <3>2, <3>3
  <2>4. QED BY <2>2, <2>3
<1>7. ppc'[x] \in {"spawned", "preparing"} /\ kind'[x] = "send" => status'[task'[x]] = "submitted"
  BY <1>1, <1>4 DEF LineOf
<1>8. QED BY <1>3, <1>5, <1>6, <1>7 DEF LineOf

\* Who writes a task's status: a handler that creates, resumes or cancels it, or
\* a run of it.
LEMMA StatusWriters ==
  ASSUME AgentAssumption, ~StoreBlocks, MemoryInv, NEW u \in Req,
         Handler(u) \/ Prepare(u) \/ Run(u) \/ Forward(u)
  PROVE  \/ status' = status
         \/ /\ \E s \in States : status' = [status EXCEPT ![task[u]] = s]
            /\ \/ Create(u) /\ hpc[u] = "begin" /\ kind[u] \in Creators
               \/ (Resume(u) \/ Cancel(u)) /\ hpc[u] = "fetched"
               \/ Live(u)
<1>1. CASE Create(u)
  <2>1. task[u] = u
    BY <1>1 DEF Create, At, MemoryInv, StreamInv, ControlInv, NameInv
  <2>2. QED BY <1>1, <2>1 DEF Create, CreateTask, At, States
<1>2. CASE Resume(u) \/ Cancel(u)
  BY <1>2 DEF Resume, Cancel, At, AppendStatus, storeVars, States, FinalStates
<1>3. CASE Run(u)
  BY <1>3 DEF Run, RunStart, RunStillborn, RunPush, RunYieldStatus, RunYieldArtifact,
     RunExhaust, RunComplete, RunRaise, RunLeave, RunAbort, RunFinally, RunAppend, RunAt,
     AppendStatus, AppendArtifact, storeVars, Live, States, FinalStates, AgentAssumption
<1>4. CASE Prepare(u) \/ Forward(u)
  BY <1>4 DEF Prepare, PrepareStart, PrepareFinish, PrepareFail, PrepareFailTail,
     Forward, ForwardOn, ForwardStart, ForwardSend, ForwardFail, Unsubscribe, storeVars
<1>5. CASE UNCHANGED status
  BY <1>5
<1>6. QED
  BY <1>1, <1>2, <1>3, <1>4, <1>5
     DEF Handler, Dispatch, Admit, Refuse, SendTail, StreamTail, LocalStreamTail, StartInline,
         InlineFail, Fetch, ResumeTail, CancelTail, Subscribe, Configure, SetConfig, DeleteConfig,
         Reply, storeVars

\* A preparation is left to itself by the tail of a send or of a continueStream,
\* and takes its first step from the head of the ready queue.
LEMMA PrepareSteps ==
  ASSUME MemoryInv, NEW u \in Req, Handler(u) \/ Prepare(u) \/ Run(u) \/ Forward(u)
  PROVE  \/ ppc'[u] = ppc[u]
         \/ /\ ppc'[u] = "spawned" /\ ppc[u] = "none"
            /\ \/ SendTail(u) /\ kind[u] = "send" /\ hpc[u] \in {"created", "configured"}
               \/ ResumeTail(u) /\ kind[u] = "continueStream"
            /\ ready'[Len(ready')] = <<"prepare", u>> /\ 1 <= Len(ready')
            /\ status' = status
         \/ PrepareStart(u) /\ ppc[u] = "spawned" /\ ppc'[u] = "preparing" /\ status' = status
         \/ Prepare(u) /\ ppc'[u] \in {"failed", "done"}
<1>1. TypeOK /\ PhaseOf(u) /\ ready \in Seq(Actor) /\ ppc \in [Req -> PreparePhase]
  BY WorkFacts, MemoryTypes
<1>2. CASE SendTail(u)
  BY <1>1, <1>2, QueueForms DEF SendTail, CreatedBy, At, PhaseOf, Working, storeVars
<1>3. CASE ResumeTail(u)
  <2>1. hpc[u] = "resumed" /\ status' = status /\ ppc[u] = "none"
    BY <1>1, <1>3 DEF ResumeTail, At, PhaseOf, storeVars
  <2>2. CASE kind[u] = "continueStream"
    <3>1. /\ ready' = ready \o << <<"forward", u>>, <<"prepare", u>> >>
          /\ ppc' = [ppc EXCEPT ![u] = "spawned"]
      BY <1>3, <2>2 DEF ResumeTail
    <3>2. ready'[Len(ready')] = <<"prepare", u>> /\ 1 <= Len(ready')
      BY <1>1, <2>1, <3>1, QueueForms DEF Working
    <3>3. QED BY <1>1, <1>3, <2>1, <2>2, <3>1, <3>2
  <2>3. CASE kind[u] # "continueStream"
    BY <1>3, <2>3 DEF ResumeTail
  <2>4. QED BY <2>2, <2>3
<1>4. CASE Prepare(u)
  BY <1>1, <1>4 DEF Prepare, PrepareStart, PrepareFinish, PrepareFail, PrepareFailTail, storeVars
<1>5. CASE Run(u)
  BY <1>5 DEF Run, RunStart, RunStillborn, RunPush, RunYieldStatus, RunYieldArtifact,
     RunExhaust, RunComplete, RunRaise, RunLeave, RunAbort, RunFinally
<1>6. CASE Forward(u)
  BY <1>6 DEF Forward, ForwardOn, ForwardStart, ForwardSend, ForwardFail, Unsubscribe
<1>7. CASE UNCHANGED ppc
  BY <1>7
<1>8. QED
  BY <1>2, <1>3, <1>4, <1>5, <1>6, <1>7
     DEF Handler, Dispatch, Admit, Refuse, Create, StreamTail, LocalStreamTail, StartInline,
         InlineFail, Fetch, Resume, Cancel, CancelTail, Subscribe, Configure, SetConfig, DeleteConfig,
         Reply

\* A handler comes to "created" or "configured" with the creation of its task.
LEMMA CreatedSteps ==
  ASSUME MemoryInv, NEW u \in Req, Handler(u) \/ Prepare(u) \/ Run(u) \/ Forward(u),
         hpc'[u] \in {"created", "configured"}
  PROVE  hpc[u] \in {"created", "configured"} \/ (Create(u) /\ log[u] = <<>>)
<1>1. hpc \in [Req -> HandlerPhase]
  BY WorkFacts, MemoryTypes
<1>2. CASE Create(u)
  BY <1>2 DEF Create, At, MemoryInv, StreamInv, BirthInv, Before
<1>3. CASE \E c \in Config : Configure(u, c)
  BY <1>3 DEF Configure, At
<1>4. CASE Prepare(u) \/ Run(u) \/ Forward(u)
  BY <1>4 DEF Prepare, PrepareStart, PrepareFinish, PrepareFail, PrepareFailTail,
     Run, RunStart, RunStillborn, RunPush, RunYieldStatus, RunYieldArtifact,
     RunExhaust, RunComplete, RunRaise, RunLeave, RunAbort, RunFinally,
     Forward, ForwardOn, ForwardStart, ForwardSend, ForwardFail, Unsubscribe, handlerVars
<1>5. CASE Handler(u) /\ ~Create(u) /\ ~(\E c \in Config : Configure(u, c))
  BY <1>1, <1>5
     DEF Handler, Dispatch, Admit, Refuse, SendTail, StreamTail, LocalStreamTail, StartInline,
         InlineFail, Fetch, Resume, ResumeTail, Cancel, CancelTail, Subscribe, SetConfig, DeleteConfig,
         Reply, Goto, Answer
<1>6. QED BY <1>2, <1>3, <1>4, <1>5

\* The entries of others, and those of handlers, stay in their order in the queue.
LEMMA LineOrder ==
  ASSUME MemoryInv, MemoryInv', NEW u \in Req, Handler(u) \/ Prepare(u) \/ Run(u) \/ Forward(u),
         NEW x \in Req, x # u \/ hpc[u] \notin Working, NEW c \in Req, Leads(x), c # x,
         hpc[c] # "idle" /\ task[c] = x
  PROVE  \A i, j \in 1 .. Len(ready') :
           ready'[i] = <<"prepare", x>> /\ ready'[j] = <<"handler", c>> => i < j
<1>1. ready \in Seq(Actor) /\ ready' \in Seq(Actor)
  BY MemoryTypes, WorkFacts DEF MemoryInv, StreamInv, ControlInv, TypeOK, LoopType
<1>2. PICK d \in {0, 1} : \A i \in 1 .. Len(ready') :
           \/ i + d \in 1 .. Len(ready) /\ ready'[i] = ready[i + d]
           \/ ready'[i] \in {"forward", "run"} \X {u}
           \/ ready'[i] = <<"prepare", u>> /\ hpc[u] \in Working
  BY <1>1, QueueStep, QueueEntries
<1> SUFFICES ASSUME NEW i \in 1 .. Len(ready'), NEW j \in 1 .. Len(ready'),
                    ready'[i] = <<"prepare", x>>, ready'[j] = <<"handler", c>>
             PROVE  i < j
  OBVIOUS
<1>3. i + d \in 1 .. Len(ready) /\ ready[i + d] = <<"prepare", x>>
  <2>1. ready'[i] \notin {"forward", "run"} \X {u} /\ ~(ready'[i] = <<"prepare", u>> /\ hpc[u] \in Working)
    OBVIOUS
  <2>2. QED BY <1>2, <2>1
<1>4. j + d \in 1 .. Len(ready) /\ ready[j + d] = <<"handler", c>>
  <2>1. ready'[j] \notin {"forward", "run"} \X {u} /\ ready'[j] # <<"prepare", u>>
    OBVIOUS
  <2>2. QED BY <1>2, <2>1
<1>5. i + d < j + d
  BY <1>3, <1>4 DEF Leads
<1>6. QED BY <1>1, <1>5

\* A step of another request leaves the line of a send alone.
LEMMA LineOthers ==
  ASSUME AgentAssumption, ~StoreBlocks, MemoryInv, MemoryInv', QueueInv, LineInv, NEW u \in Req, Steady(u),
         hpc[u] # "idle", Handler(u) \/ Prepare(u) \/ Run(u) \/ Forward(u), NEW x \in Req \ {u}
  PROVE  LineOf(x)'
<1>1. /\ LineOf(x) /\ hpc'[x] = hpc[x] /\ ppc'[x] = ppc[x] /\ UNCHANGED <<task, kind>> /\ hpc'[u] # "idle"
      /\ \A c \in Req \ {u} : hpc'[c] = hpc[c]
  BY DEF LineInv, Steady
<1>2. hpc'[x] \in {"created", "configured"} => \A c \in Req \ {x} : hpc'[c] = "idle" \/ task'[c] # x
  BY <1>1 DEF LineOf
<1>3. ready \in Seq(Actor) /\ ready' \in Seq(Actor)
  BY MemoryTypes, WorkFacts DEF MemoryInv, StreamInv, ControlInv, TypeOK, LoopType
<1>4. ppc'[x] = "spawned" => \E i \in 1 .. Len(ready') : ready'[i] = <<"prepare", x>>
  <2> SUFFICES ASSUME ppc'[x] = "spawned"
               PROVE  \E i \in 1 .. Len(ready') : ready'[i] = <<"prepare", x>>
    OBVIOUS
  <2>1. PICK i \in 1 .. Len(ready) : ready[i] = <<"prepare", x>>
    BY <1>1 DEF LineOf
  <2>2. CASE Extended(u)
    BY <1>3, <2>1, <2>2 DEF Extended
  <2>3. CASE Took(u)
    <3>1. ready[1] # <<"prepare", x>> /\ Len(ready') = Len(ready) - 1
          /\ \A j \in 1 .. Len(ready') : ready'[j] = ready[j + 1]
      BY <2>3 DEF Took, Popped
    <3>2. i # 1
      BY <2>1, <3>1
    <3>3. i - 1 \in 1 .. Len(ready') /\ (i - 1) + 1 = i
      BY <1>3, <3>1, <3>2
    <3>4. QED BY <2>1, <3>1, <3>3
  <2>4. QED BY <1>3, <2>2, <2>3, QueueStep
<1>5. ~(ppc[x] = "spawned" /\ kind[x] = "send" /\ task[u] = x)
  <2> SUFFICES ASSUME ppc[x] = "spawned", kind[x] = "send", task[u] = x PROVE FALSE
    OBVIOUS
  <2>1. Leads(x)
    BY <1>1 DEF LineOf
  <2>2. PICK i \in 1 .. Len(ready) : ready[i] = <<"prepare", x>>
    BY <1>1 DEF LineOf
  <2>3. Dispatch(u)
    BY <2>1, OnlyDispatches DEF Leads
  <2>4. ready[1] = <<"handler", u>> /\ 1 \in 1 .. Len(ready)
    BY <1>3, <2>3 DEF Dispatch, First
  <2>5. i < 1
    BY <2>1, <2>2, <2>4 DEF Leads
  <2>6. QED BY <1>3, <2>5
<1>6. ASSUME ppc'[x] = "spawned", kind'[x] = "send" PROVE Leads(x)'
  <2>1. Leads(x) /\ task[u] # x
    BY <1>1, <1>5, <1>6 DEF LineOf
  <2> SUFFICES ASSUME NEW c \in Req \ {x}, hpc'[c] # "idle", task'[c] = x
               PROVE  /\ hpc'[c] = "dispatched"
                      /\ \A i, j \in 1 .. Len(ready') :
                           ready'[i] = <<"prepare", x>> /\ ready'[j] = <<"handler", c>> => i < j
    BY DEF Leads
  <2>2. c # u /\ hpc[c] # "idle" /\ task[c] = x
    BY <1>1, <2>1
  <2>3. hpc'[c] = "dispatched"
    BY <1>1, <2>1, <2>2 DEF Leads
  <2>4. QED BY <2>1, <2>2, <2>3, LineOrder
<1>7. ASSUME ppc'[x] \in {"spawned", "preparing"}, kind'[x] = "send" PROVE status'[task'[x]] = "submitted"
  <2>1. status[task[x]] = "submitted" /\ task[x] = x
    <3>1. hpc[x] # "idle"
      BY <1>1, <1>7, ArrivedFacts DEF MemoryInv, StreamInv
    <3>2. QED BY <1>1, <1>7, <3>1 DEF LineOf, MemoryInv, StreamInv, ControlInv, NameInv, Creators
  <2>2. task[u] = x => ~Live(u) /\ ppc[x] = "preparing"
    BY <1>1, <1>5, <1>7, <2>1, WorkFacts DEF SoleInv, Starting
  <2>3. ppc[x] = "preparing" => ~Turn(<<"handler", u>>)
    BY DEF MemoryInv, TurnInv, TurnOf, Turn, Idle
  <2>4. CASE task[u] = x
    <3>1. status' = status
      BY <2>2, <2>3, <2>4, StatusWriters DEF Create, Resume, Cancel, At
    <3>2. QED BY <1>1, <2>1, <3>1
  <2>5. CASE task[u] # x
    <3>1. status' = status \/ \E s \in States : status' = [status EXCEPT ![task[u]] = s]
      BY StatusWriters
    <3>2. status \in [Req -> States \cup {"none"}]
      BY WorkFacts, MemoryTypes
    <3>3. status'[x] = status[x]
      BY <2>5, <3>1, <3>2
    <3>4. QED BY <1>1, <2>1, <3>3
  <2>6. QED BY <2>4, <2>5
<1>8. QED BY <1>2, <1>4, <1>6, <1>7 DEF LineOf

\* A step of a request leaves its own line in order.
LEMMA LineOwn ==
  ASSUME AgentAssumption, ~StoreBlocks, MemoryInv, MemoryInv', QueueInv, LineInv, NEW u \in Req, Steady(u),
         hpc[u] # "idle", Handler(u) \/ Prepare(u) \/ Run(u) \/ Forward(u)
  PROVE  LineOf(u)'
<1>1. /\ LineOf(u) /\ PhaseOf(u) /\ StatusOf(u) /\ UNCHANGED <<task, kind>>
      /\ \A c \in Req \ {u} : hpc'[c] = hpc[c]
  BY WorkFacts DEF LineInv, Steady
<1>2. ASSUME hpc'[u] \in {"created", "configured"}, NEW c \in Req \ {u}
      PROVE  hpc'[c] = "idle" \/ task'[c] # u
  BY <1>1, <1>2, CreatedSteps, UnbornUnnamed DEF LineOf
<1>3. ready \in Seq(Actor) /\ ready' \in Seq(Actor)
  BY MemoryTypes, WorkFacts DEF MemoryInv, StreamInv, ControlInv, TypeOK, LoopType
<1>4. ASSUME ppc'[u] = "spawned" PROVE \E i \in 1 .. Len(ready') : ready'[i] = <<"prepare", u>>
  <2>1. CASE ppc[u] = "spawned"
    <3>1. PICK i \in 1 .. Len(ready) : ready[i] = <<"prepare", u>>
      BY <1>1, <2>1 DEF LineOf
    <3>2. CASE Extended(u)
      BY <1>3, <3>1, <3>2 DEF Extended
    <3>3. CASE Took(u)
      <4>1. ~PrepareStart(u)
        BY <1>4, WorkFacts, MemoryTypes DEF PrepareStart
      <4>2. ready[1] # <<"prepare", u>> /\ Len(ready') = Len(ready) - 1
            /\ \A j \in 1 .. Len(ready') : ready'[j] = ready[j + 1]
        BY <3>3, <4>1 DEF Took, Popped
      <4>3. i # 1
        BY <3>1, <4>2
      <4>4. i - 1 \in 1 .. Len(ready') /\ (i - 1) + 1 = i
        BY <1>3, <4>2, <4>3
      <4>5. QED BY <3>1, <4>2, <4>4
    <3>4. QED BY <1>3, <3>2, <3>3, QueueStep
  <2>2. CASE ppc[u] # "spawned"
    <3>1. ready'[Len(ready')] = <<"prepare", u>> /\ 1 <= Len(ready')
      BY <1>4, <2>2, PrepareSteps
    <3>2. QED BY <1>3, <3>1
  <2>3. QED BY <2>1, <2>2
<1>5. ASSUME ppc'[u] = "spawned", kind'[u] = "send" PROVE Leads(u)'
  <2>1. CASE ppc[u] = "spawned"
    <3>1. Leads(u) /\ hpc[u] \notin Working
      BY <1>1, <1>5, <2>1 DEF LineOf, PhaseOf, Working
    <3>2. \A c \in Req \ {u} : hpc'[c] # "idle" /\ task'[c] = u =>
            hpc'[c] = "dispatched" /\ hpc[c] # "idle" /\ task[c] = u
      BY <1>1, <3>1 DEF Leads
    <3>3. QED BY <3>1, <3>2, LineOrder DEF Leads
  <2>2. CASE ppc[u] # "spawned"
    <3>1. hpc[u] \in {"created", "configured"}
      BY <1>1, <1>5, <2>2, PrepareSteps
    <3>2. \A c \in Req \ {u} : hpc'[c] = "idle" \/ task'[c] # u
      BY <1>1, <3>1 DEF LineOf
    <3>3. QED BY <3>2 DEF Leads
  <2>3. QED BY <2>1, <2>2
<1>6. ASSUME ppc'[u] \in {"spawned", "preparing"}, kind'[u] = "send" PROVE status'[task'[u]] = "submitted"
  <2>1. status[task[u]] = "submitted"
    BY <1>1, <1>6, PrepareSteps DEF LineOf, StatusOf, Introducing
  <2>2. status' = status
    <3>1. CASE ppc[u] \in {"spawned", "preparing"}
      BY <1>1, <3>1, StatusWriters DEF PhaseOf, Live
    <3>2. CASE ppc[u] \notin {"spawned", "preparing"}
      BY <1>6, <3>2, PrepareSteps
    <3>3. QED BY <3>1, <3>2
  <2>3. QED BY <1>1, <2>1, <2>2
<1>7. QED BY <1>2, <1>4, <1>5, <1>6 DEF LineOf

-----------------------------------------------------------------------------
(* Nobody works on a canceled task *)

\* A cancel reaches every unfinished run of its task.
LEMMA CancelReaches ==
  ASSUME AgentAssumption, MemoryInv, NEW u \in Req, Cancel(u)
  PROVE  \A x \in Req : /\ Live(x) /\ task[x] = task[u] => cancelReq'[x]
                        /\ cancelReq[x] => cancelReq'[x]
<1>1. /\ cancelReq \in [Req -> BOOLEAN] /\ processing \in [Req -> Req \cup {NoReq}]
      /\ LiveRunIsRegistered /\ TypeOK
  BY WorkFacts, MemoryTypes
<1>2. ASSUME NEW x \in Req, Live(x), task[x] = task[u] PROVE cancelReq'[x]
  <2>1. processing[task[u]] = x /\ HasLiveRun(task[u])
    BY <1>1, <1>2 DEF LiveRunIsRegistered, HasLiveRun, AgentAssumption
  <2>2. cancelReq' = [cancelReq EXCEPT ![x] = TRUE]
    BY <2>1 DEF Cancel
  <2>3. QED BY <1>1, <2>2
<1>3. ASSUME NEW x \in Req, cancelReq[x] PROVE cancelReq'[x]
  BY <1>1, <1>3 DEF Cancel
<1>4. QED BY <1>2, <1>3

\* Only a cancel writes that a task is canceled: no processor reports it.
LEMMA OnlyCancels ==
  ASSUME AgentAssumption, ~StoreBlocks, "canceled" \notin ProcStates, MemoryInv, NEW u \in Req,
         Handler(u) \/ Prepare(u) \/ Run(u) \/ Forward(u)
  PROVE  \/ Cancel(u) /\ hpc[u] = "fetched"
         \/ \A t \in Req : status'[t] = "canceled" => status[t] = "canceled"
<1>1. status \in [Req -> States \cup {"none"}]
  BY WorkFacts, MemoryTypes
<1>2. CASE Cancel(u)
  BY <1>2 DEF Cancel, At
<1>3. CASE Create(u) \/ Resume(u)
  BY <1>1, <1>3 DEF Create, CreateTask, Resume, AppendStatus, storeVars
<1>4. CASE Run(u)
  BY <1>1, <1>4 DEF Run, RunStart, RunStillborn, RunPush, RunYieldStatus, RunYieldArtifact,
     RunExhaust, RunComplete, RunRaise, RunLeave, RunAbort, RunFinally, RunAppend,
     AppendStatus, AppendArtifact, storeVars
<1>5. CASE Prepare(u) \/ Forward(u)
  BY <1>5 DEF Prepare, PrepareStart, PrepareFinish, PrepareFail, PrepareFailTail,
     Forward, ForwardOn, ForwardStart, ForwardSend, ForwardFail, Unsubscribe, storeVars
<1>6. CASE UNCHANGED status
  BY <1>6
<1>7. QED
  BY <1>2, <1>3, <1>4, <1>5, <1>6
     DEF Handler, Dispatch, Admit, Refuse, SendTail, StreamTail, LocalStreamTail, StartInline,
         InlineFail, Fetch, ResumeTail, CancelTail, Subscribe, Configure, SetConfig, DeleteConfig,
         Reply, storeVars

\* A step of request u adds to the undying runs at most the one it may add.
LEMMA RestStep ==
  ASSUME AgentAssumption, ~StoreBlocks, "canceled" \notin ProcStates, MemoryInv, LineInv,
         NEW u \in Req, Steady(u), hpc[u] # "idle",
         Handler(u) \/ Prepare(u) \/ Run(u) \/ Forward(u)
  PROVE  NothingRevives
<1>1. /\ TypeOK /\ PhaseOf(u) /\ StatusOf(u) /\ LineOf(u) /\ UNCHANGED <<task, kind>> /\ task[u] \in Req
      /\ cancelReq \in [Req -> BOOLEAN] /\ rpc \in [Req -> RunPhase] /\ status \in [Req -> States \cup {"none"}]
  BY WorkFacts, MemoryTypes, ArrivedFacts DEF LineInv, Steady, MemoryInv, StreamInv
<1> SUFFICES ASSUME NEW x \in Req, Live(x)', status'[task[x]] = "canceled",
                    ~cancelReq'[x], rpc'[x] # "finally"
             PROVE  Undying(x) \/ (kind[x] = "continueStream" /\ ppc[x] = "preparing")
  BY <1>1 DEF NothingRevives, Undying
<1>2. CASE x # u
  <2>1. Live(x) /\ rpc'[x] = rpc[x] /\ task[x] \in Req
    BY <1>2, WorkFacts DEF Live, Steady
  <2>2. CASE Cancel(u)
    <3>1. CASE task[x] = task[u]
      BY <2>1, <2>2, <3>1, CancelReaches
    <3>2. CASE task[x] # task[u]
      <4>1. status[task[x]] = "canceled"
        BY <1>1, <2>1, <2>2, <3>2 DEF Cancel, AppendStatus
      <4>2. QED BY <2>1, <2>2, <4>1, CancelReaches DEF Undying
    <3>3. QED BY <3>1, <3>2
  <2>3. CASE ~Cancel(u)
    <3>1. status[task[x]] = "canceled"
      BY <2>1, <2>3, OnlyCancels
    <3>2. cancelReq'[x] = cancelReq[x]
      BY <1>1, <1>2, <2>3
         DEF Handler, Dispatch, Admit, Refuse, Create, SendTail, StreamTail, LocalStreamTail, StartInline,
             InlineFail, Fetch, Resume, ResumeTail, CancelTail, Subscribe, Configure, SetConfig,
             DeleteConfig, Reply, Register, Prepare, PrepareStart, PrepareFinish, PrepareFail, PrepareFailTail,
             Run, RunStart, RunStillborn, RunPush, RunYieldStatus, RunYieldArtifact,
             RunExhaust, RunComplete, RunRaise, RunLeave, RunAbort, RunFinally, RunAppend, RunGoto,
             Forward, ForwardOn, ForwardStart, ForwardSend, ForwardFail, Unsubscribe, runVars
    <3>3. QED BY <2>1, <3>1, <3>2 DEF Undying
  <2>4. QED BY <2>2, <2>3
<1>3. CASE x = u /\ Run(u)
  <2>1. ~Cancel(u)
    BY <1>1, <1>3 DEF Cancel, At, PhaseOf, Run, RunStart, RunStillborn, RunPush, RunYieldStatus,
       RunYieldArtifact, RunExhaust, RunComplete, RunRaise, RunLeave, RunAbort, RunFinally, RunAt
  <2>2. Live(u) /\ status[task[u]] = "canceled"
    BY <1>1, <1>3, <2>1, OnlyCancels DEF Live, Run, RunStart, RunStillborn, RunPush, RunYieldStatus,
       RunYieldArtifact, RunExhaust, RunComplete, RunRaise, RunLeave, RunAbort, RunFinally, RunAt
  <2>3. CASE cancelReq[u] \/ rpc[u] = "finally"
    <3>1. RunStillborn(u) \/ RunAbort(u) \/ RunFinally(u)
      BY <1>3, <2>3 DEF Run, RunStart, RunPush, RunYieldStatus, RunYieldArtifact, RunExhaust,
         RunComplete, RunRaise, RunLeave, RunAt
    <3>2. rpc'[u] \in {"finally", "done"}
      BY <1>1, <3>1 DEF RunStillborn, RunAbort, RunFinally
    <3>3. QED BY <1>3, <3>2 DEF Live
  <2>4. QED BY <1>3, <2>2, <2>3 DEF Undying
<1>4. CASE x = u /\ (Prepare(u) \/ Handler(u) \/ Forward(u)) /\ rpc' = rpc
  <2>1. Live(u)
    BY <1>4 DEF Live
  <2>2. hpc[u] \in {"replying", "done"} /\ ppc[u] \notin {"spawned", "preparing"} /\ ppc[u] # "failed"
    BY <1>1, <2>1, WorkFacts DEF PhaseOf, TurnOf, Live
  <2>3. Handler(u) => Reply(u) \/ Dispatch(u) \/ Admit(u)
    BY <2>2 DEF Handler, Refuse, Create, SendTail, StreamTail, LocalStreamTail, StartInline, InlineFail,
       Fetch, Resume, ResumeTail, Cancel, CancelTail, Subscribe, Configure, SetConfig, DeleteConfig,
       CreatedBy, At
  <2>4. ~Prepare(u)
    BY <2>2 DEF Prepare, PrepareStart, PrepareFinish, PrepareFail, PrepareFailTail
  <2>5. UNCHANGED <<status, cancelReq>>
    BY <1>4, <2>3, <2>4 DEF Reply, Dispatch, Admit, Forward, ForwardOn, ForwardStart, ForwardSend,
       ForwardFail, Unsubscribe, storeVars, runVars
  <2>6. QED BY <1>1, <1>4, <2>1, <2>5 DEF Undying
<1>5. CASE x = u /\ StartInline(u)
  <2>1. status[task[u]] # "canceled"
    BY <1>1, <1>5 DEF StartInline, At, StatusOf, Introducing
  <2>2. QED BY <1>5, <2>1 DEF StartInline, storeVars
<1>6. CASE x = u /\ PrepareFinish(u)
  <2>1. kind[u] = "send" => status[task[u]] = "submitted"
    BY <1>1, <1>6 DEF PrepareFinish, LineOf
  <2>2. kind[u] \in {"send", "continueStream"} /\ ppc[u] = "preparing" /\ status' = status
    BY <1>1, <1>6 DEF PrepareFinish, PhaseOf, storeVars
  <2>3. QED BY <1>6, <2>1, <2>2
<1>7. Handler(u) => StartInline(u) \/ rpc' = rpc
  BY DEF Handler, Dispatch, Admit, Refuse, Create, SendTail, StreamTail, LocalStreamTail,
     InlineFail, Fetch, Resume, ResumeTail, Cancel, CancelTail, Subscribe, Configure, SetConfig,
     DeleteConfig, Reply, runVars
<1>8. Prepare(u) => PrepareFinish(u) \/ rpc' = rpc
  BY DEF Prepare, PrepareStart, PrepareFail, PrepareFailTail, runVars
<1>9. Forward(u) => rpc' = rpc
  BY DEF Forward, ForwardOn, ForwardStart, ForwardSend, ForwardFail, Unsubscribe, runVars
<1>10. QED BY <1>2, <1>3, <1>4, <1>5, <1>6, <1>7, <1>8, <1>9

\* A step of a coroutine is one of a request that arrived, and keeps to it.
LEMMA CoroutineStep ==
  ASSUME AgentAssumption, MemoryInv, NEW r \in Req, Handler(r) \/ Prepare(r) \/ Run(r) \/ Forward(r)
  PROVE  Steady(r) /\ hpc[r] # "idle"
<1>1. ControlInv
  BY DEF MemoryInv, StreamInv
<1>2. hpc[r] # "idle" \/ ppc[r] # "none" \/ rpc[r] # "none" \/ fpc[r] # "none"
  BY HandlerShape DEF Prepare, PrepareStart, PrepareFinish, PrepareFail, PrepareFailTail,
     Run, RunStart, RunStillborn, RunPush, RunYieldStatus, RunYieldArtifact, RunExhaust,
     RunComplete, RunRaise, RunLeave, RunAbort, RunFinally, RunAt, Forward, ForwardOn,
     ForwardStart, ForwardSend, ForwardFail, Unsubscribe
<1>3. hpc[r] # "idle"
  BY <1>1, <1>2, ArrivedFacts
<1>4. Steady(r)
  BY <1>1, HandlerControl, PrepareControl, RunControl, ForwardControl
<1>5. QED BY <1>3, <1>4

\* Every step preserves the invariant of cancelled tasks, and adds no undying run
\* but the one of a streaming continue that was in preparation.
LEMMA QuietNext ==
  ASSUME AgentAssumption, ~StoreBlocks, "canceled" \notin ProcStates, QuietInv, [Next]_vars
  PROVE  QuietInv' /\ NothingRevives
<1>1. MemoryInv /\ MemoryInv' /\ QueueInv /\ LineInv
  BY MemoryNext DEF QuietInv
<1>2. ASSUME NEW r \in Req, NEW k \in Kinds[r], NEW t \in Req, Arrive(r, k, t)
      PROVE  QuietInv' /\ NothingRevives
  <2>1. k \in AllKinds
    BY DEF AgentAssumption
  <2>2. NothingRevives
    <3>1. /\ UNCHANGED <<status, rpc, cancelReq>> /\ rpc[r] = "none"
          /\ \A x \in Req \ {r} : task'[x] = task[x] /\ kind'[x] = kind[x]
      BY <1>1, <1>2, WorkFacts, MemoryTypes DEF Arrive, storeVars, runVars, PhaseOf
    <3>2. QED BY <3>1 DEF NothingRevives, Undying, Live
  <2>3. QED BY <1>1, <1>2, <2>1, <2>2, QueueArrive, LineArrive DEF QuietInv
<1>3. ASSUME NEW r \in Req, Handler(r) \/ Prepare(r) \/ Run(r) \/ Forward(r)
      PROVE  QuietInv' /\ NothingRevives
  <2>1. Steady(r) /\ hpc[r] # "idle"
    BY <1>1, <1>3, CoroutineStep
  <2>2. QueueInv'
    BY <1>1, <1>3, <2>1, QueueKept
  <2>3. LineInv'
    BY <1>1, <1>3, <2>1, LineOthers, LineOwn DEF LineInv
  <2>4. NothingRevives
    BY <1>1, <1>3, <2>1, RestStep
  <2>5. QED BY <1>1, <2>2, <2>3, <2>4 DEF QuietInv
<1>4. CASE PushLoop \/ UNCHANGED vars
  <2>1. UNCHANGED <<status, handlerVars, runVars, ppc, ready>>
    BY <1>4 DEF PushLoop, PushTake, PushDeliver, PushFail, vars, storeVars
  <2>2. QueueInv'
    BY <1>1, <2>1 DEF QueueInv, handlerVars
  <2>3. ASSUME NEW x \in Req PROVE LineOf(x)'
    <3>1. LineOf(x) /\ (Leads(x) => Leads(x)')
      BY <1>1, <2>1 DEF LineInv, Leads, handlerVars
    <3>2. QED BY <2>1, <3>1 DEF LineOf, handlerVars
  <2>4. NothingRevives
    BY <2>1 DEF NothingRevives, Undying, Live, handlerVars, runVars
  <2>5. QED BY <1>1, <2>2, <2>3, <2>4 DEF QuietInv, LineInv
<1>5. QED BY <1>2, <1>3, <1>4 DEF Next

\* Over the store in memory a cancel stops every run of its task, whatever was
\* started or resumed when it came, and none starts afterwards.  The one exception
\* is a streaming continue still in preparation, whose preparation starts a run no
\* matter what became of the task.  The processor does not report "canceled"
\* itself (none of the repository does): a run that did would go on in a task that
\* says so.
THEOREM CanceledTasksAreQuiet ==
  ASSUME ~StoreBlocks, "canceled" \notin ProcStates
  PROVE  Spec => CanceledTaskIsQuiet
<1>1. Init => QuietInv
  BY MemoryInit DEF Init, QuietInv, QueueInv, LineInv, LineOf
<1>2. QuietInv /\ [Next]_vars => QuietInv'
  BY AgentAssumption, QuietNext
<1>3. QuietInv /\ [Next]_vars => [NothingRevives]_vars
  BY AgentAssumption, QuietNext
<1>4. QED BY <1>1, <1>2, <1>3, PTL DEF Spec, CanceledTaskIsQuiet

-----------------------------------------------------------------------------
(* Errors *)

\* A log that is empty stays empty but for the handler that creates its task.
LEMMA EmptyLogs ==
  ASSUME AgentAssumption, MemoryInv, NEW u \in Req, Handler(u) \/ Prepare(u) \/ Run(u) \/ Forward(u),
         NEW t \in Req, log[t] = <<>>, ~(Create(u) /\ u = t)
  PROVE  log'[t] = <<>>
<1>1. /\ log \in [Req -> Seq(Event)] /\ ExistInv /\ ControlInv
  BY WorkFacts, MemoryTypes DEF MemoryInv, StreamInv
<1>2. Engaged(u) => task[u] # t
  BY <1>1 DEF ExistInv
<1>3. CASE Resume(u) \/ Cancel(u)
  <2>1. task[u] # t
    BY <1>2, <1>3 DEF Resume, Cancel, At, Engaged, Working
  <2>2. QED BY <1>1, <1>3, <2>1 DEF Resume, Cancel, AppendStatus, AppendRecord, storeVars
<1>4. CASE Run(u)
  <2>1. rpc[u] # "none"
    BY <1>4 DEF Run, RunStart, RunStillborn, RunPush, RunYieldStatus, RunYieldArtifact,
       RunExhaust, RunComplete, RunRaise, RunLeave, RunAbort, RunFinally, RunAt
  <2>2. task[u] # t
    BY <1>2, <2>1 DEF Engaged
  <2>3. QED
    BY <1>1, <1>4, <2>2 DEF Run, RunStart, RunStillborn, RunPush, RunYieldStatus, RunYieldArtifact,
       RunExhaust, RunComplete, RunRaise, RunLeave, RunAbort, RunFinally, RunAppend,
       AppendStatus, AppendArtifact, AppendRecord, storeVars
<1>5. CASE Prepare(u)
  <2>1. ppc[u] # "none"
    BY <1>5 DEF Prepare, PrepareStart, PrepareFinish, PrepareFail, PrepareFailTail
  <2>2. task[u] # t
    BY <1>2, <2>1 DEF Engaged
  <2>3. QED
    BY <1>1, <1>5, <2>2 DEF Prepare, PrepareStart, PrepareFinish, PrepareFail, PrepareFailTail,
       AppendStatus, AppendRecord, storeVars
<1>6. CASE Create(u)
  BY <1>1, <1>6 DEF Create, CreateTask
<1>7. CASE Forward(u)
  BY <1>7 DEF Forward, ForwardOn, ForwardStart, ForwardSend, ForwardFail, Unsubscribe, storeVars
<1>8. CASE UNCHANGED log
  BY <1>8
<1>9. QED
  BY <1>3, <1>4, <1>5, <1>6, <1>7, <1>8
     DEF Handler, Dispatch, Admit, Refuse, SendTail, StreamTail, LocalStreamTail, StartInline,
         InlineFail, Fetch, ResumeTail, CancelTail, Subscribe, Configure, SetConfig, DeleteConfig,
         Reply, storeVars

\* A request that does not create a task never names one.
LEMMA NamelessStep ==
  ASSUME AgentAssumption, MemoryInv, NamelessInv, NEW u \in Req, Steady(u), hpc[u] # "idle",
         Handler(u) \/ Prepare(u) \/ Run(u) \/ Forward(u)
  PROVE  NamelessInv'
<1> SUFFICES ASSUME NEW x \in Req, hpc'[x] # "idle", kind'[x] \notin Creators PROVE log'[x] = <<>>
  BY DEF NamelessInv
<1>1. log[x] = <<>>
  BY DEF NamelessInv, Steady
<1>2. ~(Create(u) /\ u = x)
  BY DEF Create, Steady
<1>3. QED BY <1>1, <1>2, EmptyLogs

\* An error is answered before anything was started.
LEMMA FreshError ==
  ASSUME ~StoreBlocks, MemoryInv, NamelessInv, NEW u \in Req, Handler(u), Steady(u), reply'[u] = "error", reply[u] # "error"
  PROVE  /\ UNCHANGED <<rpc, ppc, fpc, log>> /\ reply' = [reply EXCEPT ![u] = "error"]
         /\ rpc[u] = "none" /\ ppc[u] = "none" /\ fpc[u] = "none" /\ log[u] = <<>>
<1>1. reply \in [Req -> {"none", "ok", "error"}] /\ PhaseOf(u)
  BY WorkFacts, MemoryTypes
<1>2. Refuse(u) \/ Fetch(u) \/ (Resume(u) /\ HasLiveRun(task[u]))
  BY <1>1
     DEF Handler, Dispatch, Admit, Create, SendTail, StreamTail, LocalStreamTail, StartInline,
         InlineFail, Resume, ResumeTail, Cancel, CancelTail, Subscribe, Configure, SetConfig, DeleteConfig,
         Reply, Goto, Answer
<1>3. /\ UNCHANGED <<rpc, ppc, fpc, log>> /\ reply' = [reply EXCEPT ![u] = "error"]
      /\ hpc[u] \in {"begin", "fetched"}
  BY <1>1, <1>2 DEF Refuse, Fetch, Resume, Answer, Goto, At, storeVars, streamVars, runVars
<1>4. log[u] = <<>>
  <2>1. CASE hpc[u] = "begin"
    BY <2>1 DEF MemoryInv, StreamInv, BirthInv, Before
  <2>2. CASE hpc[u] = "fetched"
    BY <1>1, <2>2 DEF NamelessInv, PhaseOf
  <2>3. QED BY <1>3, <2>1, <2>2
<1>5. fpc[u] = "none"
  BY <1>3 DEF MemoryInv, StreamInv, FreshInv, Before
<1>6. QED BY <1>1, <1>3, <1>4, <1>5 DEF PhaseOf

\* An error given stays without consequences.
LEMMA ErrorStep ==
  ASSUME AgentAssumption, ~StoreBlocks, MemoryInv, NamelessInv, ErrorLeavesNothing, NEW u \in Req,
         Steady(u), hpc[u] # "idle", Handler(u) \/ Prepare(u) \/ Run(u) \/ Forward(u)
  PROVE  ErrorLeavesNothing'
<1> SUFFICES ASSUME NEW x \in Req, reply'[x] = "error"
             PROVE  rpc'[x] = "none" /\ ppc'[x] = "none" /\ fpc'[x] = "none" /\ log'[x] = <<>>
  BY DEF ErrorLeavesNothing
<1>1. reply \in [Req -> {"none", "ok", "error"}] /\ PhaseOf(x)
  BY WorkFacts, MemoryTypes
<1>2. CASE reply[x] = "error"
  <2>1. /\ rpc[x] = "none" /\ ppc[x] = "none" /\ fpc[x] = "none" /\ log[x] = <<>>
        /\ hpc[x] \in {"replying", "done"}
    BY <1>1, <1>2 DEF ErrorLeavesNothing, PhaseOf
  <2>2. log'[x] = <<>>
    BY <2>1, EmptyLogs DEF Create, At
  <2>3. CASE x # u
    BY <2>1, <2>2, <2>3 DEF Steady
  <2>4. CASE x = u
    <3>1. ~Prepare(u) /\ ~Run(u) /\ ~Forward(u)
      BY <2>1, <2>4 DEF Prepare, PrepareStart, PrepareFinish, PrepareFail, PrepareFailTail, Run,
         RunStart, RunStillborn, RunPush, RunYieldStatus, RunYieldArtifact, RunExhaust, RunComplete,
         RunRaise, RunLeave, RunAbort, RunFinally, RunAt, Forward, ForwardOn, ForwardStart, ForwardSend,
         ForwardFail, Unsubscribe
    <3>2. Reply(u) \/ Dispatch(u) \/ Admit(u)
      BY <2>1, <2>4, <3>1 DEF Handler, Refuse, Create, SendTail, StreamTail, LocalStreamTail, StartInline,
         InlineFail, Fetch, Resume, ResumeTail, Cancel, CancelTail, Subscribe, Configure, SetConfig,
         DeleteConfig, CreatedBy, At
    <3>3. QED BY <2>1, <2>2, <2>4, <3>2 DEF Reply, Dispatch, Admit, streamVars, runVars
  <2>5. QED BY <2>3, <2>4
<1>3. CASE reply[x] # "error" /\ Handler(u)
  <2>1. x = u
    BY <1>1, <1>3, HandlerPhases
  <2>2. QED BY <1>3, <2>1, FreshError
<1>4. CASE Prepare(u) \/ Run(u) \/ Forward(u)
  <2>1. reply' = reply
    BY <1>4 DEF Prepare, PrepareStart, PrepareFinish, PrepareFail, PrepareFailTail, Run,
       RunStart, RunStillborn, RunPush, RunYieldStatus, RunYieldArtifact, RunExhaust, RunComplete,
       RunRaise, RunLeave, RunAbort, RunFinally, Forward, ForwardOn, ForwardStart, ForwardSend,
       ForwardFail, Unsubscribe, handlerVars
  <2>2. QED BY <1>2, <2>1
<1>5. QED BY <1>2, <1>3, <1>4

\* Every step preserves the invariant of answers.
LEMMA AnswerNext ==
  ASSUME AgentAssumption, ~StoreBlocks, AnswerInv, [Next]_vars
  PROVE  AnswerInv'
<1>1. MemoryInv /\ MemoryInv' /\ NamelessInv /\ ErrorLeavesNothing
  BY MemoryNext DEF AnswerInv
<1>2. ASSUME NEW r \in Req, NEW k \in Kinds[r], NEW t \in Req, Arrive(r, k, t)
      PROVE  AnswerInv'
  <2>1. /\ UNCHANGED <<log, rpc, ppc, fpc, reply>> /\ log[r] = <<>>
        /\ \A x \in Req \ {r} : hpc'[x] = hpc[x] /\ kind'[x] = kind[x]
    BY <1>1, <1>2, WorkFacts, MemoryTypes
       DEF Arrive, storeVars, streamVars, runVars, MemoryInv, StreamInv, BirthInv, Before
  <2>2. QED BY <1>1, <2>1 DEF AnswerInv, NamelessInv, ErrorLeavesNothing
<1>3. ASSUME NEW r \in Req, Handler(r) \/ Prepare(r) \/ Run(r) \/ Forward(r) PROVE AnswerInv'
  BY <1>1, <1>3, CoroutineStep, NamelessStep, ErrorStep DEF AnswerInv
<1>4. CASE PushLoop \/ UNCHANGED vars
  BY <1>1, <1>4 DEF AnswerInv, NamelessInv, ErrorLeavesNothing, PushLoop, PushTake, PushDeliver,
     PushFail, vars, storeVars, streamVars, handlerVars, runVars
<1>5. QED BY <1>2, <1>3, <1>4 DEF Next

\* Over the store in memory a request answered with an error created no task and
\* left no stream, preparation or run behind: every refusal comes before the
\* handler's first effect.  Over a store that can fail the creation of a stream
\* breaks it (InlineFail).
THEOREM ErrorsLeaveNothing == ASSUME ~StoreBlocks PROVE Spec => []ErrorLeavesNothing
<1>1. Init => AnswerInv
  BY MemoryInit DEF Init, AnswerInv, NamelessInv, ErrorLeavesNothing
<1>2. AnswerInv => ErrorLeavesNothing
  BY DEF AnswerInv
<1>3. QED BY <1>1, <1>2, AgentAssumption, AnswerNext, PTL DEF Spec

-----------------------------------------------------------------------------
(* Push notifications in the order of the log *)

\* The types of what the invariant of the push queue speaks of.
LEMMA PushTypes ==
  ASSUME MemoryInv
  PROVE  /\ pend \in [Actor -> Nat] /\ pushq \in Seq(Req \X Nat) /\ log \in [Req -> Seq(Event)]
         /\ hpc \in [Req -> HandlerPhase] /\ rpc \in [Req -> RunPhase]
BY WorkFacts, MemoryTypes DEF MemoryInv, StreamInv, ControlInv, TypeOK, PushType

\* Only the coroutine that holds the event loop can have an event to enqueue.
LEMMA OweAlone ==
  ASSUME MemoryInv, OweInv, NEW a \in Actor, pend[a] # 0
  PROVE  loop = a /\ (hpc[a[2]] \in {"resumed", "canceled"} \/ rpc[a[2]] \in {"appended", "reported"})
<1>1. PICK k \in {"handler", "forward", "prepare", "run"}, x \in Req : a = <<k, x>>
  BY DEF Actor
<1>2. OwesOf(x) /\ TurnOf(x)
  BY DEF OweInv, MemoryInv, TurnInv
<1>3. QED BY <1>1, <1>2 DEF OwesOf, TurnOf, Working

\* What a request has still to enqueue follows its phases; a step of it leaves
\* what others have.
LEMMA OwesHandler ==
  ASSUME MemoryInv, NEW u \in Req, OwesOf(u), Handler(u)
  PROVE  OwesOf(u)' /\ \A b \in Actor : b[2] # u => pend'[b] = pend[b]
<1>1. /\ pend \in [Actor -> Nat] /\ log \in [Req -> Seq(Event)] /\ hpc \in [Req -> HandlerPhase]
      /\ <<"handler", u>> \in Actor /\ <<"forward", u>> \in Actor /\ <<"prepare", u>> \in Actor
      /\ <<"run", u>> \in Actor /\ PhaseOf(u) /\ task[u] \in Req
  BY PushTypes, ArrivedFacts, HandlerShape, WorkFacts DEF MemoryInv, StreamInv
<1> USE <1>1 DEF OwesOf
<1>2. CASE Resume(u) \/ Cancel(u)
  <2>1. rpc[u] = "none" /\ rpc' = rpc /\ hpc[u] = "fetched"
    BY <1>2 DEF Resume, Cancel, At, PhaseOf, runVars
  <2>2. CASE Answer(u, "error") /\ pend' = pend
    BY <2>1, <2>2 DEF Answer
  <2>3. CASE /\ Owe(<<"handler", u>>, task[u])
             /\ \E p \in {"resumed", "canceled"} : Goto(u, p)
    <3>1. pend' = [pend EXCEPT ![<<"handler", u>>] = Len(log[task[u]]) + 1] /\ Len(log[task[u]]) \in Nat
      BY <2>3 DEF Owe
    <3>2. hpc'[u] \in {"resumed", "canceled"}
      BY <2>3 DEF Goto
    <3>3. pend'[<<"handler", u>>] # 0 /\ \A b \in Actor : b # <<"handler", u>> => pend'[b] = pend[b]
      BY <3>1
    <3>4. QED BY <2>1, <3>2, <3>3
  <2>4. QED BY <1>2, <2>2, <2>3 DEF Resume, Cancel
<1>3. CASE ResumeTail(u) \/ CancelTail(u)
  <2>1. /\ pend' = [pend EXCEPT ![<<"handler", u>>] = 0] /\ rpc' = rpc
    BY <1>3 DEF ResumeTail, CancelTail, Settle, runVars
  <2>2. hpc'[u] \notin {"resumed", "canceled"}
    BY <1>3 DEF ResumeTail, CancelTail, Answer, Goto
  <2>3. QED BY <2>1, <2>2
<1>4. CASE /\ hpc[u] \notin {"resumed", "canceled"} /\ hpc'[u] \notin {"resumed", "canceled"}
           /\ pend' = pend /\ rpc'[u] = rpc[u]
  BY <1>4
<1>5. CASE StartInline(u)
  <2>1. rpc[u] = "none" /\ rpc'[u] = "spawned" /\ pend' = pend /\ hpc[u] = "prepared" /\ hpc'[u] \in {"replying", "done"}
    BY <1>5, PushTypes DEF StartInline, At, PhaseOf, Register, Answer
  <2>2. QED BY <2>1
<1>6. CASE Dispatch(u) \/ Admit(u) \/ Refuse(u) \/ Create(u) \/ Fetch(u) \/ Reply(u) \/ InlineFail(u)
  BY <1>4, <1>6 DEF Dispatch, Admit, Refuse, Create, Fetch, Reply, InlineFail, At, Goto, Answer, runVars
<1>7. CASE SendTail(u) \/ StreamTail(u) \/ LocalStreamTail(u) \/ Subscribe(u)
  BY <1>4, <1>7 DEF SendTail, StreamTail, LocalStreamTail, Subscribe, CreatedBy, At, Goto, Answer, runVars
<1>8. CASE \/ \E c \in Config : Configure(u, c) \/ SetConfig(u, c)
           \/ \E cs \in SUBSET Config : DeleteConfig(u, cs)
  BY <1>4, <1>8 DEF Configure, SetConfig, DeleteConfig, At, Goto, Answer, runVars
<1>9. QED BY <1>2, <1>3, <1>5, <1>6, <1>7, <1>8 DEF Handler

\* So do the steps of preparations and runs.
LEMMA OwesWorker ==
  ASSUME ~StoreBlocks, MemoryInv, NEW u \in Req, OwesOf(u), Prepare(u) \/ Run(u)
  PROVE  OwesOf(u)' /\ \A b \in Actor : b[2] # u => pend'[b] = pend[b]
<1>1. /\ pend \in [Actor -> Nat] /\ log \in [Req -> Seq(Event)] /\ rpc \in [Req -> RunPhase]
      /\ <<"handler", u>> \in Actor /\ <<"forward", u>> \in Actor /\ <<"prepare", u>> \in Actor
      /\ <<"run", u>> \in Actor /\ PhaseOf(u) /\ TurnOf(u)
  BY PushTypes, WorkFacts, Actors
<1>0. hpc' = hpc
  BY DEF Prepare, PrepareStart, PrepareFinish, PrepareFail, PrepareFailTail, Run, RunStart, RunStillborn,
     RunPush, RunYieldStatus, RunYieldArtifact, RunExhaust, RunComplete, RunRaise, RunLeave, RunAbort,
     RunFinally, handlerVars
<1> USE <1>0, <1>1 DEF OwesOf
<1>2. CASE Prepare(u)
  <2>1. pend' = pend /\ (rpc' = rpc \/ (rpc[u] = "none" /\ rpc'[u] = "spawned"))
    BY <1>2 DEF Prepare, PrepareStart, PrepareFinish, PrepareFail, PrepareFailTail, Register, PhaseOf,
       TurnOf, runVars
  <2>2. QED BY <2>1
<1>3. ASSUME Owe(<<"run", u>>, task[u]), rpc'[u] \in {"appended", "reported"}, Live(u)
      PROVE  OwesOf(u)' /\ \A b \in Actor : b[2] # u => pend'[b] = pend[b]
  <2>1. task[u] \in Req
    BY <1>3, WorkFacts
  <2>2. pend' = [pend EXCEPT ![<<"run", u>>] = Len(log[task[u]]) + 1] /\ Len(log[task[u]]) \in Nat
    BY <1>3, <2>1 DEF Owe
  <2>3. pend'[<<"run", u>>] # 0 /\ \A b \in Actor : b # <<"run", u>> => pend'[b] = pend[b]
    BY <2>2
  <2>4. QED BY <1>3, <2>3
<1>4. CASE RunStart(u) \/ RunComplete(u) \/ RunRaise(u)
  BY <1>3, <1>4 DEF RunStart, RunComplete, RunRaise, RunAppend, RunGoto, RunAt, Live
<1>5. CASE RunYieldArtifact(u) \/ \E s \in ProcStates : RunYieldStatus(u, s)
  BY <1>3, <1>5 DEF RunYieldArtifact, RunYieldStatus, RunAppend, RunGoto, RunAt, Live
<1>6. CASE RunPush(u) \/ RunAbort(u)
  <2>1. pend' = [pend EXCEPT ![<<"run", u>>] = 0] /\ rpc'[u] \in {"processing", "finally"}
    BY <1>6 DEF RunPush, RunAbort, RunGoto, Settle
  <2>2. QED BY <2>1
<1>7. CASE RunStillborn(u) \/ RunExhaust(u) \/ RunLeave(u) \/ RunFinally(u)
  BY <1>7 DEF RunStillborn, RunExhaust, RunLeave, RunFinally, RunGoto, RunAt
<1>8. QED BY <1>2, <1>4, <1>5, <1>6, <1>7 DEF Run

\* Nothing is enqueued, and no event appended by one who would have to.
LEMMA OweSame ==
  ASSUME MemoryInv, MemoryInv', OweInv, UNCHANGED <<pend, pushq>>, \A r \in Req : OwesOf(r)',
         UNCHANGED <<log, task>> \/ (Grown /\ \A a \in Actor : pend[a] = 0)
  PROVE  OweInv'
<1>1. /\ pend \in [Actor -> Nat] /\ pushq \in Seq(Req \X Nat) /\ log \in [Req -> Seq(Event)]
      /\ log' \in [Req -> Seq(Event)]
  BY PushTypes DEF MemoryInv, StreamInv, ControlInv, TypeOK, StoreType
<1>2. \A a \in Actor : LastOf(a)'
  BY DEF OweInv, LastOf
<1>3. ASSUME NEW i \in 1 .. Len(pushq') PROVE pushq'[i][2] <= Len(log'[pushq'[i][1]])
  <2>1. pushq[i][1] \in Req /\ pushq[i][2] \in Nat /\ pushq[i][2] <= Len(log[pushq[i][1]])
    BY <1>1 DEF OweInv
  <2>2. Len(log[pushq[i][1]]) \in Nat /\ Len(log'[pushq[i][1]]) \in Nat /\ Len(log[pushq[i][1]]) <= Len(log'[pushq[i][1]])
    BY <1>1, <2>1 DEF Grown
  <2>3. QED BY <2>1, <2>2
<1>4. PushInLogOrder'
  BY DEF OweInv, PushInLogOrder
<1>5. QED BY <1>2, <1>3, <1>4 DEF OweInv

\* The one coroutine that runs appends an event.
LEMMA OweMore ==
  ASSUME MemoryInv, MemoryInv', OweInv, NEW u \in Req, NEW a \in Actor, a[2] = u, task[u] \in Req, task' = task,
         \A b \in Actor : b # a => pend[b] = 0, pushq' = pushq, NEW e \in Event,
         log' = [log EXCEPT ![task[u]] = Append(@, e)], Owe(a, task[u]), \A r \in Req : OwesOf(r)'
  PROVE  OweInv'
<1>1. /\ pend \in [Actor -> Nat] /\ pushq \in Seq(Req \X Nat) /\ log \in [Req -> Seq(Event)]
  BY PushTypes
<1>2. /\ Len(log[task[u]]) \in Nat /\ Len(log'[task[u]]) = Len(log[task[u]]) + 1
      /\ \A t \in Req : t # task[u] => log'[t] = log[t]
  BY <1>1
<1>3. pend'[a] = Len(log[task[u]]) + 1 /\ \A b \in Actor : b # a => pend'[b] = 0
  BY <1>1 DEF Owe
<1>4. ASSUME NEW i \in 1 .. Len(pushq') PROVE pushq'[i][2] <= Len(log'[pushq'[i][1]])
  <2>1. pushq[i][1] \in Req /\ pushq[i][2] \in Nat /\ pushq[i][2] <= Len(log[pushq[i][1]])
    BY <1>1 DEF OweInv
  <2>2. QED BY <1>2, <2>1
<1>5. LastOf(a)'
  <2>1. ASSUME NEW i \in 1 .. Len(pushq), pushq[i][1] = task[u] PROVE pushq[i][2] < Len(log[task[u]]) + 1
    <3>1. pushq[i][2] \in Nat /\ pushq[i][2] <= Len(log[task[u]])
      BY <1>1, <2>1 DEF OweInv
    <3>2. QED BY <1>2, <3>1
  <2>2. QED BY <1>2, <1>3, <2>1 DEF LastOf
<1>6. \A b \in Actor : LastOf(b)'
  BY <1>3, <1>5 DEF LastOf
<1>7. PushInLogOrder'
  BY DEF OweInv, PushInLogOrder
<1>8. QED BY <1>4, <1>6, <1>7 DEF OweInv

\* It enqueues the event it appended, unless the queue is full or the run aborted.
LEMMA OweSettled ==
  ASSUME MemoryInv, OweInv, NEW u \in Req, NEW a \in Actor, a[2] = u, task[u] \in Req, task' = task,
         \A b \in Actor : b # a => pend[b] = 0, pend[a] # 0, log' = log, Settle(a),
         pushq' = pushq \/ pushq' = Append(pushq, <<task[u], pend[a]>>), \A r \in Req : OwesOf(r)'
  PROVE  OweInv'
<1>1. /\ pend \in [Actor -> Nat] /\ pushq \in Seq(Req \X Nat) /\ log \in [Req -> Seq(Event)]
      /\ pend[a] = Len(log[task[u]])
      /\ \A i \in 1 .. Len(pushq) : pushq[i][1] = task[u] => pushq[i][2] < pend[a]
  BY PushTypes DEF OweInv, LastOf
<1>2. \A b \in Actor : LastOf(b)'
  BY <1>1 DEF Settle, LastOf
<1>3. CASE pushq' = pushq
  BY <1>2, <1>3 DEF OweInv, PushInLogOrder
<1>4. CASE pushq' = Append(pushq, <<task[u], pend[a]>>)
  <2>1. /\ Len(pushq) \in Nat /\ Len(pushq') = Len(pushq) + 1
        /\ pushq'[Len(pushq) + 1] = <<task[u], pend[a]>>
        /\ \A i \in 1 .. Len(pushq) : pushq'[i] = pushq[i]
    BY <1>1, <1>4
  <2>2. ASSUME NEW i \in 1 .. Len(pushq') PROVE pushq'[i][2] <= Len(log'[pushq'[i][1]])
    <3>1. CASE i = Len(pushq) + 1
      BY <1>1, <2>1, <3>1
    <3>2. CASE i # Len(pushq) + 1
      <4>1. i \in 1 .. Len(pushq)
        BY <2>1, <3>2
      <4>2. QED BY <2>1, <4>1 DEF OweInv
    <3>3. QED BY <3>1, <3>2
  <2>3. ASSUME NEW i \in 1 .. Len(pushq'), NEW j \in 1 .. Len(pushq'), i < j, pushq'[i][1] = pushq'[j][1]
        PROVE  pushq'[i][2] < pushq'[j][2]
    <3>1. i \in 1 .. Len(pushq)
      BY <2>1, <2>3
    <3>2. CASE j = Len(pushq) + 1
      <4>1. pushq'[j] = <<task[u], pend[a]>> /\ pushq'[i] = pushq[i]
        BY <2>1, <3>1, <3>2
      <4>2. pushq[i][1] = task[u]
        BY <2>3, <4>1
      <4>3. pushq[i][2] < pend[a]
        BY <1>1, <3>1, <4>2
      <4>4. QED BY <4>1, <4>3
    <3>3. CASE j # Len(pushq) + 1
      <4>1. j \in 1 .. Len(pushq)
        BY <2>1, <3>3
      <4>2. i \in DOMAIN pushq /\ j \in DOMAIN pushq
        BY <1>1, <3>1, <4>1
      <4>3. QED BY <2>1, <2>3, <3>1, <4>1, <4>2 DEF OweInv, PushInLogOrder
    <3>4. QED BY <3>2, <3>3
  <2>4. DOMAIN pushq' = 1 .. Len(pushq')
    BY <1>1, <1>4
  <2>5. QED BY <1>2, <2>2, <2>3, <2>4 DEF OweInv, PushInLogOrder
<1>5. QED BY <1>3, <1>4

\* The handler's steps keep the queue in order.
LEMMA PushHandler ==
  ASSUME AgentAssumption, MemoryInv, MemoryInv', OweInv, NEW u \in Req, Handler(u), \A r \in Req : OwesOf(r)'
  PROVE  OweInv'
<1>1. /\ task[u] \in Req /\ task' = task /\ hpc[u] # "idle" /\ <<"handler", u>> \in Actor
      /\ pend \in [Actor -> Nat]
  BY CoroutineStep, ArrivedFacts, PushTypes DEF Steady, MemoryInv, StreamInv
<1>2. Turn(Idle) \/ Turn(<<"handler", u>>)
  BY DEF Handler, Dispatch, Admit, Refuse, Create, SendTail, StreamTail, LocalStreamTail,
     StartInline, InlineFail, Fetch, Resume, ResumeTail, Cancel, CancelTail, Subscribe, Configure,
     SetConfig, DeleteConfig, Reply, First, At, CreatedBy
<1>3. \A b \in Actor : b # <<"handler", u>> => pend[b] = 0
  BY <1>2, OweAlone DEF Turn, Idle, Actor
<1>4. CASE Create(u)
  <2>1. hpc[u] = "begin" /\ UNCHANGED <<pend, pushq>>
    BY <1>4 DEF Create, At, pushVars
  <2>2. pend[<<"handler", u>>] = 0
    BY <2>1 DEF OweInv, OwesOf
  <2>3. Grown
    BY StoreStepGrows, HandlerStoreStep DEF MemoryInv, StreamInv, ControlInv
  <2>4. QED BY <1>3, <2>1, <2>2, <2>3, OweSame
<1>5. CASE Resume(u) \/ Cancel(u)
  <2>1. CASE UNCHANGED <<log, pend>>
    <3>1. pushq' = pushq
      BY <1>5 DEF Resume, Cancel, pushVars
    <3>2. QED BY <1>1, <2>1, <3>1, OweSame
  <2>2. CASE \E s \in {"submitted", "canceled"} : AppendStatus(task[u], s) /\ Owe(<<"handler", u>>, task[u])
    <3>1. PICK s \in {"submitted", "canceled"} : AppendStatus(task[u], s) /\ Owe(<<"handler", u>>, task[u])
      BY <2>2
    <3>2. [kind |-> "status", state |-> s] \in Event
      BY DEF Event, States, FinalStates
    <3>3. pushq' = pushq
      BY <1>5 DEF Resume, Cancel, pushVars
    <3>4. QED BY <1>1, <1>3, <3>1, <3>2, <3>3, OweMore DEF AppendStatus, AppendRecord
  <2>3. QED BY <1>5, <2>1, <2>2 DEF Resume, Cancel, storeVars
<1>6. CASE ResumeTail(u) \/ CancelTail(u)
  <2>1. /\ Settle(<<"handler", u>>) /\ log' = log
        /\ pushq' = pushq \/ pushq' = Append(pushq, <<task[u], pend[<<"handler", u>>]>>)
        /\ hpc[u] \in {"resumed", "canceled"}
    BY <1>6 DEF ResumeTail, CancelTail, EnqueuePush, storeVars, At
  <2>2. pend[<<"handler", u>>] # 0
    BY <2>1 DEF OweInv, OwesOf
  <2>3. QED BY <1>1, <1>3, <2>1, <2>2, OweSettled
<1>7. CASE UNCHANGED <<log, pend, pushq>>
  BY <1>1, <1>7, OweSame
<1>8. QED
  BY <1>4, <1>5, <1>6, <1>7
     DEF Handler, Dispatch, Admit, Refuse, SendTail, StreamTail, LocalStreamTail, StartInline,
         InlineFail, Fetch, Subscribe, Configure, SetConfig, DeleteConfig, Reply, storeVars, pushVars

\* So do those of preparations, runs and streams.
LEMMA PushWorker ==
  ASSUME AgentAssumption, ~StoreBlocks, MemoryInv, MemoryInv', OweInv, NEW u \in Req,
         Prepare(u) \/ Run(u) \/ Forward(u), \A r \in Req : OwesOf(r)'
  PROVE  OweInv'
<1>1. /\ task[u] \in Req /\ task' = task /\ <<"run", u>> \in Actor /\ pend \in [Actor -> Nat]
  BY CoroutineStep, ArrivedFacts, PushTypes DEF Steady, MemoryInv, StreamInv
<1>2. CASE UNCHANGED <<log, pend, pushq>>
  BY <1>1, <1>2, OweSame
<1>3. Run(u) => \A b \in Actor : b # <<"run", u>> => pend[b] = 0
  <2>1. Run(u) => Turn(Idle) \/ Turn(<<"run", u>>)
    BY DEF Run, RunStart, RunStillborn, RunPush, RunYieldStatus, RunYieldArtifact, RunExhaust,
       RunComplete, RunRaise, RunLeave, RunAbort, RunFinally, RunAt, First
  <2>2. QED BY <2>1, OweAlone DEF Turn, Idle, Actor
<1>4. ASSUME Run(u), Owe(<<"run", u>>, task[u]), pushq' = pushq, NEW e \in Event, AppendRecord(task[u], e)
      PROVE  OweInv'
  BY <1>1, <1>3, <1>4, OweMore DEF AppendRecord
<1>5. CASE RunStart(u) \/ RunComplete(u) \/ RunRaise(u) \/ \E s \in ProcStates : RunYieldStatus(u, s)
  <2>1. PICK s \in States : AppendStatus(task[u], s) /\ Owe(<<"run", u>>, task[u]) /\ pushq' = pushq
    BY <1>5 DEF RunStart, RunComplete, RunRaise, RunYieldStatus, RunAppend, pushVars, States, FinalStates,
       AgentAssumption
  <2>2. [kind |-> "status", state |-> s] \in Event
    BY DEF Event
  <2>3. QED BY <1>4, <1>5, <2>1, <2>2 DEF AppendStatus, Run
<1>6. CASE RunYieldArtifact(u)
  <2>1. [kind |-> "artifact", state |-> "none"] \in Event
    BY DEF Event
  <2>2. QED BY <1>4, <1>6, <2>1 DEF RunYieldArtifact, AppendArtifact, pushVars, Run
<1>7. CASE RunPush(u) \/ RunAbort(u)
  <2>1. /\ Settle(<<"run", u>>) /\ log' = log /\ Run(u)
        /\ pushq' = pushq \/ pushq' = Append(pushq, <<task[u], pend[<<"run", u>>]>>)
    BY <1>7 DEF RunPush, RunAbort, EnqueuePush, storeVars, pushVars, Run
  <2>2. CASE pend[<<"run", u>>] # 0
    BY <1>1, <1>3, <2>1, <2>2, OweSettled
  <2>3. CASE pend[<<"run", u>>] = 0
    <3>1. RunAbort(u)
      BY <1>7, <2>3 DEF RunPush, OweInv, OwesOf
    <3>2. pend' = pend /\ pushq' = pushq
      BY <1>1, <2>1, <2>3, <3>1 DEF Settle, RunAbort, pushVars
    <3>3. QED BY <1>2, <2>1, <3>2
  <2>4. QED BY <2>2, <2>3
<1>8. CASE RunStillborn(u) \/ RunExhaust(u) \/ RunLeave(u) \/ RunFinally(u)
  BY <1>2, <1>8 DEF RunStillborn, RunExhaust, RunLeave, RunFinally, storeVars, pushVars
<1>9. CASE Prepare(u)
  <2>1. ppc[u] # "failed"
    BY WorkFacts DEF TurnOf
  <2>2. QED
    BY <1>2, <1>9, <2>1 DEF Prepare, PrepareStart, PrepareFinish, PrepareFail, PrepareFailTail, storeVars, pushVars
<1>10. CASE Forward(u)
  BY <1>2, <1>10 DEF Forward, ForwardOn, ForwardStart, ForwardSend, ForwardFail, Unsubscribe, storeVars, pushVars
<1>11. QED BY <1>5, <1>6, <1>7, <1>8, <1>9, <1>10 DEF Run

\* The push loop takes events off the queue.
LEMMA PushLoopStep ==
  ASSUME MemoryInv, OweInv, PushLoop \/ UNCHANGED vars
  PROVE  OweInv'
<1>1. /\ UNCHANGED <<log, pend, task, hpc, rpc>>
      /\ pushq' = pushq \/ (pushq # <<>> /\ pushq' = Tail(pushq))
  BY DEF PushLoop, PushTake, PushDeliver, PushFail, vars, storeVars, handlerVars, runVars, pushVars
<1>2. pushq \in Seq(Req \X Nat)
  BY PushTypes
<1>3. \A r \in Req : OwesOf(r)'
  BY <1>1 DEF OweInv, OwesOf
<1>4. CASE pushq' = pushq
  BY <1>1, <1>3, <1>4 DEF OweInv, LastOf, PushInLogOrder
<1>5. CASE pushq # <<>> /\ pushq' = Tail(pushq)
  <2>1. /\ Len(pushq) \in Nat /\ Len(pushq') = Len(pushq) - 1
        /\ DOMAIN pushq' = 1 .. Len(pushq') /\ DOMAIN pushq = 1 .. Len(pushq)
        /\ \A i \in 1 .. Len(pushq') : pushq'[i] = pushq[i + 1] /\ i + 1 \in 1 .. Len(pushq)
    BY <1>2, <1>5
  <2>2. \A b \in Actor : LastOf(b)'
    BY <1>1, <2>1 DEF OweInv, LastOf
  <2>3. \A i \in 1 .. Len(pushq') : pushq'[i][2] <= Len(log'[pushq'[i][1]])
    BY <1>1, <2>1 DEF OweInv
  <2>4. PushInLogOrder'
    <3> SUFFICES ASSUME NEW i \in 1 .. Len(pushq'), NEW j \in 1 .. Len(pushq'), i < j,
                        pushq'[i][1] = pushq'[j][1]
                 PROVE  pushq'[i][2] < pushq'[j][2]
      BY <2>1 DEF PushInLogOrder
    <3>1. i + 1 < j + 1 /\ i + 1 \in DOMAIN pushq /\ j + 1 \in DOMAIN pushq
      BY <2>1
    <3>2. QED BY <2>1, <3>1 DEF OweInv, PushInLogOrder
  <2>5. QED BY <1>3, <2>2, <2>3, <2>4 DEF OweInv
<1>6. QED BY <1>1, <1>4, <1>5

\* Every step preserves the invariant of the push queue.
LEMMA PushNext ==
  ASSUME AgentAssumption, ~StoreBlocks, PushInv, [Next]_vars
  PROVE  PushInv'
<1>1. MemoryInv /\ MemoryInv' /\ OweInv
  BY MemoryNext DEF PushInv
<1>2. ASSUME NEW r \in Req, NEW k \in Kinds[r], NEW t \in Req, Arrive(r, k, t)
      PROVE  OweInv'
  <2>1. /\ UNCHANGED <<log, pend, pushq, rpc>> /\ loop = Idle /\ hpc[r] = "idle"
        /\ hpc' = [hpc EXCEPT ![r] = "dispatched"]
    BY <1>2 DEF Arrive, Turn, storeVars, runVars, pushVars
  <2>2. \A a \in Actor : pend[a] = 0
    BY <1>1, <2>1, OweAlone DEF Idle, Actor
  <2>3. \A x \in Req : OwesOf(x)'
    BY <1>1, <2>1, PushTypes DEF OweInv, OwesOf
  <2>4. Grown
    BY <1>1, <2>1 DEF Grown, MemoryInv, StreamInv, ControlInv, TypeOK, StoreType
  <2>5. QED BY <1>1, <2>1, <2>2, <2>3, <2>4, OweSame
<1>3. ASSUME NEW r \in Req, Handler(r) \/ Prepare(r) \/ Run(r) \/ Forward(r) PROVE OweInv'
  <2>1. Steady(r)
    BY <1>1, <1>3, CoroutineStep
  <2>2. OwesOf(r)' /\ \A b \in Actor : b[2] # r => pend'[b] = pend[b]
    <3>1. CASE Forward(r)
      BY <1>1, <3>1 DEF Forward, ForwardOn, ForwardStart, ForwardSend, ForwardFail, Unsubscribe,
         OweInv, OwesOf, handlerVars, runVars
    <3>2. QED BY <1>1, <1>3, <3>1, OwesHandler, OwesWorker DEF OweInv
  <2>3. ASSUME NEW x \in Req \ {r} PROVE OwesOf(x)'
    <3>1. OwesOf(x) /\ hpc'[x] = hpc[x] /\ rpc'[x] = rpc[x]
      BY <1>1, <2>1 DEF OweInv, Steady
    <3>2. \A k \in {"handler", "forward", "prepare", "run"} : pend'[<<k, x>>] = pend[<<k, x>>]
      BY <2>2 DEF Actor
    <3>3. QED BY <3>1, <3>2 DEF OwesOf
  <2>4. QED BY <1>1, <1>3, <2>2, <2>3, PushHandler, PushWorker
<1>4. CASE PushLoop \/ UNCHANGED vars
  BY <1>1, <1>4, PushLoopStep DEF PushInv
<1>5. QED BY <1>1, <1>2, <1>3, <1>4 DEF Next, PushInv

\* Over the store in memory a task's events wait for push delivery in the order
\* of its log: an append and its enqueueing are one turn of the event loop, also
\* for the events that handlers and runs append to the same task by turns.
THEOREM PushIsInLogOrder == ASSUME ~StoreBlocks PROVE Spec => []PushInLogOrder
<1>1. ASSUME Init PROVE PushInv
  <2>1. pushq = <<>> /\ pend = [a \in Actor |-> 0] /\ \A r \in Req : hpc[r] = "idle" /\ rpc[r] = "none"
    BY <1>1 DEF Init
  <2>2. \A r \in Req : OwesOf(r)
    BY <2>1, Actors DEF OwesOf
  <2>3. (\A a \in Actor : LastOf(a)) /\ PushInLogOrder
    BY <2>1 DEF LastOf, PushInLogOrder
  <2>4. QED BY <1>1, <2>1, <2>2, <2>3, MemoryInit DEF PushInv, OweInv
<1>2. PushInv => PushInLogOrder
  BY DEF PushInv, OweInv
<1>3. QED BY <1>1, <1>2, AgentAssumption, PushNext, PTL DEF Spec
=============================================================================
