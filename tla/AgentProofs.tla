----------------------------- MODULE AgentProofs -----------------------------
(***************************************************************************)
(* AgentRuntime is typed, its streams lose nothing and stop at a final     *)
(* status, and store and streams implement EventFeed: for every set of     *)
(* requests, both kinds of store and every bound.                          *)
(***************************************************************************)
EXTENDS AgentInvariants, TLAPS

\* The four coroutines of a request are actors.
LEMMA Actors ==
  ASSUME NEW r \in Req
  PROVE  /\ <<"handler", r>> \in Actor /\ <<"forward", r>> \in Actor
         /\ <<"prepare", r>> \in Actor /\ <<"run", r>> \in Actor
BY DEF Actor

\* Both ways a step may end leave the loop idle or with an actor.
LEMMA LoopStep ==
  ASSUME NEW a \in Actor
  PROVE  (AfterStore(a) \/ Yield) => loop' \in Actor \cup {Idle}
BY DEF AfterStore, Yield

\* The positions m, m+1, ..., n.
LEMMA PositionsSeq ==
  ASSUME NEW m \in Nat \ {0}, NEW n \in Nat
  PROVE  /\ Positions(m, n) \in Seq(Nat)
         /\ m <= n + 1 => Len(Positions(m, n)) = n - m + 1
         /\ \A i \in 1 .. n - m + 1 : Positions(m, n)[i] = m + i - 1
<1>1. CASE m <= n + 1
  <2>1. n - m + 1 \in Nat
    BY <1>1
  <2>2. Positions(m, n) \in [1 .. n - m + 1 -> Nat]
    BY DEF Positions
  <2>3. QED BY <2>1, <2>2 DEF Positions
<1>2. CASE m > n + 1
  <2>1. 1 .. n - m + 1 = {}
    BY <1>2
  <2>2. Positions(m, n) = <<>>
    BY <2>1 DEF Positions
  <2>3. QED BY <1>2, <2>1, <2>2
<1>3. QED BY <1>1, <1>2

\* Appending a record to a log and to its listeners' queues keeps their types.
LEMMA AppendRecordType ==
  ASSUME StoreType, NEW t \in Req, NEW e \in Event, AppendRecord(t, e)
  PROVE  /\ log' \in [Req -> Seq(Event)] /\ queue' \in [Req -> Seq(Nat)]
         /\ configs' = configs /\ subscribed' = subscribed
<1>1. log' \in [Req -> Seq(Event)]
  BY DEF StoreType, AppendRecord
<1>2. Len(log[t]) + 1 \in Nat
  BY DEF StoreType
<1>3. queue' \in [Req -> Seq(Nat)]
  BY <1>2 DEF StoreType, AppendRecord
<1>4. QED BY <1>1, <1>3 DEF AppendRecord

\* append_status keeps the types of what it writes.
LEMMA AppendStatusType ==
  ASSUME StoreType, NEW t \in Req, NEW s \in States, AppendStatus(t, s)
  PROVE  StoreType'
<1>1. [kind |-> "status", state |-> s] \in Event
  BY DEF Event
<1>2. QED BY <1>1, AppendRecordType DEF AppendStatus, StoreType

\* append_artifact keeps the types of what it writes.
LEMMA AppendArtifactType ==
  ASSUME StoreType, NEW t \in Req, AppendArtifact(t)
  PROVE  StoreType'
<1>1. [kind |-> "artifact", state |-> "none"] \in Event
  BY DEF Event
<1>2. QED BY <1>1, AppendRecordType DEF AppendArtifact, StoreType

\* create_task keeps the types of what it writes.
LEMMA CreateTaskType ==
  ASSUME StoreType, NEW t \in Req, CreateTask(t)
  PROVE  StoreType'
<1>1. <<[kind |-> "task", state |-> "submitted"]>> \in Seq(Event)
  BY DEF Event, States
<1>2. QED BY <1>1 DEF CreateTask, StoreType, States

\* Enqueueing a push notification keeps the types of the push queue.
LEMMA OweType ==
  ASSUME StoreType, PushType, NEW a \in Actor, NEW t \in Req, Owe(a, t)
  PROVE  pend' \in [Actor -> Nat]
<1>1. Len(log[t]) + 1 \in Nat
  BY DEF StoreType
<1>2. QED BY <1>1 DEF Owe, PushType

\* Enqueueing for push and clearing what was owed keep the types of both.
LEMMA SettleType ==
  ASSUME PushType, NEW a \in Actor, NEW t \in Req, NEW n \in Nat
  PROVE  /\ Settle(a) => pend' \in [Actor -> Nat]
         /\ EnqueuePush(t, n) => pushq' \in Seq(Req \X Nat)
<1>1. <<t, n>> \in Req \X Nat
  OBVIOUS
<1>2. Settle(a) => pend' \in [Actor -> Nat]
  BY DEF Settle, PushType
<1>3. EnqueuePush(t, n) => pushq' \in Seq(Req \X Nat)
  BY <1>1 DEF EnqueuePush, PushType
<1>4. QED BY <1>2, <1>3

\* Moving a handler on keeps the type of the program counters.
LEMMA GotoType ==
  ASSUME HandlerType, NEW r \in Req, NEW p \in HandlerPhase, Goto(r, p)
  PROVE  HandlerType' /\ loop' \in Actor \cup {Idle}
BY Actors, LoopStep DEF Goto, HandlerType

\* Answering a request keeps the type of the answers.
LEMMA AnswerType ==
  ASSUME HandlerType, NEW r \in Req, NEW res \in {"ok", "error"}, Answer(r, res)
  PROVE  HandlerType' /\ loop' \in Actor \cup {Idle}
<1>1. hpc' \in [Req -> HandlerPhase]
  BY DEF Answer, HandlerType, HandlerPhase
<1>2. reply' \in [Req -> {"none", "ok", "error"}]
  BY DEF Answer, HandlerType
<1>3. QED BY <1>1, <1>2 DEF Answer, HandlerType, Yield

\* Registering a run keeps the types of the runs and of the ready queue.
LEMMA RegisterType ==
  ASSUME RunType, LoopType, NEW r \in Req, task[r] \in Req, Register(r)
  PROVE  RunType' /\ ready' \in Seq(Actor)
<1>1. RunType'
  BY DEF Register, RunType, RunPhase
<1>2. ready' \in Seq(Actor)
  <2>1. <<"run", r>> \in Actor
    BY Actors
  <2>2. QED BY <2>1 DEF Register, LoopType
<1>3. QED BY <1>1, <1>2

\* A status written by a run keeps every type.
LEMMA RunAppendType ==
  ASSUME TypeOK, NEW u \in Req, task[u] \in Req, NEW s \in States, NEW p \in RunPhase,
         RunAppend(u, s, p)
  PROVE  StoreType' /\ RunType' /\ pend' \in [Actor -> Nat] /\ loop' \in Actor \cup {Idle}
<1>1. <<"run", u>> \in Actor
  BY Actors
<1>2. StoreType'
  BY AppendStatusType DEF RunAppend, TypeOK
<1>3. pend' \in [Actor -> Nat]
  BY <1>1, OweType DEF RunAppend, TypeOK
<1>4. RunType' /\ loop' \in Actor \cup {Idle}
  BY <1>1, LoopStep DEF RunAppend, RunGoto, TypeOK, RunType
<1>5. QED BY <1>2, <1>3, <1>4

-----------------------------------------------------------------------------
(* Types, and who is named by what. *)

\* The initial state, no request received and no task created, satisfies the
\* control invariant.
THEOREM ControlInit == Init => ControlInv
<1> SUFFICES ASSUME Init PROVE ControlInv
  OBVIOUS
<1>1. StoreType /\ HandlerType /\ StreamType /\ RunType
  BY DEF Init, StoreType, HandlerType, StreamType, RunType, HandlerPhase, RunPhase, StreamPhase
<1>2. LoopType /\ PushType
  BY DEF Init, LoopType, PushType, Idling
<1>3. ppc \in [Req -> PreparePhase] /\ IdleInv /\ NameInv
  BY DEF Init, PreparePhase, IdleInv, NameInv
<1>4. QED BY <1>1, <1>2, <1>3 DEF ControlInv, TypeOK

\* The push loop preserves the control invariant.
LEMMA PushControl == ControlInv /\ PushLoop => ControlInv'
<1> SUFFICES ASSUME ControlInv, PushLoop PROVE ControlInv'
  OBVIOUS
<1> USE DEF ControlInv, TypeOK
<1>1. UNCHANGED <<storeVars, handlerVars, streamVars, runVars, ppc, pend, ready, loop>>
  BY DEF PushLoop, PushTake, PushFail, PushDeliver
<1>2. pushq' \in Seq(Req \X Nat)
  <2>1. pushq \in Seq(Req \X Nat)
    BY DEF PushType
  <2>2. CASE PushTake
    BY <2>1, <2>2 DEF PushTake
  <2>3. QED BY <2>1, <2>2 DEF PushLoop, PushFail, PushDeliver
<1>3. pushing' \in [task : Req \cup {NoReq}, n : Nat, todo : SUBSET Config]
  <2> Idling \in [task : Req \cup {NoReq}, n : Nat, todo : SUBSET Config]
    BY DEF Idling
  <2>1. CASE PushTake
    <3>1. Head(pushq) \in Req \X Nat
      BY <2>1 DEF PushTake, PushType
    <3>2. QED BY <2>1, <3>1 DEF PushTake, PushType, StoreType
  <2>2. CASE PushFail
    BY <2>2 DEF PushFail
  <2>3. ASSUME NEW c \in Config, PushDeliver(c)
        PROVE  pushing' \in [task : Req \cup {NoReq}, n : Nat, todo : SUBSET Config]
    BY <2>3 DEF PushDeliver, PushType
  <2>4. QED BY <2>1, <2>2, <2>3 DEF PushLoop
<1>4. QED
  BY <1>1, <1>2, <1>3 DEF storeVars, handlerVars, streamVars, runVars, StoreType, HandlerType,
     StreamType, RunType, LoopType, PushType, IdleInv, NameInv

-----------------------------------------------------------------------------
(* Steps of one request's coroutines. *)

\* What a step leaves alone keeps its type.
LEMMA Frame ==
  ASSUME TypeOK
  PROVE  /\ UNCHANGED storeVars => StoreType'
         /\ UNCHANGED handlerVars => HandlerType'
         /\ UNCHANGED streamVars => StreamType'
         /\ UNCHANGED runVars => RunType'
         /\ UNCHANGED <<ready, loop>> => LoopType'
         /\ UNCHANGED <<pushVars, pend>> => PushType'
         /\ UNCHANGED ppc => ppc' \in [Req -> PreparePhase]
BY DEF TypeOK, storeVars, handlerVars, streamVars, runVars, pushVars,
       StoreType, HandlerType, StreamType, RunType, LoopType, PushType

\* A step of the coroutines of request r, which has arrived.
Steady(r) ==
  /\ UNCHANGED <<kind, task>>
  /\ hpc'[r] # "idle"
  /\ \A x \in Req \ {r} :
       hpc'[x] = hpc[x] /\ ppc'[x] = ppc[x] /\ fpc'[x] = fpc[x] /\ rpc'[x] = rpc[x]

\* The names of tasks stay distinct over a steady step.
LEMMA SteadyNames ==
  ASSUME ControlInv, NEW r \in Req, hpc[r] # "idle", Steady(r)
  PROVE  IdleInv' /\ NameInv'
BY DEF ControlInv, Steady, IdleInv, NameInv

\* Facts every step of a coroutine of request r may use.
LEMMA ArrivedFacts ==
  ASSUME ControlInv, NEW r \in Req, hpc[r] # "idle" \/ ppc[r] # "none" \/ rpc[r] # "none" \/ fpc[r] # "none"
  PROVE  /\ hpc[r] # "idle" /\ task[r] \in Req
         /\ \A a \in Actor : pend[a] \in Nat
         /\ <<"handler", r>> \in Actor /\ <<"forward", r>> \in Actor
         /\ <<"prepare", r>> \in Actor /\ <<"run", r>> \in Actor
BY Actors DEF ControlInv, IdleInv, NameInv, TypeOK, PushType

\* The arrival of a request preserves the control invariant.
LEMMA ArriveControl ==
  ASSUME ControlInv, NEW r \in Req, NEW k \in AllKinds, NEW t \in Req, Arrive(r, k, t)
  PROVE  ControlInv'
<1>1. StoreType' /\ StreamType' /\ RunType' /\ PushType' /\ ppc' \in [Req -> PreparePhase]
  BY Frame DEF Arrive, ControlInv
<1>2. HandlerType'
  BY DEF Arrive, ControlInv, TypeOK, HandlerType, HandlerPhase
<1>3. LoopType'
  <2>1. <<"handler", r>> \in Actor /\ LoopType
    BY Actors DEF ControlInv, TypeOK
  <2>2. ready' = Append(ready, <<"handler", r>>) /\ loop' = loop
    BY DEF Arrive
  <2>3. QED BY <2>1, <2>2 DEF LoopType
<1>4. IdleInv'
  BY DEF Arrive, ControlInv, IdleInv, TypeOK, HandlerType, streamVars, runVars
<1>5. NameInv'
  BY DEF Arrive, ControlInv, NameInv, TypeOK, HandlerType
<1>6. QED BY <1>1, <1>2, <1>3, <1>4, <1>5 DEF ControlInv, TypeOK

\* The preparation of a run preserves the control invariant.
LEMMA PrepareControl ==
  ASSUME AgentAssumption, ControlInv, NEW r \in Req, Prepare(r)
  PROVE  ControlInv' /\ Steady(r)
<1>0. ppc[r] # "none"
  BY DEF Prepare, PrepareStart, PrepareFinish, PrepareFail, PrepareFailTail
<1>1. hpc[r] # "idle" /\ task[r] \in Req /\ <<"prepare", r>> \in Actor
  BY <1>0, ArrivedFacts
<1>2. HandlerType' /\ StreamType' /\ ppc' \in [Req -> PreparePhase] /\ Steady(r)
  <2>1. UNCHANGED handlerVars /\ UNCHANGED streamVars
    BY DEF Prepare, PrepareStart, PrepareFinish, PrepareFail, PrepareFailTail
  <2>2. \E p \in PreparePhase : ppc' = [ppc EXCEPT ![r] = p]
    BY DEF Prepare, PrepareStart, PrepareFinish, PrepareFail, PrepareFailTail, PreparePhase
  <2>3. \A x \in Req \ {r} : rpc'[x] = rpc[x]
    BY DEF Prepare, PrepareStart, PrepareFinish, PrepareFail, PrepareFailTail, Register, runVars,
       ControlInv, TypeOK, RunType
  <2>4. QED
    BY <1>1, <2>1, <2>2, <2>3, Frame DEF Steady, handlerVars, streamVars, ControlInv, TypeOK
<1>3. StoreType'
  <2>1. CASE PrepareFail(r)
    BY <1>1, <2>1, AppendStatusType DEF PrepareFail, ControlInv, TypeOK, States, FinalStates
  <2>2. QED BY <2>1, Frame DEF Prepare, PrepareStart, PrepareFinish, PrepareFailTail, ControlInv
<1>4. RunType' /\ LoopType'
  <2>1. CASE PrepareFinish(r)
    BY <1>1, <2>1, RegisterType DEF PrepareFinish, Yield, ControlInv, TypeOK, LoopType
  <2>2. CASE PrepareStart(r)
    BY <1>1, <2>2, Frame, LoopStep DEF PrepareStart, First, ControlInv, TypeOK, LoopType
  <2>3. CASE PrepareFail(r) \/ PrepareFailTail(r)
    BY <1>1, <2>3, Frame, LoopStep DEF PrepareFail, PrepareFailTail, ControlInv, TypeOK, LoopType
  <2>4. QED BY <2>1, <2>2, <2>3 DEF Prepare
<1>5. PushType'
  <2>1. CASE PrepareFail(r)
    BY <1>1, <2>1, OweType DEF PrepareFail, pushVars, ControlInv, TypeOK, PushType
  <2>2. CASE PrepareFailTail(r)
    <3>1. pend[<<"prepare", r>>] \in Nat
      BY <1>0, ArrivedFacts
    <3>2. QED BY <1>1, <2>2, <3>1, SettleType DEF PrepareFailTail, ControlInv, TypeOK, PushType
  <2>3. QED BY <2>1, <2>2, Frame DEF Prepare, PrepareStart, PrepareFinish, ControlInv
<1>6. QED
  BY <1>1, <1>2, <1>3, <1>4, <1>5, SteadyNames DEF ControlInv, TypeOK

\* A forwarder preserves the control invariant.
LEMMA ForwardControl ==
  ASSUME ControlInv, NEW r \in Req, Forward(r)
  PROVE  ControlInv' /\ Steady(r)
<1>0. fpc[r] # "none"
  BY DEF Forward, ForwardOn, ForwardStart, ForwardSend, ForwardFail, Unsubscribe
<1>1. hpc[r] # "idle" /\ task[r] \in Req
  BY <1>0, ArrivedFacts
<1>2. HandlerType' /\ RunType' /\ PushType' /\ ppc' \in [Req -> PreparePhase] /\ Steady(r)
  <2>1. /\ UNCHANGED handlerVars /\ UNCHANGED runVars /\ UNCHANGED <<pushVars, pend>>
        /\ UNCHANGED ppc
    BY DEF Forward, ForwardOn, ForwardStart, ForwardSend, ForwardFail, Unsubscribe
  <2>2. \A x \in Req \ {r} : fpc'[x] = fpc[x]
    BY DEF Forward, ForwardOn, ForwardStart, ForwardSend, ForwardFail, Unsubscribe, ControlInv, TypeOK, StreamType
  <2>3. QED BY <1>1, <2>1, <2>2, Frame DEF Steady, handlerVars, runVars, ControlInv
<1>3. LoopType'
  <2>1. ready \in Seq(Actor) /\ loop \in Actor \cup {Idle}
    BY DEF ControlInv, TypeOK, LoopType
  <2>2. CASE ForwardStart(r)
    <3>1. CASE UNCHANGED ready
      BY <2>1, <2>2, <3>1 DEF ForwardStart, LoopType
    <3>2. CASE ready # <<>> /\ ready' = Tail(ready)
      BY <2>1, <2>2, <3>2 DEF ForwardStart, LoopType
    <3>3. QED BY <2>2, <3>1, <3>2 DEF ForwardStart, First
  <2>3. CASE ~ForwardStart(r)
    <3>1. UNCHANGED <<ready, loop>>
      BY <2>3 DEF Forward, ForwardOn, ForwardSend, ForwardFail, Unsubscribe
    <3>2. QED BY <2>1, <3>1 DEF LoopType
  <2>4. QED BY <2>2, <2>3
<1>4. StoreType' /\ StreamType'
  <2> USE DEF ControlInv, TypeOK
  <2>0. /\ queue \in [Req -> Seq(Nat)] /\ hist \in [Req -> Seq(Nat)] /\ sent \in [Req -> Seq(Nat)]
        /\ from \in [Req -> Nat \ {0}] /\ fpc \in [Req -> StreamPhase] /\ subscribed \in SUBSET Req
    BY DEF StoreType, StreamType
  <2>1. CASE ForwardStart(r)
    <3>1. Len(log[task[r]]) \in Nat /\ from[r] \in Nat \ {0}
      BY <1>1 DEF StoreType, StreamType
    <3>2. Positions(from[r], Len(log[task[r]])) \in Seq(Nat)
      BY <3>1, PositionsSeq
    <3>3. queue' \in [Req -> Seq(Nat)] /\ hist' \in [Req -> Seq(Nat)]
      BY <2>0, <2>1, <3>2 DEF ForwardStart
    <3>4. from' \in [Req -> Nat \ {0}] /\ fpc' \in [Req -> StreamPhase] /\ subscribed' \in SUBSET Req
      BY <2>0, <2>1, <3>1 DEF ForwardStart, StreamPhase
    <3>5. UNCHANGED <<status, log, configs, sent>>
      BY <2>1 DEF ForwardStart
    <3>6. QED BY <3>3, <3>4, <3>5 DEF StoreType, StreamType
  <2>2. CASE ForwardSend(r)
    <3>1. hist[r] \in Seq(Nat) /\ queue[r] \in Seq(Nat) /\ sent[r] \in Seq(Nat)
      BY <2>0
    <3>2. hist[r] \o queue[r] \in Seq(Nat) /\ hist[r] \o queue[r] # <<>>
      BY <2>2, <3>1 DEF ForwardSend
    <3>3. Head(hist[r] \o queue[r]) \in Nat
      <4> DEFINE s == hist[r] \o queue[r]
      <4>1. s \in Seq(Nat) /\ s # <<>>
        BY <3>2
      <4> HIDE DEF s
      <4>2. Head(s) \in Nat
        BY <4>1
      <4>3. QED BY <4>2 DEF s
    <3>4. sent' \in [Req -> Seq(Nat)]
      BY <2>0, <2>2, <3>3 DEF ForwardSend
    <3>5. fpc' \in [Req -> StreamPhase]
      BY <2>0, <2>2 DEF ForwardSend, StreamPhase
    <3>6. queue' \in [Req -> Seq(Nat)] /\ hist' \in [Req -> Seq(Nat)]
      <4>1. CASE hist[r] # <<>>
        <5>1. Tail(hist[r]) \in Seq(Nat)
          BY <3>1, <4>1
        <5>2. QED BY <2>0, <2>2, <4>1, <5>1 DEF ForwardSend
      <4>2. CASE hist[r] = <<>>
        <5>1. queue[r] # <<>>
          BY <3>1, <3>2, <4>2
        <5>2. Tail(queue[r]) \in Seq(Nat)
          BY <3>1, <5>1
        <5>3. QED BY <2>0, <2>2, <4>2, <5>2 DEF ForwardSend
      <4>3. QED BY <4>1, <4>2
    <3>7. UNCHANGED <<status, log, configs, subscribed, from>>
      BY <2>2 DEF ForwardSend
    <3>8. QED BY <3>4, <3>5, <3>6, <3>7 DEF StoreType, StreamType
  <2>3. CASE ForwardFail(r)
    BY <2>3, Frame DEF ForwardFail, StreamType, StreamPhase
  <2>4. CASE Unsubscribe(r)
    BY <2>4 DEF Unsubscribe, StoreType, StreamType, StreamPhase
  <2>5. QED BY <2>1, <2>2, <2>3, <2>4 DEF Forward, ForwardOn
<1>5. QED
  BY <1>1, <1>2, <1>3, <1>4, SteadyNames DEF ControlInv, TypeOK

\* The three shapes of a step of a run.
LEMMA RunControl ==
  ASSUME AgentAssumption, ControlInv, NEW u \in Req, Run(u)
  PROVE  ControlInv' /\ Steady(u)
<1> DEFINE a == <<"run", u>>
<1>0. rpc[u] # "none"
  BY DEF Run, RunStart, RunStillborn, RunPush, RunYieldStatus, RunYieldArtifact, RunExhaust,
     RunComplete, RunRaise, RunLeave, RunAbort, RunFinally, RunAt
<1>1. hpc[u] # "idle" /\ task[u] \in Req /\ a \in Actor /\ pend[a] \in Nat
  BY <1>0, ArrivedFacts
<1>2. UNCHANGED <<handlerVars, streamVars, ppc>>
  BY DEF Run, RunStart, RunStillborn, RunPush, RunYieldStatus, RunYieldArtifact, RunExhaust,
     RunComplete, RunRaise, RunLeave, RunAbort, RunFinally
<1>3. HandlerType' /\ StreamType' /\ ppc' \in [Req -> PreparePhase]
  BY <1>2, Frame DEF ControlInv
<1>4. /\ RunType /\ PushType /\ StoreType /\ LoopType /\ TypeOK
      /\ ready \in Seq(Actor) /\ rpc \in [Req -> RunPhase] /\ cancelReq \in [Req -> BOOLEAN]
      /\ processing \in [Req -> Req \cup {NoReq}]
  BY DEF ControlInv, TypeOK, RunType, LoopType
<1>5. /\ StoreType' /\ RunType' /\ LoopType' /\ PushType'
      /\ \E p \in RunPhase : rpc' = [rpc EXCEPT ![u] = p]
  <2>1. ASSUME NEW s \in States, NEW p \in RunPhase, RunAppend(u, s, p), UNCHANGED pushVars,
               ready' = ready \/ (ready # <<>> /\ ready' = Tail(ready))
        PROVE  <1>5
    <3>1. StoreType' /\ RunType' /\ pend' \in [Actor -> Nat] /\ loop' \in Actor \cup {Idle}
      BY <1>1, <1>4, <2>1, RunAppendType
    <3>2. ready' \in Seq(Actor)
      BY <1>4, <2>1, SMTT(40)
    <3>3. PushType'
      BY <1>4, <2>1, <3>1 DEF PushType, pushVars
    <3>4. rpc' = [rpc EXCEPT ![u] = p]
      BY <2>1 DEF RunAppend, RunGoto
    <3>5. QED BY <3>1, <3>2, <3>3, <3>4 DEF LoopType
  <2>2. CASE RunStart(u)
    BY <2>1, <2>2 DEF RunStart, First, RunPhase, States
  <2>3. CASE \E s \in ProcStates : RunYieldStatus(u, s)
    BY <2>1, <2>3, AgentAssumption DEF AgentAssumption, RunYieldStatus, RunPhase
  <2>4. CASE RunComplete(u)
    BY <2>1, <2>4 DEF RunComplete, RunPhase, States, FinalStates
  <2>5. CASE RunRaise(u)
    BY <2>1, <2>5 DEF RunRaise, RunPhase, States, FinalStates
  <2>6. CASE RunYieldArtifact(u)
    <3>1. StoreType'
      BY <1>1, <1>4, <2>6, AppendArtifactType DEF RunYieldArtifact
    <3>2. pend' \in [Actor -> Nat]
      BY <1>1, <1>4, <2>6, OweType DEF RunYieldArtifact
    <3>3. loop' \in Actor \cup {Idle} /\ UNCHANGED <<ready, pushVars>>
      BY <1>1, <2>6, LoopStep DEF RunYieldArtifact
    <3>4. rpc' = [rpc EXCEPT ![u] = "appended"] /\ UNCHANGED <<cancelReq, processing>>
      BY <2>6 DEF RunYieldArtifact, RunGoto
    <3>5. QED BY <1>4, <3>1, <3>2, <3>3, <3>4 DEF RunType, RunPhase, LoopType, PushType, pushVars
  <2>7. CASE RunPush(u)
    <3>1. StoreType'
      BY <1>4, <2>7, Frame DEF RunPush
    <3>2. PushType'
      BY <1>1, <1>4, <2>7, SettleType DEF RunPush, PushType
    <3>3. ready' = ready /\ loop' \in Actor \cup {Idle}
      BY <1>1, <2>7, LoopStep DEF RunPush
    <3>4. /\ rpc' = [rpc EXCEPT ![u] = "processing"] \/ rpc' = [rpc EXCEPT ![u] = "finally"]
          /\ UNCHANGED <<cancelReq, processing>>
      BY <2>7 DEF RunPush, RunGoto
    <3>5. RunType' /\ \E p \in RunPhase : rpc' = [rpc EXCEPT ![u] = p]
      BY <1>4, <3>4 DEF RunType, RunPhase
    <3>6. QED BY <1>4, <3>1, <3>2, <3>3, <3>5 DEF LoopType
  <2>8. CASE RunExhaust(u) \/ RunLeave(u)
    <3>1. StoreType' /\ PushType'
      BY <1>4, <2>8, Frame DEF RunExhaust, RunLeave
    <3>2. ready' = ready /\ loop' \in Actor \cup {Idle}
      BY <1>1, <2>8, LoopStep DEF RunExhaust, RunLeave
    <3>3. /\ \E p \in {"leaving", "open", "finally"} : rpc' = [rpc EXCEPT ![u] = p]
          /\ UNCHANGED <<cancelReq, processing>>
      BY <2>8 DEF RunExhaust, RunLeave, RunGoto
    <3>4. RunType' /\ \E p \in RunPhase : rpc' = [rpc EXCEPT ![u] = p]
      BY <1>4, <3>3 DEF RunType, RunPhase
    <3>5. QED BY <1>4, <3>1, <3>2, <3>4 DEF LoopType
  <2>9. CASE RunStillborn(u) \/ RunAbort(u) \/ RunFinally(u)
    <3>1. StoreType'
      BY <1>4, <2>9, Frame DEF RunStillborn, RunAbort, RunFinally
    <3>2. pend' \in [Actor -> Nat] /\ UNCHANGED pushVars
      BY <1>1, <1>4, <2>9, SettleType DEF RunStillborn, RunAbort, RunFinally, PushType
    <3>3. loop' \in Actor \cup {Idle}
      BY <1>1, <1>4, <2>9, LoopStep DEF RunStillborn, RunAbort, RunFinally, LoopType
    <3>4. ready' \in Seq(Actor)
      BY <1>4, <2>9, SMTT(40) DEF RunStillborn, RunAbort, RunFinally, First
    <3>5. /\ \E p \in {"done", "finally"} : rpc' = [rpc EXCEPT ![u] = p]
          /\ cancelReq' = [cancelReq EXCEPT ![u] = FALSE]
          /\ processing' = processing \/ processing' = [processing EXCEPT ![task[u]] = NoReq]
      BY <2>9 DEF RunStillborn, RunAbort, RunFinally
    <3>6. RunType' /\ \E p \in RunPhase : rpc' = [rpc EXCEPT ![u] = p]
      BY <1>1, <1>4, <3>5 DEF RunType, RunPhase
    <3>7. QED BY <1>4, <3>1, <3>2, <3>3, <3>4, <3>6 DEF LoopType, PushType, pushVars
  <2>10. QED BY <2>2, <2>3, <2>4, <2>5, <2>6, <2>7, <2>8, <2>9 DEF Run
<1>6. Steady(u)
  BY <1>1, <1>2, <1>4, <1>5 DEF Steady, handlerVars, streamVars
<1>7. QED
  BY <1>1, <1>3, <1>5, <1>6, SteadyNames DEF ControlInv, TypeOK

\* How the step of a request handler ends: at the store, with the answer, or
\* at one of the steps that only move the handler on.
LEMMA HandlerShape ==
  ASSUME NEW r \in Req, Handler(r)
  PROVE  /\ hpc[r] \in HandlerPhase \ {"idle"}
         /\ \/ \E p \in Working : Goto(r, p)
            \/ \E res \in {"ok", "error"} : Answer(r, res)
            \/ Dispatch(r) \/ Admit(r) \/ Reply(r)
<1> USE DEF HandlerPhase, Working
<1>1. CASE Dispatch(r) \/ Admit(r) \/ Reply(r)
  BY <1>1 DEF Dispatch, Admit, Reply
<1>2. CASE Refuse(r) \/ Create(r) \/ SendTail(r) \/ StreamTail(r) \/ LocalStreamTail(r)
  BY <1>2 DEF Refuse, Create, SendTail, StreamTail, LocalStreamTail, CreatedBy, At
<1>3. CASE StartInline(r) \/ InlineFail(r) \/ Fetch(r)
  BY <1>3 DEF StartInline, InlineFail, Fetch, At
<1>4. CASE Resume(r) \/ ResumeTail(r)
  BY <1>4 DEF Resume, ResumeTail, At
<1>5. CASE Cancel(r) \/ CancelTail(r) \/ Subscribe(r)
  BY <1>5 DEF Cancel, CancelTail, Subscribe, At
<1>6. CASE \E c \in Config : Configure(r, c) \/ SetConfig(r, c)
  BY <1>6 DEF Configure, SetConfig, At
<1>7. CASE \E cs \in SUBSET Config : DeleteConfig(r, cs)
  BY <1>7 DEF DeleteConfig, At
<1>8. QED BY <1>1, <1>2, <1>3, <1>4, <1>5, <1>6, <1>7 DEF Handler

\* A handler's step keeps the handlers' types and moves no other handler.
LEMMA HandlerMoves ==
  ASSUME ControlInv, NEW r \in Req, Handler(r)
  PROVE  /\ HandlerType' /\ loop' \in Actor \cup {Idle}
         /\ UNCHANGED <<kind, task>> /\ hpc'[r] # "idle"
         /\ \A x \in Req \ {r} : hpc'[x] = hpc[x]
<1> DEFINE G == /\ HandlerType' /\ loop' \in Actor \cup {Idle}
                /\ UNCHANGED <<kind, task>> /\ hpc'[r] # "idle"
                /\ \A x \in Req \ {r} : hpc'[x] = hpc[x]
<1>1. /\ HandlerType /\ loop \in Actor \cup {Idle} /\ <<"handler", r>> \in Actor
      /\ hpc \in [Req -> HandlerPhase]
  BY Actors DEF ControlInv, TypeOK, LoopType, HandlerType
<1>2. ASSUME NEW p \in Working, Goto(r, p) PROVE G
  <2>1. p \in HandlerPhase \ {"idle"}
    BY DEF Working, HandlerPhase
  <2>2. QED BY <1>1, <1>2, <2>1, GotoType DEF Goto
<1>3. ASSUME NEW res \in {"ok", "error"}, Answer(r, res) PROVE G
  BY <1>1, <1>3, AnswerType DEF Answer
<1>4. CASE Dispatch(r) \/ Admit(r) \/ Reply(r)
  <2>1. \E p \in HandlerPhase \ {"idle"} : hpc' = [hpc EXCEPT ![r] = p]
    BY <1>4 DEF Dispatch, Admit, Reply, HandlerPhase
  <2>2. UNCHANGED <<kind, task, reply>> /\ loop' \in Actor \cup {Idle}
    BY <1>1, <1>4 DEF Dispatch, Admit, Reply, Yield
  <2>3. QED BY <1>1, <2>1, <2>2 DEF HandlerType
<1>5. QED BY <1>2, <1>3, <1>4, HandlerShape

\* A handler's step keeps the store's types.
LEMMA HandlerStore ==
  ASSUME AgentAssumption, ControlInv, NEW r \in Req, task[r] \in Req, Handler(r)
  PROVE  StoreType'
<1>1. StoreType /\ TypeOK /\ configs \in [Req -> SUBSET Config] /\ NameInv
  BY DEF ControlInv, TypeOK, StoreType
<1>2. CASE Create(r)
  BY <1>1, <1>2, CreateTaskType DEF Create
<1>3. CASE Resume(r)
  <2>1. CASE AppendStatus(task[r], "submitted")
    BY <1>1, <2>1, AppendStatusType DEF States
  <2>2. CASE UNCHANGED storeVars
    BY <1>1, <2>2, Frame
  <2>3. QED BY <1>3, <2>1, <2>2 DEF Resume
<1>4. CASE Cancel(r)
  BY <1>1, <1>4, AppendStatusType DEF Cancel, States, FinalStates
<1>5. CASE /\ UNCHANGED <<status, log, subscribed, queue>>
           /\ \E t \in Req : \E cs \in SUBSET Config : configs' = [configs EXCEPT ![t] = cs]
  BY <1>1, <1>5 DEF StoreType
<1>6. CASE \E c \in Config : Configure(r, c) \/ SetConfig(r, c)
  <2>1. PICK c \in Config : Configure(r, c) \/ SetConfig(r, c)
    BY <1>6
  <2>2. configs[r] \cup {c} \in SUBSET Config /\ configs[task[r]] \cup {c} \in SUBSET Config
    BY <1>1
  <2>3. QED BY <1>5, <2>1, <2>2 DEF Configure, SetConfig
<1>7. CASE \E cs \in SUBSET Config : DeleteConfig(r, cs)
  <2>1. PICK cs \in SUBSET Config : DeleteConfig(r, cs)
    BY <1>7
  <2>2. configs[task[r]] \ cs \in SUBSET Config
    BY <1>1
  <2>3. QED BY <1>5, <2>1, <2>2 DEF DeleteConfig
<1>8. CASE UNCHANGED storeVars
  BY <1>1, <1>8, Frame
<1>9. QED
  BY <1>2, <1>3, <1>4, <1>6, <1>7, <1>8
     DEF Handler, Dispatch, Admit, Refuse, SendTail, StreamTail, LocalStreamTail, StartInline,
         InlineFail, Fetch, ResumeTail, CancelTail, Subscribe, Reply

\* A handler's step keeps the streams' types and touches no other stream.
LEMMA HandlerStreams ==
  ASSUME ControlInv, NEW r \in Req, task[r] \in Req, Handler(r)
  PROVE  StreamType' /\ \A x \in Req \ {r} : fpc'[x] = fpc[x]
<1>1. StreamType /\ TypeOK
  BY DEF ControlInv, TypeOK
<1>2. CASE StreamTail(r) \/ StartInline(r) \/ Subscribe(r)
  <2>1. UNCHANGED <<from, hist, sent>> /\ \E p \in StreamPhase : fpc' = [fpc EXCEPT ![r] = p]
    BY <1>1, <1>2 DEF StreamTail, StartInline, Subscribe, StreamPhase, StreamType
  <2>2. QED BY <1>1, <2>1 DEF StreamType
<1>3. CASE ResumeTail(r)
  <2>1. Len(log[task[r]]) + 1 \in Nat \ {0} /\ from[r] \in Nat \ {0}
    BY <1>1 DEF TypeOK, StoreType, StreamType
  <2>2. from' \in [Req -> Nat \ {0}]
    BY <1>1, <1>3, <2>1 DEF ResumeTail, StreamType
  <2>3. fpc' = fpc \/ fpc' = [fpc EXCEPT ![r] = "spawned"]
    BY <1>3 DEF ResumeTail
  <2>4. QED BY <1>1, <1>3, <2>2, <2>3 DEF ResumeTail, StreamType, StreamPhase
<1>4. CASE UNCHANGED streamVars
  BY <1>1, <1>4, Frame DEF streamVars
<1>5. QED
  BY <1>2, <1>3, <1>4
     DEF Handler, Dispatch, Admit, Refuse, Create, SendTail, LocalStreamTail,
         InlineFail, Fetch, Resume, Cancel, CancelTail, Configure, SetConfig, DeleteConfig, Reply

\* A handler's step keeps the runs' types and touches no other run.
LEMMA HandlerRuns ==
  ASSUME ControlInv, NEW r \in Req, task[r] \in Req, Handler(r)
  PROVE  /\ RunType' /\ ppc' \in [Req -> PreparePhase]
         /\ \A x \in Req \ {r} : rpc'[x] = rpc[x] /\ ppc'[x] = ppc[x]
<1>1. /\ RunType /\ LoopType /\ TypeOK /\ ppc \in [Req -> PreparePhase]
      /\ rpc \in [Req -> RunPhase] /\ cancelReq \in [Req -> BOOLEAN]
      /\ processing \in [Req -> Req \cup {NoReq}]
  BY DEF ControlInv, TypeOK, RunType
<1>2. CASE StartInline(r)
  BY <1>1, <1>2, RegisterType DEF StartInline, Register
<1>3. CASE Cancel(r)
  <2>1. cancelReq' = cancelReq \/ \E u \in Req : cancelReq' = [cancelReq EXCEPT ![u] = TRUE]
    <3>1. CASE HasLiveRun(task[r])
      <4>1. processing[task[r]] \in Req
        BY <1>1, <3>1 DEF HasLiveRun
      <4>2. QED BY <1>3, <3>1, <4>1 DEF Cancel
    <3>2. QED BY <1>3, <3>1 DEF Cancel
  <2>2. QED BY <1>1, <1>3, <2>1 DEF Cancel, RunType
<1>4. CASE UNCHANGED runVars /\ (ppc' = ppc \/ ppc' = [ppc EXCEPT ![r] = "spawned"])
  BY <1>1, <1>4, Frame DEF runVars, PreparePhase
<1>5. QED
  BY <1>2, <1>3, <1>4
     DEF Handler, Dispatch, Admit, Refuse, Create, SendTail, StreamTail, LocalStreamTail,
         InlineFail, Fetch, Resume, ResumeTail, CancelTail, Subscribe, Configure, SetConfig,
         DeleteConfig, Reply

\* A handler's step keeps the type of the ready queue.
LEMMA HandlerReady ==
  ASSUME ControlInv, NEW r \in Req, Handler(r)
  PROVE  ready' \in Seq(Actor)
<1>1. ready \in Seq(Actor) /\ <<"forward", r>> \in Actor /\ <<"prepare", r>> \in Actor
      /\ <<"run", r>> \in Actor
  BY Actors DEF ControlInv, TypeOK, LoopType
<1>2. CASE Dispatch(r)
  BY <1>1, <1>2 DEF Dispatch, First
<1>3. CASE SendTail(r) \/ StreamTail(r) \/ StartInline(r) \/ Subscribe(r)
  <2>1. ASSUME NEW a \in Actor, ready' = Append(ready, a) PROVE ready' \in Seq(Actor)
    BY <1>1, <2>1
  <2>2. CASE SendTail(r)
    BY <1>1, <2>1, <2>2 DEF SendTail
  <2>3. CASE StreamTail(r) \/ Subscribe(r)
    BY <1>1, <2>1, <2>3 DEF StreamTail, Subscribe
  <2>4. CASE StartInline(r)
    BY <1>1, <2>1, <2>4 DEF StartInline, Register
  <2>5. QED BY <1>3, <2>2, <2>3, <2>4
<1>4. CASE ResumeTail(r)
  <2> DEFINE two == << <<"forward", r>>, <<"prepare", r>> >>
  <2>1. two \in Seq(Actor)
    BY <1>1
  <2>2. ready' = ready \/ ready' = ready \o two
    BY <1>4 DEF ResumeTail
  <2> HIDE DEF two
  <2>3. ready \o two \in Seq(Actor)
    BY <1>1, <2>1
  <2>4. QED BY <1>1, <2>2, <2>3
<1>5. CASE UNCHANGED ready
  BY <1>1, <1>5
<1>6. QED
  BY <1>2, <1>3, <1>4, <1>5
     DEF Handler, Admit, Refuse, Create, LocalStreamTail, InlineFail, Fetch, Resume, Cancel,
         CancelTail, Configure, SetConfig, DeleteConfig, Reply

\* A handler's step keeps the types of the push queue.
LEMMA HandlerPush ==
  ASSUME ControlInv, NEW r \in Req, task[r] \in Req, Handler(r)
  PROVE  PushType'
<1>1. PushType /\ StoreType /\ TypeOK /\ <<"handler", r>> \in Actor
      /\ pend[<<"handler", r>>] \in Nat
  BY Actors DEF ControlInv, TypeOK, PushType
<1>2. CASE Owe(<<"handler", r>>, task[r]) /\ UNCHANGED pushVars
  BY <1>1, <1>2, OweType DEF PushType, pushVars
<1>3. CASE /\ EnqueuePush(task[r], pend[<<"handler", r>>]) /\ Settle(<<"handler", r>>)
           /\ UNCHANGED pushing
  BY <1>1, <1>3, SettleType DEF PushType
<1>4. CASE UNCHANGED <<pushVars, pend>>
  BY <1>1, <1>4, Frame
<1>5. QED
  BY <1>2, <1>3, <1>4
     DEF Handler, Dispatch, Admit, Refuse, Create, SendTail, StreamTail, LocalStreamTail,
         StartInline, InlineFail, Fetch, Resume, ResumeTail, Cancel, CancelTail, Subscribe,
         Configure, SetConfig, DeleteConfig, Reply

\* Every step of a handler preserves the control invariant.
LEMMA HandlerControl ==
  ASSUME AgentAssumption, ControlInv, NEW r \in Req, Handler(r)
  PROVE  ControlInv' /\ Steady(r)
<1>1. hpc[r] # "idle" /\ task[r] \in Req
  BY HandlerShape, ArrivedFacts
<1>2. HandlerType' /\ LoopType'
  BY HandlerMoves, HandlerReady DEF LoopType
<1>3. StoreType' /\ StreamType' /\ RunType' /\ PushType' /\ ppc' \in [Req -> PreparePhase]
  BY <1>1, HandlerStore, HandlerStreams, HandlerRuns, HandlerPush
<1>4. Steady(r)
  BY <1>1, HandlerMoves, HandlerStreams, HandlerRuns DEF Steady
<1>5. QED BY <1>1, <1>2, <1>3, <1>4, SteadyNames DEF ControlInv, TypeOK

\* Every step of the agent preserves the control invariant: which task a request
\* works on, and which of its coroutines exist at each point of its handler.
THEOREM ControlNext == AgentAssumption /\ ControlInv /\ [Next]_vars => ControlInv'
<1> SUFFICES ASSUME AgentAssumption, ControlInv, [Next]_vars PROVE ControlInv'
  OBVIOUS
<1>1. ASSUME NEW r \in Req, NEW k \in Kinds[r], NEW t \in Req, Arrive(r, k, t)
      PROVE  ControlInv'
  <2>1. k \in AllKinds
    BY DEF AgentAssumption
  <2>2. QED BY <1>1, <2>1, ArriveControl
<1>2. ASSUME NEW r \in Req, Handler(r) \/ Prepare(r) \/ Run(r) \/ Forward(r)
      PROVE  ControlInv'
  BY <1>2, HandlerControl, PrepareControl, RunControl, ForwardControl
<1>3. CASE PushLoop
  BY <1>3, PushControl
<1>4. CASE UNCHANGED vars
  BY <1>4, Frame DEF vars, ControlInv, TypeOK, IdleInv, NameInv, handlerVars, streamVars, runVars
<1>5. QED BY <1>1, <1>2, <1>3, <1>4 DEF Next

\* The agent's state keeps its type in every behaviour, whatever the number of
\* requests, tasks and artifacts (the tables of agent.py and task_store.py).
THEOREM TypeCorrect == Spec => []TypeOK
<1>1. ControlInv => TypeOK
  BY DEF ControlInv
<1>2. QED BY <1>1, AgentAssumption, ControlInit, ControlNext, PTL DEF Spec

-----------------------------------------------------------------------------
(* Sequences *)

\* One position more.
LEMMA PositionsExtend ==
  ASSUME NEW m \in Nat \ {0}, NEW n \in Nat, m <= n + 1
  PROVE  Positions(m, n + 1) = Append(Positions(m, n), n + 1)
<1> DEFINE P == Positions(m, n)  Q == Positions(m, n + 1)
<1>1. /\ P \in Seq(Nat) /\ Len(P) = n - m + 1
      /\ \A i \in 1 .. n - m + 1 : P[i] = m + i - 1
  BY PositionsSeq
<1>2. /\ Q \in Seq(Nat) /\ Len(Q) = n - m + 2
      /\ \A i \in 1 .. n - m + 2 : Q[i] = m + i - 1
  <2>1. n + 1 \in Nat /\ m <= (n + 1) + 1 /\ (n + 1) - m + 1 = n - m + 2
    OBVIOUS
  <2>2. QED BY <2>1, PositionsSeq
<1> HIDE DEF P, Q
<1>3. Append(P, n + 1) \in Seq(Nat) /\ Len(Append(P, n + 1)) = n - m + 2
  BY <1>1, SMTT(40)
<1>4. \A i \in 1 .. n - m + 2 : Append(P, n + 1)[i] = m + i - 1
  BY <1>1, SMTT(40)
<1>5. Q = Append(P, n + 1)
  BY <1>2, <1>3, <1>4, SMTT(40)
<1>6. QED BY <1>5 DEF P, Q

\* A position appended to the queue is appended to the window.
LEMMA WindowAppend ==
  ASSUME NEW s \in Seq(Nat), NEW h \in Seq(Nat), NEW q \in Seq(Nat), NEW x \in Nat
  PROVE  s \o h \o Append(q, x) = Append(s \o h \o q, x)
BY SMTT(40)

\* Moving the head of a sequence to the end of the one before it.
LEMMA MoveHead ==
  ASSUME NEW s \in Seq(Nat), NEW h \in Seq(Nat), h # <<>>
  PROVE  Append(s, Head(h)) \o Tail(h) = s \o h
<1>1. Head(h) \in Nat /\ Tail(h) \in Seq(Nat)
  OBVIOUS
<1>2. QED BY <1>1, SMTT(40)

\* Sending the first position of history and queue leaves the window as it is.
LEMMA WindowSend ==
  ASSUME NEW s \in Seq(Nat), NEW h \in Seq(Nat), NEW q \in Seq(Nat), h \o q # <<>>
  PROVE  /\ h # <<>> => Append(s, Head(h \o q)) \o Tail(h) \o q = s \o h \o q
         /\ h = <<>> => Append(s, Head(h \o q)) \o h \o Tail(q) = s \o h \o q
         /\ (s \o h \o q)[Len(s) + 1] = Head(h \o q)
         /\ Len(s) + 1 <= Len(s \o h \o q)
<1>1. Len(s) + 1 <= Len(s \o h \o q)
  OBVIOUS
<1>2. CASE h # <<>>
  <2>1. Head(h) \in Nat /\ Tail(h) \in Seq(Nat) /\ Head(h \o q) = Head(h)
    BY <1>2
  <2>2. Append(s, Head(h \o q)) \o Tail(h) \o q = s \o h \o q
    <3>1. Append(s, Head(h)) \o Tail(h) = s \o h
      BY <1>2, MoveHead
    <3>2. QED BY <2>1, <3>1, Zenon
  <2>3. (s \o h \o q)[Len(s) + 1] = Head(h \o q)
    BY <1>2, <2>1
  <2>4. QED BY <1>1, <1>2, <2>2, <2>3, Zenon
<1>3. CASE h = <<>>
  <2>1. q # <<>> /\ h \o q = q /\ s \o h = s
    BY <1>3
  <2>2. Append(s, Head(q)) \in Seq(Nat) /\ Head(q) \in Nat
    BY <2>1
  <2>3. Append(s, Head(q)) \o h = Append(s, Head(q))
    BY <1>3, <2>2
  <2>4. Append(s, Head(q)) \o Tail(q) = s \o q
    BY <2>1, MoveHead
  <2>5. Append(s, Head(h \o q)) \o h \o Tail(q) = s \o h \o q
    BY <2>1, <2>3, <2>4, Zenon
  <2>6. (s \o h \o q)[Len(s) + 1] = Head(h \o q)
    BY <2>1
  <2>7. QED BY <1>1, <1>3, <2>5, <2>6, Zenon
<1>4. QED BY <1>2, <1>3
-----------------------------------------------------------------------------
(* What the store does in a step *)

\* Nothing, one event more in an existing log, or a new log.
StoreStep ==
  \/ UNCHANGED <<log, queue, subscribed>>
  \/ \E t \in Req, e \in Event : log[t] # <<>> /\ AppendRecord(t, e)
  \/ \E t \in Req : log[t] = <<>> /\ hpc'[t] \notin Before /\ CreateTask(t)

\* append_status is one record appended for the log and its listeners.
LEMMA AppendStatusStep ==
  ASSUME NEW t \in Req, NEW s \in States, log[t] # <<>>, AppendStatus(t, s)
  PROVE  StoreStep
<1>1. [kind |-> "status", state |-> s] \in Event
  BY DEF Event
<1>2. QED BY <1>1 DEF AppendStatus, StoreStep

\* A handler changes the store by creating a task, by one record, or not at all.
LEMMA HandlerStoreStep ==
  ASSUME StreamInv, NEW r \in Req, Handler(r)
  PROVE  StoreStep
<1>1. /\ hpc[r] # "idle" /\ task[r] \in Req /\ hpc \in [Req -> HandlerPhase]
      /\ log[r] # <<>> => hpc[r] \notin Before
      /\ hpc[r] \in Working => log[task[r]] # <<>>
  BY HandlerShape, ArrivedFacts
     DEF StreamInv, BirthInv, ExistInv, Engaged, ControlInv, TypeOK, HandlerType
<1>2. CASE Create(r)
  <2>1. log[r] = <<>> /\ hpc'[r] \notin Before
    BY <1>1, <1>2 DEF Create, At, Goto, Before
  <2>2. QED BY <1>2, <2>1 DEF Create, StoreStep
<1>3. CASE Resume(r)
  <2>1. log[task[r]] # <<>>
    BY <1>1, <1>3 DEF Resume, At, Working
  <2>2. CASE AppendStatus(task[r], "submitted")
    BY <1>1, <2>1, <2>2, AppendStatusStep DEF States
  <2>3. CASE UNCHANGED storeVars
    BY <2>3 DEF storeVars, StoreStep
  <2>4. QED BY <1>3, <2>2, <2>3 DEF Resume
<1>4. CASE Cancel(r)
  <2>1. log[task[r]] # <<>>
    BY <1>1, <1>4 DEF Cancel, At, Working
  <2>2. QED BY <1>1, <1>4, <2>1, AppendStatusStep DEF Cancel, States, FinalStates
<1>5. CASE UNCHANGED <<log, queue, subscribed>>
  BY <1>5 DEF StoreStep
<1>6. QED
  BY <1>2, <1>3, <1>4, <1>5
     DEF Handler, Dispatch, Admit, Refuse, SendTail, StreamTail, LocalStreamTail, StartInline,
         InlineFail, Fetch, ResumeTail, CancelTail, Subscribe, Configure, SetConfig, DeleteConfig,
         Reply, storeVars

\* A preparation changes the store by one record or not at all.
LEMMA PrepareStoreStep ==
  ASSUME StreamInv, NEW r \in Req, Prepare(r)
  PROVE  StoreStep
<1>1. CASE PrepareFail(r)
  <2>1. ppc[r] # "none"
    BY <1>1 DEF PrepareFail
  <2>2. log[task[r]] # <<>> /\ task[r] \in Req
    BY <2>1, ArrivedFacts DEF StreamInv, ExistInv, Engaged
  <2>3. QED BY <1>1, <2>2, AppendStatusStep DEF PrepareFail, States, FinalStates
<1>2. QED
  BY <1>1 DEF Prepare, PrepareStart, PrepareFinish, PrepareFailTail, storeVars, StoreStep

\* A run changes the store by one record or not at all.
LEMMA RunStoreStep ==
  ASSUME AgentAssumption, StreamInv, NEW u \in Req, Run(u)
  PROVE  StoreStep
<1>1. rpc[u] # "none"
  BY DEF Run, RunStart, RunStillborn, RunPush, RunYieldStatus, RunYieldArtifact, RunExhaust,
     RunComplete, RunRaise, RunLeave, RunAbort, RunFinally, RunAt
<1>2. log[task[u]] # <<>> /\ task[u] \in Req
  BY <1>1, ArrivedFacts DEF StreamInv, ExistInv, Engaged
<1>3. CASE \E s \in States, p \in RunPhase : RunAppend(u, s, p)
  BY <1>2, <1>3, AppendStatusStep DEF RunAppend
<1>4. CASE RunYieldArtifact(u)
  <2>1. [kind |-> "artifact", state |-> "none"] \in Event
    BY DEF Event
  <2>2. QED BY <1>2, <1>4, <2>1 DEF RunYieldArtifact, AppendArtifact, StoreStep
<1>5. CASE UNCHANGED storeVars
  BY <1>5 DEF storeVars, StoreStep
<1>6. CASE RunStart(u) \/ RunComplete(u) \/ RunRaise(u)
  BY <1>3, <1>6 DEF RunStart, RunComplete, RunRaise, RunPhase, States, FinalStates
<1>7. CASE \E s \in ProcStates : RunYieldStatus(u, s)
  BY <1>3, <1>7 DEF RunYieldStatus, RunPhase, AgentAssumption
<1>8. QED
  BY <1>4, <1>5, <1>6, <1>7
     DEF Run, RunStillborn, RunPush, RunExhaust, RunLeave, RunAbort, RunFinally

\* Logs only grow.
Grown == \A t \in Req :
  /\ Len(log[t]) <= Len(log'[t])
  /\ \A i \in 1 .. Len(log[t]) : log'[t][i] = log[t][i]

\* Each of those only lengthens logs, and listeners' queues with them.
LEMMA StoreStepGrows ==
  ASSUME TypeOK, StoreStep
  PROVE  Grown /\ \A t \in Req : log[t] # <<>> => log'[t] # <<>>
<1>1. log \in [Req -> Seq(Event)]
  BY DEF TypeOK, StoreType
<1>2. Grown
  <2>1. CASE UNCHANGED log
    BY <1>1, <2>1 DEF Grown
  <2>2. ASSUME NEW t \in Req, NEW e \in Event, AppendRecord(t, e) PROVE Grown
    BY <1>1, <2>2 DEF AppendRecord, Grown
  <2>3. ASSUME NEW t \in Req, log[t] = <<>>, CreateTask(t) PROVE Grown
    BY <1>1, <2>3 DEF CreateTask, Grown
  <2>4. QED BY <2>1, <2>2, <2>3 DEF StoreStep
<1>3. ASSUME NEW t \in Req, log[t] # <<>> PROVE log'[t] # <<>>
  <2>1. CASE UNCHANGED log
    BY <1>3, <2>1
  <2>2. ASSUME NEW x \in Req, NEW e \in Event, AppendRecord(x, e) PROVE log'[t] # <<>>
    BY <1>1, <1>3, <2>2 DEF AppendRecord
  <2>3. ASSUME NEW x \in Req, log[x] = <<>>, CreateTask(x) PROVE log'[t] # <<>>
    BY <1>1, <1>3, <2>3 DEF CreateTask
  <2>4. QED BY <2>1, <2>2, <2>3 DEF StoreStep
<1>4. QED BY <1>2, <1>3
-----------------------------------------------------------------------------
(* What a step that is not of a forwarder does to the streams *)

\* A stream keeps its state, or is opened at a position of the log.
Opening(x) ==
  \/ fpc'[x] = fpc[x] /\ from'[x] = from[x]
  \/ /\ fpc[x] = "none" /\ fpc'[x] \in {"none", "spawned", "lazy"}
     /\ hpc[x] # "idle"
     /\ from'[x] = from[x] \/ (from'[x] = Len(log[task[x]]) + 1 /\ UNCHANGED log)

QuietStep ==
  /\ StoreStep
  /\ UNCHANGED <<hist, sent>>
  /\ \A x \in Req : Opening(x)
  /\ \A x \in Req : hpc[x] # "idle" => task'[x] = task[x] /\ hpc'[x] # "idle"

\* A step that leaves logs and queues alone leaves every window alone.
LEMMA UntouchedStreams ==
  ASSUME UNCHANGED streamVars
  PROVE  UNCHANGED <<hist, sent>> /\ \A x \in Req : Opening(x)
BY DEF streamVars, Opening

\* The arrival of a request sends nothing.
LEMMA ArriveQuiet ==
  ASSUME StreamInv, NEW r \in Req, NEW k \in AllKinds, NEW t \in Req, Arrive(r, k, t)
  PROVE  QuietStep
<1>1. StoreStep
  BY DEF Arrive, storeVars, StoreStep
<1>2. UNCHANGED <<hist, sent>> /\ \A x \in Req : Opening(x)
  BY UntouchedStreams DEF Arrive
<1>3. \A x \in Req : hpc[x] # "idle" => task'[x] = task[x] /\ hpc'[x] # "idle"
  BY DEF Arrive, StreamInv, ControlInv, TypeOK, HandlerType
<1>4. QED BY <1>1, <1>2, <1>3 DEF QuietStep

\* A handler's step sends no event of a stream.
LEMMA HandlerQuiet ==
  ASSUME StreamInv, NEW r \in Req, Handler(r)
  PROVE  QuietStep
<1>1. /\ StoreStep
      /\ hpc'[r] # "idle" /\ hpc[r] # "idle" /\ task' = task
      /\ \A x \in Req \ {r} : hpc'[x] = hpc[x]
      /\ fpc \in [Req -> StreamPhase] /\ from \in [Req -> Nat \ {0}]
  BY HandlerStoreStep, HandlerMoves, HandlerShape DEF StreamInv, ControlInv, TypeOK, StreamType
<1>2. UNCHANGED <<hist, sent>> /\ \A x \in Req : Opening(x)
  <2>1. CASE StreamTail(r) \/ StartInline(r) \/ Subscribe(r)
    <3>1. UNCHANGED <<from, hist, sent>>
      BY <2>1 DEF StreamTail, StartInline, Subscribe
    <3>2. fpc' = fpc \/ (fpc[r] = "none" /\ \E p \in {"spawned", "lazy"} : fpc' = [fpc EXCEPT ![r] = p])
      <4>1. CASE StreamTail(r)
        BY <4>1 DEF StreamTail, CreatedBy, At, StreamInv, FreshInv
      <4>2. CASE StartInline(r)
        <5>1. kind[r] \in Local => fpc[r] = "none"
          BY <4>2 DEF StartInline, At, Local, StreamInv, FreshInv
        <5>2. kind[r] \notin Local => fpc' = fpc
          BY <1>1, <4>2 DEF StartInline
        <5>3. QED BY <4>2, <5>1, <5>2 DEF StartInline
      <4>3. CASE Subscribe(r)
        BY <4>3 DEF Subscribe, At, StreamInv, FreshInv
      <4>4. QED BY <2>1, <4>1, <4>2, <4>3
    <3>3. QED BY <1>1, <3>1, <3>2 DEF Opening
  <2>2. CASE ResumeTail(r)
    <3>1. fpc[r] = "none" /\ UNCHANGED <<log, hist, sent>>
      BY <2>2 DEF ResumeTail, At, StreamInv, FreshInv, storeVars
    <3>2. fpc' = fpc \/ fpc' = [fpc EXCEPT ![r] = "spawned"]
      BY <2>2 DEF ResumeTail
    <3>3. /\ \A x \in Req \ {r} : from'[x] = from[x]
          /\ from'[r] = from[r] \/ from'[r] = Len(log[task[r]]) + 1
      BY <1>1, <2>2 DEF ResumeTail
    <3>4. QED BY <1>1, <3>1, <3>2, <3>3 DEF Opening
  <2>3. CASE UNCHANGED streamVars
    BY <2>3, UntouchedStreams
  <2>4. QED
    BY <2>1, <2>2, <2>3
       DEF Handler, Dispatch, Admit, Refuse, Create, SendTail, LocalStreamTail, InlineFail, Fetch,
           Resume, Cancel, CancelTail, Configure, SetConfig, DeleteConfig, Reply
<1>3. QED BY <1>1, <1>2 DEF QuietStep

\* A preparation or a run sends no event of a stream.
LEMMA OthersQuiet ==
  ASSUME AgentAssumption, StreamInv,
         \/ \E r \in Req : Prepare(r) \/ Run(r)
         \/ PushLoop \/ UNCHANGED vars
  PROVE  QuietStep
<1>1. StoreStep
  <2>1. CASE \E r \in Req : Prepare(r) \/ Run(r)
    BY <2>1, PrepareStoreStep, RunStoreStep
  <2>2. CASE PushLoop \/ UNCHANGED vars
    BY <2>2 DEF PushLoop, PushTake, PushDeliver, PushFail, vars, storeVars, StoreStep
  <2>3. QED BY <2>1, <2>2
<1>2. UNCHANGED streamVars /\ UNCHANGED handlerVars
  <2>1. CASE \E r \in Req : Prepare(r)
    BY <2>1 DEF Prepare, PrepareStart, PrepareFinish, PrepareFail, PrepareFailTail
  <2>2. CASE \E u \in Req : Run(u)
    BY <2>2 DEF Run, RunStart, RunStillborn, RunPush, RunYieldStatus, RunYieldArtifact, RunExhaust,
       RunComplete, RunRaise, RunLeave, RunAbort, RunFinally
  <2>3. CASE PushLoop \/ UNCHANGED vars
    BY <2>3 DEF PushLoop, PushTake, PushDeliver, PushFail, vars
  <2>4. QED BY <2>1, <2>2, <2>3
<1>3. QED BY <1>1, <1>2, UntouchedStreams DEF handlerVars, QuietStep

-----------------------------------------------------------------------------
(* The stream invariants, step by step *)

\* Facts about a request in a step that is not of a forwarder.
LEMMA QuietFacts ==
  ASSUME StreamInv, QuietStep, NEW r \in Req
  PROVE  /\ hpc[r] = "idle" => fpc[r] = "none" /\ fpc'[r] = "none" /\ from'[r] = from[r]
         /\ hpc[r] # "idle" => /\ hpc'[r] # "idle" /\ task[r] \in Req /\ task'[r] = task[r]
                               /\ Len(log[task[r]]) <= Len(log'[task'[r]])
                               /\ \A i \in 1 .. Len(log[task[r]]) : log'[task'[r]][i] = log[task[r]][i]
         /\ Len(log[r]) \in Nat
<1>1. CASE hpc[r] = "idle"
  <2>1. fpc[r] = "none"
    BY <1>1 DEF StreamInv, ControlInv, IdleInv
  <2>2. Opening(r)
    BY DEF QuietStep
  <2>3. fpc'[r] = fpc[r] /\ from'[r] = from[r]
    BY <1>1, <2>2 DEF Opening
  <2>4. QED BY <1>1, <2>1, <2>3 DEF StreamInv, ControlInv, TypeOK, StoreType
<1>2. CASE hpc[r] # "idle"
  <2>1. hpc'[r] # "idle" /\ task'[r] = task[r]
    BY <1>2 DEF QuietStep
  <2>2. task[r] \in Req
    BY <1>2 DEF StreamInv, ControlInv, NameInv
  <2>3. Grown
    BY StoreStepGrows DEF StreamInv, ControlInv, QuietStep
  <2>4. QED BY <1>2, <2>1, <2>2, <2>3 DEF Grown, StreamInv, ControlInv, TypeOK, StoreType
<1>3. QED BY <1>1, <1>2

\* A stream that is not open yet stays so unless its forwarder moves.
LEMMA QuietUnopened ==
  ASSUME StreamInv, QuietStep, TypeOK'
  PROVE  UnopenedInv'
<1> SUFFICES ASSUME NEW r \in Req, fpc'[r] \in {"none", "spawned", "lazy"}
             PROVE  /\ sent'[r] = <<>>
                    /\ from'[r] = 2 \/ (hpc'[r] # "idle" /\ from'[r] <= Len(log'[task'[r]]) + 1)
  BY DEF UnopenedInv
<1>1. Opening(r) /\ sent' = sent
  BY DEF QuietStep
<1>2. fpc[r] \in {"none", "spawned", "lazy"}
  BY <1>1 DEF Opening
<1>3. /\ sent[r] = <<>>
      /\ from[r] = 2 \/ (hpc[r] # "idle" /\ from[r] <= Len(log[task[r]]) + 1)
  BY <1>2 DEF StreamInv, UnopenedInv
<1>4. CASE hpc[r] = "idle"
  BY <1>1, <1>3, <1>4, QuietFacts
<1>5. CASE hpc[r] # "idle"
  <2>1. task[r] \in Req /\ task'[r] = task[r] /\ hpc'[r] # "idle"
    BY <1>5, QuietFacts
  <2>2. Len(log[task[r]]) \in Nat /\ Len(log'[task[r]]) \in Nat /\ from[r] \in Nat
    <3>1. log \in [Req -> Seq(Event)] /\ log' \in [Req -> Seq(Event)] /\ from \in [Req -> Nat \ {0}]
      BY DEF StreamInv, ControlInv, TypeOK, StoreType, StreamType
    <3>2. QED BY <2>1, <3>1
  <2>3. Len(log[task[r]]) <= Len(log'[task[r]])
    BY <1>5, <2>1, QuietFacts
  <2>4. from'[r] = from[r] \/ from'[r] = Len(log[task[r]]) + 1
    BY <1>1 DEF Opening
  <2>5. from'[r] = 2 \/ from'[r] <= Len(log'[task[r]]) + 1
    BY <1>3, <2>2, <2>3, <2>4
  <2>6. QED BY <1>1, <1>3, <2>1, <2>5
<1>6. QED BY <1>4, <1>5

\* What a stream has sent stays as it is unless its forwarder moves.
LEMMA QuietSent ==
  ASSUME StreamInv, QuietStep, TypeOK'
  PROVE  SentInv'
<1> SUFFICES ASSUME NEW r \in Req, NEW i \in 1 .. Len(sent'[r])
             PROVE  /\ sent'[r][i] \in 1 .. Len(log'[task'[r]])
                    /\ Final(log'[task'[r]][sent'[r][i]])
                         => i = Len(sent'[r]) /\ fpc'[r] \in {"closing", "closed"}
  BY DEF SentInv
<1>1. Opening(r) /\ sent' = sent /\ sent[r] \in Seq(Nat)
  BY DEF QuietStep, StreamInv, ControlInv, TypeOK, StreamType
<1>2. /\ sent[r][i] \in 1 .. Len(log[task[r]])
      /\ Final(log[task[r]][sent[r][i]]) => i = Len(sent[r]) /\ fpc[r] \in {"closing", "closed"}
  BY <1>1 DEF StreamInv, SentInv
<1>3. fpc[r] \notin {"none", "spawned", "lazy"}
  BY <1>1 DEF StreamInv, UnopenedInv
<1>4. fpc'[r] = fpc[r] /\ hpc[r] # "idle"
  BY <1>1, <1>3, QuietFacts DEF Opening
<1>5. /\ task[r] \in Req /\ task'[r] = task[r]
      /\ Len(log[task[r]]) <= Len(log'[task[r]])
      /\ log'[task[r]][sent[r][i]] = log[task[r]][sent[r][i]]
  BY <1>2, <1>4, QuietFacts, SMTT(40)
<1>6. Len(log[task[r]]) \in Nat /\ Len(log'[task[r]]) \in Nat
  BY <1>5 DEF StreamInv, ControlInv, TypeOK, StoreType
<1>7. QED BY <1>1, <1>2, <1>4, <1>5, <1>6, SMTT(40)

\* An open stream's window stays complete when others append to its log.
LEMMA QuietOpen ==
  ASSUME StreamInv, QuietStep, TypeOK'
  PROVE  OpenInv'
<1> SUFFICES ASSUME NEW r \in Req, fpc'[r] = "open"
             PROVE  /\ r \in subscribed'
                    /\ from'[r] <= Len(log'[task'[r]]) + 1
                    /\ Window(r)' = Positions(from'[r], Len(log'[task'[r]]))
  BY DEF OpenInv
<1>1. Opening(r) /\ sent' = sent /\ hist' = hist
  BY DEF QuietStep
<1>2. fpc[r] = "open" /\ from'[r] = from[r]
  BY <1>1 DEF Opening
<1>3. hpc[r] # "idle"
  BY <1>2, QuietFacts
<1>4. task[r] \in Req /\ task'[r] = task[r]
  BY <1>3, QuietFacts
<1>5. /\ r \in subscribed /\ from[r] <= Len(log[task[r]]) + 1
      /\ sent[r] \o hist[r] \o queue[r] = Positions(from[r], Len(log[task[r]]))
  BY <1>2 DEF StreamInv, OpenInv, Window
<1>6. /\ sent[r] \in Seq(Nat) /\ hist[r] \in Seq(Nat) /\ queue[r] \in Seq(Nat)
      /\ from[r] \in Nat \ {0} /\ log \in [Req -> Seq(Event)] /\ queue \in [Req -> Seq(Nat)]
  BY DEF StreamInv, ControlInv, TypeOK, StoreType, StreamType
<1>7. r \in subscribed'
  BY <1>5 DEF QuietStep, StoreStep, AppendRecord, CreateTask
<1>8. CASE log'[task[r]] = log[task[r]] /\ queue'[r] = queue[r]
  BY <1>1, <1>2, <1>4, <1>5, <1>7, <1>8 DEF Window
<1>9. ASSUME NEW t \in Req, NEW e \in Event, AppendRecord(t, e)
      PROVE  /\ from'[r] <= Len(log'[task'[r]]) + 1
             /\ Window(r)' = Positions(from'[r], Len(log'[task'[r]]))
  <2>1. CASE task[r] # t
    <3>1. log'[task[r]] = log[task[r]] /\ queue'[r] = queue[r]
      BY <1>4, <1>6, <1>9, <2>1 DEF AppendRecord
    <3>2. QED BY <3>1, <1>1, <1>2, <1>4, <1>5 DEF Window
  <2>2. CASE task[r] = t
    <3> DEFINE n == Len(log[task[r]])
    <3>1. log'[task[r]] = Append(log[task[r]], e) /\ queue'[r] = Append(queue[r], n + 1)
      BY <1>4, <1>5, <1>6, <1>9, <2>2 DEF AppendRecord
    <3>2. n \in Nat /\ Len(log'[task[r]]) = n + 1
      BY <1>4, <1>6, <3>1
    <3>3. Window(r)' = sent[r] \o hist[r] \o Append(queue[r], n + 1)
      BY <1>1, <3>1 DEF Window
    <3> HIDE DEF n
    <3>4. n + 1 \in Nat /\ from[r] <= n + 1 /\ from[r] <= (n + 1) + 1
      BY <1>5, <1>6, <3>2, SMTT(40) DEF n
    <3>5. sent[r] \o hist[r] \o Append(queue[r], n + 1) = Append(sent[r] \o hist[r] \o queue[r], n + 1)
      <4>1. sent[r] \in Seq(Nat) /\ hist[r] \in Seq(Nat) /\ queue[r] \in Seq(Nat) /\ n + 1 \in Nat
        BY <1>6, <3>4
      <4>2. QED BY <4>1, WindowAppend, Zenon
    <3>6. Positions(from[r], n + 1) = Append(Positions(from[r], n), n + 1)
      BY <1>6, <3>2, <3>4, PositionsExtend
    <3>7. Window(r)' = Positions(from[r], n + 1)
      BY <1>5, <3>3, <3>5, <3>6, Zenon DEF n
    <3>8. QED BY <1>2, <1>4, <3>2, <3>4, <3>7
  <2>3. QED BY <2>1, <2>2
<1>10. ASSUME NEW t \in Req, log[t] = <<>>, CreateTask(t)
       PROVE  log'[task[r]] = log[task[r]] /\ queue'[r] = queue[r]
  <2>1. log[task[r]] # <<>>
    BY <1>2 DEF StreamInv, ExistInv, Engaged
  <2>2. QED BY <1>4, <1>6, <1>10, <2>1 DEF CreateTask
<1>11. CASE UNCHANGED <<log, queue, subscribed>>
  BY <1>8, <1>11
<1>12. QED BY <1>7, <1>8, <1>9, <1>10, <1>11 DEF QuietStep, StoreStep
-----------------------------------------------------------------------------
(* A step of a forwarder *)

\* A forwarder leaves everything but its own stream alone.
LEMMA ForwardOthers ==
  ASSUME StreamInv, NEW r \in Req, Forward(r)
  PROVE  /\ UNCHANGED <<log, task, hpc, kind>>
         /\ \A x \in Req \ {r} :
              /\ fpc'[x] = fpc[x] /\ from'[x] = from[x] /\ sent'[x] = sent[x]
              /\ hist'[x] = hist[x] /\ queue'[x] = queue[x]
              /\ x \in subscribed' <=> x \in subscribed
<1>1. /\ fpc \in [Req -> StreamPhase] /\ from \in [Req -> Nat \ {0}] /\ sent \in [Req -> Seq(Nat)]
      /\ hist \in [Req -> Seq(Nat)] /\ queue \in [Req -> Seq(Nat)] /\ subscribed \in SUBSET Req
  BY DEF StreamInv, ControlInv, TypeOK, StreamType, StoreType
<1>2. UNCHANGED <<log, task, hpc, kind>>
  BY DEF Forward, ForwardOn, ForwardStart, ForwardSend, ForwardFail, Unsubscribe, storeVars, handlerVars
<1>3. CASE ForwardStart(r)
  BY <1>1, <1>2, <1>3 DEF ForwardStart
<1>4. CASE ForwardSend(r)
  <2>1. queue' = queue \/ queue' = [queue EXCEPT ![r] = Tail(@)]
    BY <1>4 DEF ForwardSend
  <2>2. hist' = hist \/ hist' = [hist EXCEPT ![r] = Tail(@)]
    BY <1>4 DEF ForwardSend
  <2>3. UNCHANGED <<from, subscribed>> /\ \A x \in Req \ {r} : fpc'[x] = fpc[x] /\ sent'[x] = sent[x]
    BY <1>1, <1>4 DEF ForwardSend
  <2>4. \A x \in Req \ {r} : hist'[x] = hist[x] /\ queue'[x] = queue[x]
    BY <1>1, <2>1, <2>2
  <2>5. QED BY <1>2, <2>3, <2>4
<1>5. CASE ForwardFail(r) \/ Unsubscribe(r)
  BY <1>1, <1>2, <1>5 DEF ForwardFail, Unsubscribe, storeVars
<1>6. QED BY <1>3, <1>4, <1>5 DEF Forward, ForwardOn

\* The other streams keep their invariants.
LEMMA ForwardFrame ==
  ASSUME StreamInv, NEW r \in Req, Forward(r),
         fpc'[r] \notin {"none", "spawned", "lazy"},
         fpc'[r] = "open" => /\ r \in subscribed'
                            /\ from'[r] <= Len(log[task[r]]) + 1
                            /\ Window(r)' = Positions(from'[r], Len(log[task[r]])),
         \A i \in 1 .. Len(sent'[r]) :
           /\ sent'[r][i] \in 1 .. Len(log[task[r]])
           /\ Final(log[task[r]][sent'[r][i]]) => i = Len(sent'[r]) /\ fpc'[r] \in {"closing", "closed"}
  PROVE  UnopenedInv' /\ OpenInv' /\ SentInv'
<1>1. UnopenedInv'
  <2> SUFFICES ASSUME NEW x \in Req \ {r}, fpc'[x] \in {"none", "spawned", "lazy"}
               PROVE  /\ sent'[x] = <<>>
                      /\ from'[x] = 2 \/ (hpc'[x] # "idle" /\ from'[x] <= Len(log'[task'[x]]) + 1)
    BY DEF UnopenedInv
  <2>1. QED BY ForwardOthers DEF StreamInv, UnopenedInv
<1>2. OpenInv'
  <2> SUFFICES ASSUME NEW x \in Req \ {r}, fpc'[x] = "open"
               PROVE  /\ x \in subscribed'
                      /\ from'[x] <= Len(log'[task'[x]]) + 1
                      /\ Window(x)' = Positions(from'[x], Len(log'[task'[x]]))
    BY ForwardOthers DEF OpenInv
  <2>1. QED BY ForwardOthers DEF StreamInv, OpenInv, Window
<1>3. SentInv'
  <2> SUFFICES ASSUME NEW x \in Req \ {r}, NEW i \in 1 .. Len(sent'[x])
               PROVE  /\ sent'[x][i] \in 1 .. Len(log'[task'[x]])
                      /\ Final(log'[task'[x]][sent'[x][i]])
                           => i = Len(sent'[x]) /\ fpc'[x] \in {"closing", "closed"}
    BY ForwardOthers DEF SentInv
  <2>1. QED BY ForwardOthers DEF StreamInv, SentInv
<1>4. QED BY <1>1, <1>2, <1>3

\* The next record of an open stream is the one behind what it has sent.
LEMMA NextPosition ==
  ASSUME StreamInv, NEW r \in Req, fpc[r] = "open", hist[r] \o queue[r] # <<>>
  PROVE  /\ Head(hist[r] \o queue[r]) = from[r] + Len(sent[r])
         /\ Head(hist[r] \o queue[r]) \in 1 .. Len(log[task[r]])
<1> DEFINE n == Len(log[task[r]])
           m == Head(hist[r] \o queue[r])
<1>1. /\ sent[r] \in Seq(Nat) /\ hist[r] \in Seq(Nat) /\ queue[r] \in Seq(Nat)
      /\ from[r] \in Nat \ {0} /\ log \in [Req -> Seq(Event)]
  BY DEF StreamInv, ControlInv, TypeOK, StreamType, StoreType
<1>2. n \in Nat
  <2>1. task[r] \in Req
    BY ArrivedFacts DEF StreamInv
  <2>2. QED BY <1>1, <2>1
<1>3. from[r] <= n + 1 /\ sent[r] \o hist[r] \o queue[r] = Positions(from[r], n)
  BY DEF StreamInv, OpenInv, Window
<1>4. /\ m = Positions(from[r], n)[Len(sent[r]) + 1]
      /\ Len(sent[r]) + 1 <= Len(Positions(from[r], n))
  <2>1. /\ (sent[r] \o hist[r] \o queue[r])[Len(sent[r]) + 1] = Head(hist[r] \o queue[r])
        /\ Len(sent[r]) + 1 <= Len(sent[r] \o hist[r] \o queue[r])
    BY <1>1, WindowSend, Zenon
  <2>2. QED BY <1>3, <2>1, Zenon
<1> HIDE DEF m, n
<1>5. /\ Len(Positions(from[r], n)) = n - from[r] + 1
      /\ \A i \in 1 .. n - from[r] + 1 : Positions(from[r], n)[i] = from[r] + i - 1
  BY <1>1, <1>2, <1>3, PositionsSeq
<1>6. Len(sent[r]) + 1 \in 1 .. n - from[r] + 1
  BY <1>1, <1>2, <1>4, <1>5
<1>7. m = from[r] + Len(sent[r])
  BY <1>1, <1>4, <1>5, <1>6
<1>8. m \in 1 .. n
  BY <1>1, <1>2, <1>6, <1>7, SMTT(40)
<1>9. QED BY <1>7, <1>8 DEF m, n

\* The forwarder's own step keeps the three stream facts of its request.
LEMMA ForwardStreams ==
  ASSUME StreamInv, NEW r \in Req, Forward(r)
  PROVE  UnopenedInv' /\ OpenInv' /\ SentInv'
<1> DEFINE n == Len(log[task[r]])
<1>1. /\ fpc \in [Req -> StreamPhase] /\ from \in [Req -> Nat \ {0}] /\ sent \in [Req -> Seq(Nat)]
      /\ hist \in [Req -> Seq(Nat)] /\ queue \in [Req -> Seq(Nat)] /\ subscribed \in SUBSET Req
      /\ log \in [Req -> Seq(Event)]
  BY DEF StreamInv, ControlInv, TypeOK, StreamType, StoreType
<1>2. fpc[r] # "none"
  BY DEF Forward, ForwardOn, ForwardStart, ForwardSend, ForwardFail, Unsubscribe
<1>3. task[r] \in Req /\ log[task[r]] # <<>>
  BY <1>2, ArrivedFacts DEF StreamInv, ExistInv, Engaged
<1>4. n \in Nat \ {0}
  BY <1>1, <1>3
<1>5. CASE ForwardStart(r)
  <2>1. fpc[r] \in {"spawned", "lazy"} /\ sent' = sent
    BY <1>5 DEF ForwardStart
  <2>2. sent[r] = <<>> /\ from[r] <= n + 1
    BY <1>1, <1>4, <2>1 DEF StreamInv, UnopenedInv
  <2>3. fpc'[r] = "open" /\ r \in subscribed' /\ queue'[r] = <<>>
    BY <1>1, <1>5 DEF ForwardStart
  <2>4. /\ from'[r] \in Nat \ {0} /\ from'[r] <= n + 1
        /\ hist'[r] = Positions(from'[r], n)
    <3>1. CASE Replays(r)
      BY <1>1, <1>5, <2>2, <3>1 DEF ForwardStart
    <3>2. CASE ~Replays(r)
      <4>1. from'[r] = n + 1 /\ hist'[r] = <<>>
        BY <1>1, <1>5, <3>2 DEF ForwardStart
      <4>2. 1 .. n - (n + 1) + 1 = {}
        BY <1>4
      <4>3. Positions(n + 1, n) = <<>>
        BY <4>2 DEF Positions
      <4>4. QED BY <1>4, <4>1, <4>3
    <3>3. QED BY <3>1, <3>2
  <2>5. Window(r)' = Positions(from'[r], n)
    <3>1. Positions(from'[r], n) \in Seq(Nat)
      BY <1>4, <2>4, PositionsSeq
    <3>2. Window(r)' = <<>> \o Positions(from'[r], n) \o <<>>
      BY <2>1, <2>2, <2>3, <2>4 DEF Window
    <3>3. QED BY <3>1, <3>2
  <2>6. QED BY <2>1, <2>2, <2>3, <2>4, <2>5, ForwardFrame
<1>6. CASE ForwardSend(r)
  <2> DEFINE m == Head(hist[r] \o queue[r])
  <2>1. /\ fpc[r] = "open" /\ hist[r] \o queue[r] # <<>> /\ UNCHANGED <<from, subscribed>>
        /\ sent' = [sent EXCEPT ![r] = Append(@, m)]
        /\ fpc'[r] = IF Final(log[task[r]][m]) THEN "closing" ELSE "open"
    BY <1>1, <1>6 DEF ForwardSend
  <2>2. /\ r \in subscribed /\ from[r] <= n + 1
        /\ sent[r] \o hist[r] \o queue[r] = Positions(from[r], n)
    BY <2>1 DEF StreamInv, OpenInv, Window
  <2>3. sent[r] \in Seq(Nat) /\ hist[r] \in Seq(Nat) /\ queue[r] \in Seq(Nat) /\ from[r] \in Nat \ {0}
    BY <1>1
  <2>4. Window(r)' = Positions(from[r], n)
    <3>1. sent'[r] = Append(sent[r], m)
      BY <1>1, <2>1
    <3>2. CASE hist[r] # <<>>
      <4>1. hist'[r] = Tail(hist[r]) /\ queue'[r] = queue[r]
        BY <1>1, <1>6, <3>2 DEF ForwardSend
      <4>2. Append(sent[r], m) \o Tail(hist[r]) \o queue[r] = sent[r] \o hist[r] \o queue[r]
        BY <2>1, <2>3, <3>2, WindowSend
      <4>3. QED BY <2>2, <3>1, <4>1, <4>2, Zenon DEF Window
    <3>3. CASE hist[r] = <<>>
      <4>1. hist'[r] = hist[r] /\ queue'[r] = Tail(queue[r])
        BY <1>1, <1>6, <3>3 DEF ForwardSend
      <4>2. Append(sent[r], m) \o hist[r] \o Tail(queue[r]) = sent[r] \o hist[r] \o queue[r]
        BY <2>1, <2>3, <3>3, WindowSend
      <4>3. QED BY <2>2, <3>1, <4>1, <4>2, Zenon DEF Window
    <3>4. QED BY <3>2, <3>3
  <2>5. m \in 1 .. n
    BY <2>1, NextPosition
  <2> HIDE DEF m
  <2>6. ASSUME NEW i \in 1 .. Len(sent'[r])
        PROVE  /\ sent'[r][i] \in 1 .. n
               /\ Final(log[task[r]][sent'[r][i]])
                    => i = Len(sent'[r]) /\ fpc'[r] \in {"closing", "closed"}
    <3>1. sent'[r] = Append(sent[r], m) /\ Len(sent'[r]) = Len(sent[r]) + 1
      BY <1>1, <2>1, <2>3, <2>5
    <3>2. CASE i = Len(sent[r]) + 1
      <4>1. sent'[r][i] = m
        BY <2>3, <3>1, <3>2
      <4>2. QED BY <2>1, <2>5, <3>1, <3>2, <4>1
    <3>3. CASE i # Len(sent[r]) + 1
      <4>1. i \in 1 .. Len(sent[r]) /\ sent'[r][i] = sent[r][i]
        BY <2>3, <2>5, <3>1, <3>3
      <4>2. QED BY <2>1, <4>1 DEF StreamInv, SentInv
    <3>4. QED BY <3>2, <3>3
  <2>7. fpc'[r] \notin {"none", "spawned", "lazy"}
    BY <2>1
  <2>8. QED BY <2>1, <2>2, <2>4, <2>6, <2>7, ForwardFrame
<1>7. CASE ForwardFail(r) \/ Unsubscribe(r)
  <2>1. fpc'[r] \in {"closing", "closed"} /\ sent' = sent /\ fpc[r] \in {"open", "closing"}
    BY <1>1, <1>7 DEF ForwardFail, Unsubscribe
  <2>2. \A i \in 1 .. Len(sent'[r]) :
          /\ sent'[r][i] \in 1 .. n
          /\ Final(log[task[r]][sent'[r][i]]) => i = Len(sent'[r]) /\ fpc'[r] \in {"closing", "closed"}
    BY <2>1 DEF StreamInv, SentInv
  <2>3. QED BY <2>1, <2>2, ForwardFrame
<1>8. QED BY <1>5, <1>6, <1>7 DEF Forward, ForwardOn
-----------------------------------------------------------------------------
(* Tasks are born before anyone works on them, streams opened once *)

\* Handlers only move on, and a task is born by a handler that has moved on.
LEMMA BirthStep ==
  ASSUME StreamInv, \A t \in Req : hpc[t] \notin Before => hpc'[t] \notin Before,
         UNCHANGED log \/ StoreStep
  PROVE  BirthInv'
<1> SUFFICES ASSUME NEW t \in Req, log'[t] # <<>> PROVE hpc'[t] \notin Before
  BY DEF BirthInv
<1>1. CASE log[t] # <<>>
  BY <1>1 DEF StreamInv, BirthInv
<1>2. CASE log[t] = <<>>
  <2>1. log \in [Req -> Seq(Event)]
    BY DEF StreamInv, ControlInv, TypeOK, StoreType
  <2>2. ~UNCHANGED log
    BY <1>2
  <2>3. ASSUME NEW x \in Req, NEW e \in Event, log[x] # <<>>, AppendRecord(x, e) PROVE FALSE
    BY <1>2, <2>1, <2>3 DEF AppendRecord
  <2>4. ASSUME NEW x \in Req, hpc'[x] \notin Before, CreateTask(x) PROVE hpc'[t] \notin Before
    BY <1>2, <2>1, <2>4 DEF CreateTask
  <2>5. QED BY <2>2, <2>3, <2>4 DEF StoreStep
<1>3. QED BY <1>1, <1>2

\* Only the request that takes the step can become engaged by it.
LEMMA ExistStep ==
  ASSUME StreamInv, NEW r \in Req, Steady(r),
         \A t \in Req : log[t] # <<>> => log'[t] # <<>>,
         Engaged(r)' => Engaged(r) \/ log'[task[r]] # <<>>
  PROVE  ExistInv'
<1> SUFFICES ASSUME NEW x \in Req, Engaged(x)' PROVE log'[task'[x]] # <<>>
  BY DEF ExistInv
<1>1. task' = task /\ kind' = kind
  BY DEF Steady
<1>2. ASSUME Engaged(x) PROVE log'[task[x]] # <<>>
  <2>1. hpc[x] # "idle" /\ log[task[x]] # <<>>
    BY <1>2 DEF Engaged, Working, StreamInv, ControlInv, IdleInv, ExistInv
  <2>2. task[x] \in Req
    BY <2>1 DEF StreamInv, ControlInv, NameInv
  <2>3. QED BY <2>1, <2>2
<1>3. CASE x # r
  <2>1. Engaged(x)
    BY <1>1, <1>3 DEF Steady, Engaged
  <2>2. QED BY <1>1, <1>2, <2>1
<1>4. CASE x = r
  BY <1>1, <1>2, <1>4
<1>5. QED BY <1>3, <1>4

\* A handler engages itself by creating its task only.
LEMMA HandlerEngages ==
  ASSUME StreamInv, NEW r \in Req, Handler(r)
  PROVE  Engaged(r)' => Engaged(r) \/ log'[task[r]] # <<>>
<1>1. /\ hpc[r] # "idle" /\ kind' = kind /\ hpc \in [Req -> HandlerPhase]
      /\ log \in [Req -> Seq(Event)]
      /\ kind[r] \in Creators => task[r] = r
  BY HandlerMoves, HandlerShape
     DEF StreamInv, ControlInv, TypeOK, NameInv, HandlerType, StoreType
<1>2. CASE hpc[r] \in Working \/ kind[r] \notin Creators
  BY <1>1, <1>2 DEF Engaged
<1>3. CASE hpc[r] \notin Working /\ kind[r] \in Creators
  <2>1. CASE Create(r)
    <3>1. log'[r] # <<>>
      BY <1>1, <2>1 DEF Create, CreateTask
    <3>2. QED BY <1>1, <1>3, <3>1
  <2>2. CASE Dispatch(r) \/ Admit(r) \/ Refuse(r) \/ Reply(r)
    <3>1. UNCHANGED <<ppc, fpc, rpc>> /\ hpc'[r] \notin Working
      BY <1>1, <2>2 DEF Dispatch, Admit, Refuse, Answer, Reply, streamVars, runVars, Working
    <3>2. QED BY <1>1, <1>3, <3>1 DEF Engaged
  <2>3. ASSUME ~Create(r), ~(Dispatch(r) \/ Admit(r) \/ Refuse(r) \/ Reply(r)) PROVE FALSE
    <3>1. CASE SendTail(r) \/ StreamTail(r) \/ LocalStreamTail(r) \/ StartInline(r) \/ InlineFail(r)
      BY <1>3, <3>1 DEF SendTail, StreamTail, LocalStreamTail, StartInline, InlineFail, CreatedBy, At,
         Working
    <3>2. CASE Resume(r) \/ ResumeTail(r) \/ Cancel(r) \/ CancelTail(r) \/ Subscribe(r)
      BY <1>3, <3>2 DEF Resume, ResumeTail, Cancel, CancelTail, Subscribe, At, Working
    <3>3. CASE Fetch(r)
      BY <1>3, <3>3 DEF Fetch, Creators, Resumers, Watchers
    <3>4. ASSUME NEW c \in Config, Configure(r, c) \/ SetConfig(r, c) PROVE FALSE
      BY <1>3, <3>4 DEF Configure, SetConfig, At, Working, Creators
    <3>5. ASSUME NEW cs \in SUBSET Config, DeleteConfig(r, cs) PROVE FALSE
      BY <1>3, <3>5 DEF DeleteConfig, Creators
    <3>6. QED BY <2>3, <3>1, <3>2, <3>3, <3>4, <3>5 DEF Handler
  <2>4. QED BY <2>1, <2>2, <2>3
<1>4. QED BY <1>2, <1>3

\* A handler that moves is not idle afterwards.
LEMMA HandlerMovesOn ==
  ASSUME StreamInv, NEW r \in Req, Handler(r)
  PROVE  \A t \in Req : hpc[t] \notin Before => hpc'[t] \notin Before
<1>1. hpc \in [Req -> HandlerPhase] /\ \A x \in Req \ {r} : hpc'[x] = hpc[x]
  BY HandlerMoves DEF StreamInv, ControlInv, TypeOK, HandlerType
<1>2. CASE \E p \in Working : Goto(r, p)
  BY <1>1, <1>2 DEF Goto, Working, Before
<1>3. CASE \E res \in {"ok", "error"} : Answer(r, res)
  BY <1>1, <1>3 DEF Answer, Before
<1>4. CASE Dispatch(r) \/ Admit(r) \/ Reply(r)
  BY <1>1, <1>4 DEF Dispatch, Admit, Reply, Before
<1>5. QED BY <1>2, <1>3, <1>4, HandlerShape

\* A task that a handler creates has a name no request used before.
LEMMA HandlerFresh ==
  ASSUME StreamInv, NEW r \in Req, Handler(r)
  PROVE  FreshInv'
<1> DEFINE F == hpc[r] \in Before \cup {"created", "configured", "fetched", "resumed"}
                \/ (hpc[r] = "prepared" /\ kind[r] # "stream")
<1>1. /\ kind' = kind /\ hpc \in [Req -> HandlerPhase]
      /\ \A x \in Req \ {r} : hpc'[x] = hpc[x] /\ fpc'[x] = fpc[x]
  BY HandlerMoves, HandlerStreams, HandlerShape, ArrivedFacts
     DEF StreamInv, ControlInv, TypeOK, HandlerType
<1>2. SUFFICES ASSUME F' PROVE fpc'[r] = "none"
  BY <1>1 DEF FreshInv, StreamInv
<1>3. F => fpc[r] = "none"
  BY DEF StreamInv, FreshInv
<1>4. CASE Dispatch(r) \/ Admit(r) \/ Create(r)
  BY <1>1, <1>3, <1>4 DEF Dispatch, Admit, Create, At, streamVars, Before
<1>5. CASE Fetch(r) \/ Resume(r) \/ LocalStreamTail(r)
  BY <1>1, <1>3, <1>5 DEF Fetch, Resume, LocalStreamTail, CreatedBy, At, streamVars, Before
<1>6. CASE \E c \in Config : Configure(r, c)
  BY <1>1, <1>3, <1>6 DEF Configure, At, streamVars
<1>7. CASE StreamTail(r)
  <2>1. hpc'[r] = "prepared" /\ kind[r] = "stream"
    BY <1>1, <1>7 DEF StreamTail, CreatedBy, Goto
  <2>2. QED BY <1>1, <1>2, <2>1 DEF Before
<1>8. CASE ResumeTail(r)
  <2>1. fpc[r] = "none" /\ kind[r] # "continueStream" => fpc' = fpc
    BY <1>3, <1>8 DEF ResumeTail, At
  <2>2. CASE kind[r] = "continueStream"
    <3>1. hpc'[r] \in {"replying", "done"}
      BY <1>1, <1>8, <2>2 DEF ResumeTail, Answer
    <3>2. QED BY <1>2, <3>1 DEF Before
  <2>3. QED BY <1>3, <1>8, <2>1, <2>2 DEF ResumeTail, At
<1>9. CASE Reply(r) \/ \E res \in {"ok", "error"} : Answer(r, res)
  <2>1. hpc'[r] \in {"replying", "done"}
    BY <1>1, <1>9 DEF Reply, Answer
  <2>2. QED BY <1>2, <2>1 DEF Before
<1>10. CASE Cancel(r)
  <2>1. hpc'[r] = "canceled"
    BY <1>1, <1>10 DEF Cancel, Goto
  <2>2. QED BY <1>2, <2>1 DEF Before
<1>11. QED
  BY <1>4, <1>5, <1>6, <1>7, <1>8, <1>9, <1>10
     DEF Handler, Refuse, SendTail, StartInline, InlineFail, CancelTail, Subscribe, SetConfig,
         DeleteConfig
-----------------------------------------------------------------------------
(* The inductive invariant *)

\* The conjuncts of StreamInv that speak of streams and the log, from a step
\* that is not of a forwarder.
LEMMA QuietStreams ==
  ASSUME StreamInv, QuietStep, ControlInv'
  PROVE  UnopenedInv' /\ OpenInv' /\ SentInv'
BY QuietUnopened, QuietOpen, QuietSent DEF ControlInv

\* The arrival of a request preserves the stream invariant.
LEMMA ArriveStream ==
  ASSUME StreamInv, NEW r \in Req, NEW k \in AllKinds, NEW t \in Req, Arrive(r, k, t)
  PROVE  StreamInv'
<1>1. /\ hpc \in [Req -> HandlerPhase] /\ kind \in [Req -> AllKinds \cup {"none"}]
      /\ task \in [Req -> Req \cup {NoReq}]
  BY DEF StreamInv, ControlInv, TypeOK, HandlerType
<1>2. ControlInv'
  BY ArriveControl DEF StreamInv
<1>3. UnopenedInv' /\ OpenInv' /\ SentInv'
  BY <1>2, ArriveQuiet, QuietStreams
<1>4. /\ hpc[r] = "idle" /\ hpc' = [hpc EXCEPT ![r] = "dispatched"]
      /\ kind' = [kind EXCEPT ![r] = k] /\ task' = [task EXCEPT ![r] = t]
      /\ k \notin Creators => log[t] # <<>>
      /\ UNCHANGED <<log, ppc, fpc, rpc>>
  BY DEF Arrive, storeVars, streamVars, runVars
<1>5. BirthInv'
  BY <1>1, <1>4, BirthStep DEF Before
<1>6. ppc[r] = "none" /\ fpc[r] = "none" /\ rpc[r] = "none"
  BY <1>4 DEF StreamInv, ControlInv, IdleInv
<1>7. ExistInv'
  <2> SUFFICES ASSUME NEW x \in Req, Engaged(x)' PROVE log'[task'[x]] # <<>>
    BY DEF ExistInv
  <2>1. CASE x = r
    <3>1. kind'[r] = k /\ task'[r] = t /\ hpc'[r] = "dispatched"
      BY <1>1, <1>4
    <3>2. k \notin Creators
      BY <1>4, <1>6, <2>1, <3>1 DEF Engaged, Working
    <3>3. QED BY <1>4, <2>1, <3>1, <3>2
  <2>2. CASE x # r
    <3>1. hpc'[x] = hpc[x] /\ kind'[x] = kind[x] /\ task'[x] = task[x]
      BY <1>1, <1>4, <2>2
    <3>2. Engaged(x)
      BY <1>4, <3>1 DEF Engaged
    <3>3. QED BY <1>4, <3>1, <3>2 DEF StreamInv, ExistInv
  <2>3. QED BY <2>1, <2>2
<1>8. FreshInv'
  BY <1>1, <1>4, <1>6 DEF StreamInv, FreshInv
<1>9. QED BY <1>2, <1>3, <1>5, <1>7, <1>8 DEF StreamInv

\* A handler's step preserves the stream invariant.
LEMMA HandlerStream ==
  ASSUME AgentAssumption, StreamInv, NEW r \in Req, Handler(r)
  PROVE  StreamInv'
<1>1. ControlInv' /\ Steady(r)
  BY HandlerControl DEF StreamInv
<1>2. UnopenedInv' /\ OpenInv' /\ SentInv'
  BY <1>1, HandlerQuiet, QuietStreams
<1>3. BirthInv'
  BY HandlerStoreStep, HandlerMovesOn, BirthStep
<1>4. \A t \in Req : log[t] # <<>> => log'[t] # <<>>
  BY HandlerStoreStep, StoreStepGrows DEF StreamInv, ControlInv
<1>5. ExistInv'
  BY <1>1, <1>4, HandlerEngages, ExistStep
<1>6. QED BY <1>1, <1>2, <1>3, <1>5, HandlerFresh DEF StreamInv

\* Preparations and runs: engaged already, and no handler moves.
LEMMA WorkerStream ==
  ASSUME AgentAssumption, StreamInv, NEW r \in Req, Prepare(r) \/ Run(r)
  PROVE  StreamInv'
<1>1. ControlInv' /\ Steady(r)
  BY PrepareControl, RunControl DEF StreamInv
<1>2. QuietStep
  BY OthersQuiet
<1>3. UnopenedInv' /\ OpenInv' /\ SentInv'
  BY <1>1, <1>2, QuietStreams
<1>4. UNCHANGED <<hpc, kind, fpc>> /\ Engaged(r)
  <2>1. CASE Prepare(r)
    BY <2>1 DEF Prepare, PrepareStart, PrepareFinish, PrepareFail, PrepareFailTail, handlerVars,
       streamVars, Engaged
  <2>2. CASE Run(r)
    BY <2>2 DEF Run, RunStart, RunStillborn, RunPush, RunYieldStatus, RunYieldArtifact, RunExhaust,
       RunComplete, RunRaise, RunLeave, RunAbort, RunFinally, RunAt, handlerVars, streamVars, Engaged
  <2>3. QED BY <2>1, <2>2
<1>5. BirthInv'
  BY <1>2, <1>4, BirthStep DEF QuietStep
<1>6. \A t \in Req : log[t] # <<>> => log'[t] # <<>>
  BY <1>2, StoreStepGrows DEF QuietStep, StreamInv, ControlInv
<1>7. ExistInv'
  BY <1>1, <1>4, <1>6, ExistStep
<1>8. FreshInv'
  BY <1>4 DEF StreamInv, FreshInv
<1>9. QED BY <1>1, <1>3, <1>5, <1>7, <1>8 DEF StreamInv

\* A forwarder's step preserves the stream invariant.
LEMMA ForwardStream ==
  ASSUME StreamInv, NEW r \in Req, Forward(r)
  PROVE  StreamInv'
<1>1. ControlInv' /\ Steady(r)
  BY ForwardControl DEF StreamInv
<1>2. UnopenedInv' /\ OpenInv' /\ SentInv'
  BY ForwardStreams
<1>3. UNCHANGED <<log, task, hpc, kind>>
  BY ForwardOthers
<1>4. fpc[r] # "none"
  BY DEF Forward, ForwardOn, ForwardStart, ForwardSend, ForwardFail, Unsubscribe
<1>5. BirthInv'
  BY <1>3 DEF StreamInv, BirthInv
<1>6. ExistInv'
  BY <1>1, <1>3, <1>4, ExistStep DEF Engaged
<1>7. FreshInv'
  BY <1>1, <1>3, <1>4 DEF StreamInv, FreshInv, Steady
<1>8. QED BY <1>1, <1>2, <1>5, <1>6, <1>7 DEF StreamInv

\* The push loop touches no task and no stream.
LEMMA IdleStream ==
  ASSUME AgentAssumption, StreamInv, PushLoop \/ UNCHANGED vars
  PROVE  StreamInv'
<1>1. ControlInv'
  BY ControlNext DEF StreamInv, Next
<1>2. UnopenedInv' /\ OpenInv' /\ SentInv'
  BY <1>1, OthersQuiet, QuietStreams
<1>3. UNCHANGED <<log, task, hpc, kind, ppc, fpc, rpc>>
  BY DEF PushLoop, PushTake, PushDeliver, PushFail, vars, storeVars, handlerVars, streamVars, runVars
<1>4. BirthInv' /\ ExistInv' /\ FreshInv'
  BY <1>3 DEF StreamInv, BirthInv, ExistInv, Engaged, FreshInv
<1>5. QED BY <1>1, <1>2, <1>4 DEF StreamInv

\* The initial states satisfy the stream invariant.
THEOREM StreamInit == Init => StreamInv
<1> SUFFICES ASSUME Init PROVE StreamInv
  OBVIOUS
<1>1. ControlInv
  BY ControlInit
<1>2. BirthInv /\ ExistInv /\ FreshInv
  BY DEF Init, BirthInv, ExistInv, Engaged, Working, FreshInv, Before
<1>3. UnopenedInv /\ OpenInv /\ SentInv
  BY DEF Init, UnopenedInv, OpenInv, SentInv
<1>4. QED BY <1>1, <1>2, <1>3 DEF StreamInv

\* Every step of the agent preserves it.
THEOREM StreamNext == AgentAssumption /\ StreamInv /\ [Next]_vars => StreamInv'
<1> SUFFICES ASSUME AgentAssumption, StreamInv, [Next]_vars PROVE StreamInv'
  OBVIOUS
<1>1. ASSUME NEW r \in Req, NEW k \in Kinds[r], NEW t \in Req, Arrive(r, k, t)
      PROVE  StreamInv'
  <2>1. k \in AllKinds
    BY DEF AgentAssumption
  <2>2. QED BY <1>1, <2>1, ArriveStream
<1>2. ASSUME NEW r \in Req, Handler(r) \/ Prepare(r) \/ Run(r) \/ Forward(r)
      PROVE  StreamInv'
  BY <1>2, HandlerStream, WorkerStream, ForwardStream
<1>3. CASE PushLoop \/ UNCHANGED vars
  BY <1>3, IdleStream
<1>4. QED BY <1>1, <1>2, <1>3 DEF Next

\* An open stream loses no event of its task and gets none twice, whatever the
\* interleaving of appends, subscription and sends (subscribe, _fanout_locked,
\* iter_events of task_store.py, _forward of agent.py).
THEOREM StreamsLoseNothing == Spec => []OpenStreamLosesNothing
<1>1. StreamInv => OpenStreamLosesNothing
  BY DEF StreamInv, OpenInv, Window, OpenStreamLosesNothing
<1>2. QED BY <1>1, AgentAssumption, StreamInit, StreamNext, PTL DEF Spec

\* A stream sends nothing after a final status (the break of _forward).
THEOREM StreamsStopAtFinal == Spec => []StreamStopsAtFinal
<1>1. StreamInv => StreamStopsAtFinal
  <2> SUFFICES ASSUME StreamInv, NEW r \in Req, NEW i \in DOMAIN sent[r],
                      Final(log[task[r]][sent[r][i]])
               PROVE  i = Len(sent[r]) /\ fpc[r] \in {"closing", "closed"}
    BY DEF StreamStopsAtFinal
  <2>1. i \in 1 .. Len(sent[r])
    BY DEF StreamInv, ControlInv, TypeOK, StreamType
  <2>2. QED BY <2>1 DEF StreamInv, SentInv
<1>2. QED BY <1>1, AgentAssumption, StreamInit, StreamNext, PTL DEF Spec

-----------------------------------------------------------------------------
(* Store and streams are an event feed *)

\* No stream reaches back to the task record.
BehindRecord == \A r \in Req : from[r] >= 2
FeedInv == StreamInv /\ BehindRecord

\* The variables of the feed, as the agent implements them.
Opened(r) == fpc[r] \in {"open", "closing", "closed"}
Watch     == [r \in Req |-> IF Opened(r) THEN {task[r]} ELSE {}]
Start     == [r \in Req |-> IF Opened(r) THEN from[r] ELSE 0]
Events(r) == [i \in DOMAIN sent[r] |-> log[task[r]][sent[r][i]]]
Received  == [r \in Req |-> Events(r)]

-----------------------------------------------------------------------------
(* Where streams start *)

\* Only ResumeTail and ForwardStart set the start of a stream, behind a log
\* that exists.
LEMMA BehindStep ==
  ASSUME AgentAssumption, FeedInv, [Next]_vars, TypeOK'
  PROVE  BehindRecord'
<1>1. from \in [Req -> Nat \ {0}] /\ log \in [Req -> Seq(Event)]
  BY DEF FeedInv, StreamInv, ControlInv, TypeOK, StreamType, StoreType
<1>2. ASSUME NEW r \in Req, log[task[r]] # <<>>, task[r] \in Req,
             from' = from \/ \E n \in {from[r], Len(log[task[r]]) + 1} : from' = [from EXCEPT ![r] = n]
      PROVE  BehindRecord'
  <2>1. Len(log[task[r]]) + 1 >= 2
    BY <1>1, <1>2
  <2>2. QED BY <1>1, <1>2, <2>1 DEF FeedInv, BehindRecord
<1>3. CASE UNCHANGED from
  BY <1>3 DEF FeedInv, BehindRecord
<1>4. ASSUME NEW r \in Req, ResumeTail(r) PROVE BehindRecord'
  <2>1. Engaged(r)
    BY <1>4 DEF ResumeTail, At, Engaged, Working
  <2>2. log[task[r]] # <<>> /\ task[r] \in Req
    BY <2>1, <1>4, ArrivedFacts DEF FeedInv, StreamInv, ExistInv, ResumeTail, At
  <2>3. QED BY <1>2, <1>4, <2>2 DEF ResumeTail
<1>5. ASSUME NEW r \in Req, ForwardStart(r) PROVE BehindRecord'
  <2>1. Engaged(r)
    BY <1>5 DEF ForwardStart, Engaged
  <2>2. log[task[r]] # <<>> /\ task[r] \in Req
    BY <2>1, <1>5, ArrivedFacts DEF FeedInv, StreamInv, ExistInv, ForwardStart
  <2>3. QED BY <1>2, <1>5, <2>2 DEF ForwardStart
<1>6. ASSUME NEW r \in Req, Handler(r), ~ResumeTail(r) PROVE UNCHANGED from
  BY <1>6 DEF Handler, Dispatch, Admit, Refuse, Create, SendTail, StreamTail, LocalStreamTail,
     StartInline, InlineFail, Fetch, Resume, Cancel, CancelTail, Subscribe, Configure, SetConfig,
     DeleteConfig, Reply, streamVars
<1>7. ASSUME NEW r \in Req, Prepare(r) PROVE UNCHANGED from
  BY <1>7 DEF Prepare, PrepareStart, PrepareFinish, PrepareFail, PrepareFailTail, streamVars
<1>8. ASSUME NEW r \in Req, Run(r) PROVE UNCHANGED from
  BY <1>8 DEF Run, RunStart, RunStillborn, RunPush, RunYieldStatus, RunYieldArtifact, RunExhaust,
     RunComplete, RunRaise, RunLeave, RunAbort, RunFinally, streamVars
<1>9. ASSUME NEW r \in Req, Forward(r), ~ForwardStart(r) PROVE UNCHANGED from
  BY <1>9 DEF Forward, ForwardOn, ForwardSend, ForwardFail, Unsubscribe
<1>10. CASE PushLoop \/ UNCHANGED vars \/ \E r \in Req : \E k \in Kinds[r], t \in Req : Arrive(r, k, t)
  BY <1>3, <1>10 DEF PushLoop, PushTake, PushDeliver, PushFail, vars, Arrive, streamVars
<1>11. QED BY <1>3, <1>4, <1>5, <1>6, <1>7, <1>8, <1>9, <1>10 DEF Next

-----------------------------------------------------------------------------
(* The steps of the feed *)

\* A step that is not of a forwarder opens no stream and sends nothing.
LEMMA QuietFeed ==
  ASSUME StreamInv, QuietStep
  PROVE  UNCHANGED <<Watch, Start, Received>>
<1>1. ASSUME NEW r \in Req
      PROVE  /\ Opened(r)' <=> Opened(r)
             /\ Opened(r) => task'[r] = task[r] /\ from'[r] = from[r]
             /\ Events(r)' = Events(r)
  <2>1. Opening(r) /\ sent' = sent
    BY DEF QuietStep
  <2>2. Opened(r)' <=> Opened(r)
    BY <2>1 DEF Opening, Opened
  <2>3. Opened(r) => hpc[r] # "idle" /\ from'[r] = from[r]
    BY <2>1 DEF Opening, Opened, StreamInv, ControlInv, IdleInv
  <2>4. Opened(r) => task'[r] = task[r]
    BY <2>3, QuietFacts
  <2>5. ASSUME NEW i \in DOMAIN sent[r]
        PROVE  log'[task'[r]][sent[r][i]] = log[task[r]][sent[r][i]]
    <3>1. i \in 1 .. Len(sent[r]) /\ sent[r] # <<>>
      BY DEF StreamInv, ControlInv, TypeOK, StreamType
    <3>2. hpc[r] # "idle"
      BY <3>1 DEF StreamInv, UnopenedInv, ControlInv, IdleInv
    <3>3. sent[r][i] \in 1 .. Len(log[task[r]])
      BY <3>1 DEF StreamInv, SentInv
    <3>4. QED BY <3>2, <3>3, QuietFacts
  <2>6. Events(r)' = Events(r)
    BY <2>1, <2>5 DEF Events
  <2>7. QED BY <2>2, <2>3, <2>4, <2>6
<1>2. QED BY <1>1, Zenon DEF Watch, Start, Received

\* The log grows by one event of one task, or not at all.
LEMMA QuietPublishes ==
  ASSUME StreamInv, QuietStep
  PROVE  UNCHANGED log \/ \E t \in Req, e \in Event : log' = [log EXCEPT ![t] = Append(@, e)]
<1>1. ASSUME NEW t \in Req, log[t] = <<>>, CreateTask(t)
      PROVE  \E e \in Event : log' = [log EXCEPT ![t] = Append(@, e)]
  <2>1. [kind |-> "task", state |-> "submitted"] \in Event
    BY DEF Event, States
  <2>2. Append(log[t], [kind |-> "task", state |-> "submitted"])
          = <<[kind |-> "task", state |-> "submitted"]>>
    BY <1>1
  <2>3. QED BY <1>1, <2>1, <2>2 DEF CreateTask
<1>2. QED BY <1>1 DEF QuietStep, StoreStep, AppendRecord

\* A forwarder that subscribes opens its stream inside the log or just behind it.
LEMMA StartOpens ==
  ASSUME FeedInv, NEW r \in Req, ForwardStart(r), StreamInv', BehindRecord'
  PROVE  /\ task[r] \in Req /\ Watch[r] = {} /\ from'[r] \in 2 .. Len(log[task[r]]) + 1
         /\ Watch' = [Watch EXCEPT ![r] = {task[r]}]
         /\ Start' = [Start EXCEPT ![r] = from'[r]]
         /\ UNCHANGED <<log, Received>>
<1>1. Forward(r)
  BY DEF Forward, ForwardOn
<1>2. /\ fpc[r] \in {"spawned", "lazy"} /\ fpc' = [fpc EXCEPT ![r] = "open"] /\ sent' = sent
      /\ UNCHANGED <<log, task>> /\ fpc \in [Req -> StreamPhase]
  BY DEF ForwardStart, handlerVars, FeedInv, StreamInv, ControlInv, TypeOK, StreamType
<1>3. \A x \in Req \ {r} : fpc'[x] = fpc[x] /\ from'[x] = from[x]
  BY <1>1, ForwardOthers DEF FeedInv
<1>4. task[r] \in Req
  BY <1>2, ArrivedFacts DEF FeedInv, StreamInv
<1>5. Watch[r] = {} /\ Watch' = [Watch EXCEPT ![r] = {task[r]}]
  BY <1>2 DEF Watch, Opened
<1>6. Start' = [Start EXCEPT ![r] = from'[r]]
  BY <1>2, <1>3 DEF Start, Opened
<1>7. UNCHANGED <<log, Received>>
  BY <1>2 DEF Received, Events
<1>8. from'[r] \in 2 .. Len(log[task[r]]) + 1
  <2>1. from'[r] <= Len(log[task[r]]) + 1
    BY <1>2 DEF StreamInv, OpenInv
  <2>2. from'[r] \in Nat /\ from'[r] >= 2 /\ Len(log[task[r]]) \in Nat
    BY <1>4 DEF BehindRecord, FeedInv, StreamInv, ControlInv, TypeOK, StreamType, StoreType
  <2>3. QED BY <2>1, <2>2
<1>9. QED BY <1>4, <1>5, <1>6, <1>7, <1>8

\* A send delivers the record behind those already received, on a stream that
\* has not received a final status.
LEMMA SendDelivers ==
  ASSUME StreamInv, NEW r \in Req, ForwardSend(r)
  PROVE  LET n == Start[r] + Len(Received[r]) IN
         /\ task[r] \in Req /\ Watch[r] = {task[r]} /\ n <= Len(log[task[r]])
         /\ ~ \E i \in DOMAIN Received[r] : Final(Received[r][i])
         /\ Received' = [Received EXCEPT ![r] = Append(@, log[task[r]][n])]
         /\ UNCHANGED <<log, Watch, Start>>
<1> DEFINE n == from[r] + Len(sent[r])
<1>1. /\ fpc \in [Req -> StreamPhase] /\ from \in [Req -> Nat \ {0}] /\ sent \in [Req -> Seq(Nat)]
      /\ fpc[r] = "open" /\ hist[r] \o queue[r] # <<>>
      /\ UNCHANGED <<log, task, from>>
  BY DEF ForwardSend, handlerVars, StreamInv, ControlInv, TypeOK, StreamType
<1>2. Head(hist[r] \o queue[r]) = n /\ n \in 1 .. Len(log[task[r]])
  BY <1>1, NextPosition
<1>3. /\ sent' = [sent EXCEPT ![r] = Append(@, n)]
      /\ fpc'[r] \in {"open", "closing"} /\ \A x \in Req \ {r} : fpc'[x] = fpc[x]
  BY <1>1, <1>2 DEF ForwardSend
<1> HIDE DEF n
<1>4. Start[r] = from[r] /\ Received[r] = Events(r) /\ task[r] \in Req
  BY <1>1, ArrivedFacts DEF Start, Opened, Received, StreamInv
<1>5. /\ DOMAIN Events(r) = 1 .. Len(sent[r]) /\ Len(sent[r]) \in Nat
      /\ \A i \in 1 .. Len(sent[r]) : Events(r)[i] = log[task[r]][sent[r][i]]
  BY <1>1 DEF Events
<1>6. Len(Events(r)) = Len(sent[r])
  BY <1>5
<1>7. Watch[r] = {task[r]} /\ UNCHANGED <<log, Watch, Start>>
  BY <1>1, <1>3 DEF Watch, Start, Opened
<1>8. ~ \E i \in DOMAIN Received[r] : Final(Received[r][i])
  <2>1. \A i \in 1 .. Len(sent[r]) : ~Final(log[task[r]][sent[r][i]])
    BY <1>1 DEF StreamInv, SentInv
  <2>2. \A i \in 1 .. Len(sent[r]) : ~Final(Events(r)[i])
    BY <1>5, <2>1, Zenon
  <2>3. QED BY <1>4, <1>5, <2>2, Zenon
<1>9. Received' = [Received EXCEPT ![r] = Append(@, log[task[r]][n])]
  <2>1. Events(r)' = Append(Events(r), log[task[r]][n])
    <3>1. sent'[r] = Append(sent[r], n) /\ sent'[r] \in Seq(Nat) /\ Len(sent'[r]) = Len(sent[r]) + 1
      BY <1>1, <1>2, <1>3
    <3>2. \A i \in 1 .. Len(sent[r]) : sent'[r][i] = sent[r][i]
      BY <1>1, <1>2, <3>1
    <3>3. sent'[r][Len(sent[r]) + 1] = n
      BY <1>1, <1>2, <3>1
    <3>4. Events(r)' = [i \in 1 .. Len(sent[r]) + 1 |-> log[task[r]][sent'[r][i]]]
      BY <1>1, <3>1 DEF Events
    <3>5. Append(Events(r), log[task[r]][n])
            = [i \in 1 .. Len(sent[r]) + 1 |-> IF i = Len(sent[r]) + 1 THEN log[task[r]][n] ELSE Events(r)[i]]
      BY <1>5, <1>6
    <3>6. QED BY <1>5, <3>2, <3>3, <3>4, <3>5
  <2>2. \A x \in Req \ {r} : Events(x)' = Events(x)
    BY <1>1, <1>3 DEF Events
  <2>3. QED BY <2>1, <2>2 DEF Received
<1>10. QED BY <1>2, <1>4, <1>6, <1>7, <1>8, <1>9 DEF n

\* A stream that stops, or unsubscribes, is no step of the feed.
LEMMA StopStutters ==
  ASSUME StreamInv, NEW r \in Req, ForwardFail(r) \/ Unsubscribe(r)
  PROVE  UNCHANGED <<log, Watch, Start, Received>>
<1>1. /\ fpc[r] \in {"open", "closing"} /\ fpc'[r] \in {"closing", "closed"}
      /\ \A x \in Req \ {r} : fpc'[x] = fpc[x]
      /\ UNCHANGED <<log, task, from, sent>>
  BY DEF ForwardFail, Unsubscribe, storeVars, handlerVars, StreamInv, ControlInv, TypeOK, StreamType
<1>2. QED BY <1>1 DEF Watch, Start, Opened, Received, Events

-----------------------------------------------------------------------------
(* The refinement *)

\* The mapped variables are those named above.
LEMMA FeedVars ==
  /\ Feed!vars = <<log, Watch, Start, Received>>
  /\ Feed!Init <=> /\ log = [t \in Req |-> <<>>] /\ Watch = [s \in Req |-> {}]
                   /\ Start = [s \in Req |-> 0] /\ Received = [s \in Req |-> <<>>]
BY DEF Feed!vars, Feed!Init, Watch, Start, Opened, Received, Events

\* Every step of the agent is a step of the feed or leaves it alone.
LEMMA FeedStep ==
  ASSUME AgentAssumption, FeedInv, [Next]_vars, FeedInv'
  PROVE  [Feed!Next]_(Feed!vars)
<1>1. CASE QuietStep
  <2>1. UNCHANGED <<Watch, Start, Received>>
    BY <1>1, QuietFeed DEF FeedInv
  <2>2. CASE UNCHANGED log
    BY <2>1, <2>2 DEF Feed!vars, Watch, Start, Opened, Received, Events
  <2>3. ASSUME NEW t \in Req, NEW e \in Event, log' = [log EXCEPT ![t] = Append(@, e)]
        PROVE  Feed!Next
    <3>1. Feed!Publish(t, e)
      BY <2>1, <2>3 DEF Feed!Publish, Watch, Start, Opened, Received, Events
    <3>2. QED BY <3>1 DEF Feed!Next
  <2>4. QED BY <1>1, <2>2, <2>3, QuietPublishes DEF FeedInv
<1>2. ASSUME NEW r \in Req, ForwardStart(r) PROVE Feed!Next
  <2>1. /\ task[r] \in Req /\ Watch[r] = {} /\ from'[r] \in 2 .. Len(log[task[r]]) + 1
        /\ Watch' = [Watch EXCEPT ![r] = {task[r]}]
        /\ Start' = [Start EXCEPT ![r] = from'[r]]
        /\ UNCHANGED <<log, Received>>
    BY <1>2, StartOpens DEF FeedInv
  <2>2. PICK t \in Req : t = task[r]
    BY <2>1
  <2>3. PICK n \in 2 .. Len(log[t]) + 1 : n = from'[r]
    BY <2>1, <2>2
  <2>4. Feed!Open(r, t, n)
    BY <2>1, <2>2, <2>3 DEF Feed!Open, Watch, Start, Opened, Received, Events
  <2>5. QED BY <2>4 DEF Feed!Next
<1>3. ASSUME NEW r \in Req, ForwardSend(r) PROVE Feed!Next
  <2>1. PICK t \in Req : t = task[r]
    BY <1>3, SendDelivers DEF FeedInv
  <2>2. Feed!Deliver(r, t)
    BY <1>3, <2>1, SendDelivers
       DEF FeedInv, Feed!Deliver, Feed!Ended, Watch, Start, Opened, Received, Events
  <2>3. QED BY <2>2 DEF Feed!Next
<1>4. ASSUME NEW r \in Req, ForwardFail(r) \/ Unsubscribe(r) PROVE UNCHANGED Feed!vars
  BY <1>4, StopStutters, FeedVars DEF FeedInv, Feed!vars, Watch, Start, Opened, Received, Events
<1>5. ASSUME NEW r \in Req, NEW k \in Kinds[r], NEW t \in Req, Arrive(r, k, t) PROVE QuietStep
  <2>1. k \in AllKinds
    BY DEF AgentAssumption
  <2>2. QED BY <1>5, <2>1, ArriveQuiet DEF FeedInv
<1>6. ASSUME NEW r \in Req, Handler(r) PROVE QuietStep
  BY <1>6, HandlerQuiet DEF FeedInv
<1>7. CASE (\E r \in Req : Prepare(r) \/ Run(r)) \/ PushLoop \/ UNCHANGED vars
  BY <1>1, <1>7, OthersQuiet DEF FeedInv
<1>8. QED BY <1>1, <1>2, <1>3, <1>4, <1>5, <1>6, <1>7 DEF Next, Forward, ForwardOn

\* The agent's logs and streams are an event feed: every stream receives a
\* gapless, duplicate-free window of one append-only log, ended by the first
\* final status it carries (task_store.py, _forward of agent.py).
THEOREM AgentImplementsFeed == Spec => ImplementsFeed
<1>1. Init => FeedInv /\ Feed!Init
  BY StreamInit, FeedVars DEF Init, FeedInv, BehindRecord, Watch, Start, Opened, Received, Events
<1>2. FeedInv /\ [Next]_vars => FeedInv'
  BY AgentAssumption, StreamNext, BehindStep DEF FeedInv, StreamInv, ControlInv
<1>3. FeedInv /\ FeedInv' /\ [Next]_vars => [Feed!Next]_(Feed!vars)
  BY AgentAssumption, FeedStep
<1>4. QED BY <1>1, <1>2, <1>3, PTL DEF Spec, ImplementsFeed, Feed!Spec
=============================================================================
