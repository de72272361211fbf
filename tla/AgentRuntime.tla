---------------------------- MODULE AgentRuntime ----------------------------
(***************************************************************************)
(* The Ka2aAgent of runtime/agent.py over the in-memory task store of      *)
(* runtime/task_store.py: requests arrive from Kafka (or from a caller in  *)
(* the same process), create, resume, cancel and watch tasks; one asyncio  *)
(* task per run drives the task processor; one asyncio task per stream     *)
(* forwards the task's event log; one loop delivers push notifications.    *)
(*                                                                         *)
(* asyncio runs one coroutine at a time.  `loop` names the coroutine that  *)
(* holds the event loop between two of its steps, Idle when every          *)
(* coroutine is suspended.  A step ends at a call of the task store or at  *)
(* a real suspension (a send, a queue, the processor).  StoreBlocks says   *)
(* whether a call of the store suspends: FALSE for InMemoryTaskStore,      *)
(* whose lock is never contended, TRUE for a store behind a socket.        *)
(* `ready` is the loop's FIFO of coroutines that have not run yet.         *)
(*                                                                         *)
(* A task is named by the request that creates it, a run and a stream by   *)
(* the request that starts them.                                           *)
(***************************************************************************)
EXTENDS Integers, Sequences, FiniteSets

CONSTANTS
  Req,         \* the requests (and the tasks, runs and streams they start)
  NoReq,       \* no request
  Kinds,       \* the kinds a request may be of
  Config,      \* ids of push notification configs
  StoreBlocks, \* whether a call of the task store suspends its caller
  PushCap,     \* push_queue_maxsize, 0 when push notifications are off
  MaxInFlight, \* max_concurrency of the request handlers
  ProcStates,  \* the statuses the processor may report
  MaxLog       \* bound: a processor reports only while its task's log is shorter

Creators == {"send", "stream", "localStream"}
Resumers == {"continue", "continueStream", "localContinue"}
Watchers == {"subscribe", "resubscribe"}
Local    == {"localStream", "localContinue"}
AllKinds == Creators \cup Resumers \cup Watchers \cup {"cancel", "setConfig", "deleteConfig"}

Resumable   == {"input_required", "auth_required"}
FinalStates == {"completed", "failed", "canceled", "rejected"} \cup Resumable
States      == {"submitted", "working"} \cup FinalStates

ASSUME AgentAssumption ==
  /\ NoReq \notin Req
  /\ Kinds \in [Req -> SUBSET AllKinds]
  /\ StoreBlocks \in BOOLEAN
  /\ PushCap \in Nat
  /\ MaxInFlight \in Nat \ {0}
  /\ ProcStates \subseteq States
  /\ MaxLog \in Nat

Event == [kind : {"task", "status", "artifact"}, state : States \cup {"none"}]
Final(e) == e.kind = "status" /\ e.state \in FinalStates

Actor == {"handler", "forward", "prepare", "run"} \X Req
Idle  == <<"idle", NoReq>>

VARIABLES
  status, log, configs, \* the store: a task's status, its event log, its push configs
  subscribed, queue,    \* the store's subscriber queues, of log positions
  processing,           \* _processing: the run registered for a task
  hpc, kind, task,      \* request handlers: phase, kind, the task it is about
  reply,                \* what a handler answered
  fpc, from, hist, sent,\* streams: first position wanted, history left, positions sent
  ppc,                  \* preparations
  rpc, cancelReq,       \* runs, and whether a run's asyncio task was cancelled
  pend,                 \* the appended event an actor has still to enqueue for push
  ready, loop,          \* the event loop
  pushq, pushing        \* the push queue, and the delivery in progress

storeVars   == <<status, log, configs, subscribed, queue>>
handlerVars == <<hpc, kind, task, reply>>
streamVars  == <<fpc, from, hist, sent>>
runVars     == <<rpc, cancelReq, processing>>
pushVars    == <<pushq, pushing>>
vars == <<storeVars, handlerVars, streamVars, runVars, ppc, pend, ready, loop, pushVars>>

Live(u)   == rpc[u] \notin {"none", "done"}

-----------------------------------------------------------------------------
(* The event loop *)

Turn(a)       == loop \in {Idle, a}
AfterStore(a) == loop' = IF StoreBlocks THEN Idle ELSE a
Yield         == loop' = Idle
First(a)      == Turn(Idle) /\ ready # <<>> /\ Head(ready) = a

-----------------------------------------------------------------------------
(* The task store *)

\* Mutant of AppendRecord: the fan-out leaves out streams still in their history.
AppendUnheard(t, e) ==
  /\ log' = [log EXCEPT ![t] = Append(@, e)]
  /\ queue' = [r \in Req |->
       IF r \in subscribed /\ task[r] = t /\ hist[r] = <<>>
       THEN Append(queue[r], Len(log[t]) + 1) ELSE queue[r]]
  /\ UNCHANGED <<configs, subscribed>>

\* _append_event_locked and _fanout_locked: the record goes to the log and to
\* every queue subscribed to the task.
AppendRecord(t, e) ==
  /\ log' = [log EXCEPT ![t] = Append(@, e)]
  /\ queue' = [r \in Req |->
       IF r \in subscribed /\ task[r] = t
       THEN Append(queue[r], Len(log[t]) + 1) ELSE queue[r]]
  /\ UNCHANGED <<configs, subscribed>>

AppendStatus(t, s) ==
  /\ AppendRecord(t, [kind |-> "status", state |-> s])
  /\ status' = [status EXCEPT ![t] = s]

AppendArtifact(t) ==
  /\ AppendRecord(t, [kind |-> "artifact", state |-> "none"])
  /\ UNCHANGED status

\* create_task: a fresh id, and the task itself as record 0 of its log.
CreateTask(t) ==
  /\ log' = [log EXCEPT ![t] = <<[kind |-> "task", state |-> "submitted"]>>]
  /\ status' = [status EXCEPT ![t] = "submitted"]
  /\ UNCHANGED <<configs, subscribed, queue>>

-----------------------------------------------------------------------------
(* Push notifications: what was appended is enqueued when the append returns. *)

Owe(a, t)  == pend' = [pend EXCEPT ![a] = Len(log[t]) + 1]
Settle(a)  == pend' = [pend EXCEPT ![a] = 0]

\* Mutant of EnqueuePush: the pair is put together the wrong way round.
EnqueueSwapped(t, n) == pushq' = IF Len(pushq) < PushCap THEN Append(pushq, <<n, t>>) ELSE pushq

\* _enqueue_push: put_nowait, dropped when the queue is full; PushCap = 0 is
\* the agent without push notifications, which has no queue.
EnqueuePush(t, n) ==
  pushq' = IF Len(pushq) < PushCap THEN Append(pushq, <<t, n>>) ELSE pushq

Idling == [task |-> NoReq, n |-> 0, todo |-> {}]

\* One turn of _push_loop: take the event, list the task's configs.
PushTake ==
  /\ Turn(Idle)
  /\ pushing = Idling
  /\ pushq # <<>>
  /\ pushq' = Tail(pushq)
  /\ LET item == Head(pushq) IN
     pushing' = IF configs[item[1]] = {} THEN Idling
                ELSE [task |-> item[1], n |-> item[2], todo |-> configs[item[1]]]
  /\ UNCHANGED <<storeVars, handlerVars, streamVars, runVars, ppc, pend, ready, loop>>

\* _deliver_push to the next config of the list.
PushDeliver(c) ==
  /\ Turn(Idle)
  /\ c \in pushing.todo
  /\ pushing' = IF pushing.todo = {c} THEN Idling
                ELSE [pushing EXCEPT !.todo = @ \ {c}]
  /\ UNCHANGED <<storeVars, handlerVars, streamVars, runVars, ppc, pend, ready, loop, pushq>>

\* Mutant of PushFail: a failed event goes back to the end of the queue.
PushRequeue ==
  /\ Turn(Idle)
  /\ pushing # Idling
  /\ pushing' = Idling
  /\ EnqueuePush(pushing.task, pushing.n)
  /\ UNCHANGED <<storeVars, handlerVars, streamVars, runVars, ppc, pend, ready, loop>>

\* A delivery that raises ends the turn: the configs left are skipped.
PushFail ==
  /\ Turn(Idle)
  /\ pushing # Idling
  /\ pushing' = Idling
  /\ UNCHANGED <<storeVars, handlerVars, streamVars, runVars, ppc, pend, ready, loop, pushq>>

-----------------------------------------------------------------------------
(* Request handlers *)

InFlight == Cardinality({r \in Req :
  hpc[r] \notin {"idle", "dispatched", "waiting", "done"} /\ kind[r] \notin Local})

\* The consumer loop reads a request: create_task(_dispatch_request).  Ids are
\* minted by the store, so only an existing task can be named.
Arrive(r, k, t) ==
  /\ Turn(Idle)
  /\ hpc[r] = "idle"
  /\ IF k \in Creators THEN t = r ELSE log[t] # <<>>
  /\ hpc' = [hpc EXCEPT ![r] = "dispatched"]
  /\ kind' = [kind EXCEPT ![r] = k]
  /\ task' = [task EXCEPT ![r] = t]
  /\ ready' = Append(ready, <<"handler", r>>)
  /\ UNCHANGED <<storeVars, streamVars, runVars, ppc, pend, loop, pushVars, reply>>

\* The first step of a handler: a slot of the semaphore, or the queue for one.
\* A local call takes no slot.
Dispatch(r) ==
  /\ First(<<"handler", r>>)
  /\ hpc[r] = "dispatched"
  /\ ready' = Tail(ready)
  /\ IF kind[r] \in Local \/ InFlight < MaxInFlight
     THEN hpc' = [hpc EXCEPT ![r] = "begin"] /\ loop' = <<"handler", r>>
     ELSE hpc' = [hpc EXCEPT ![r] = "waiting"] /\ Yield
  /\ UNCHANGED <<storeVars, streamVars, runVars, ppc, pend, pushVars, kind, task, reply>>

Admit(r) ==
  /\ Turn(Idle)
  /\ hpc[r] = "waiting"
  /\ InFlight < MaxInFlight
  /\ hpc' = [hpc EXCEPT ![r] = "begin"]
  /\ loop' = <<"handler", r>>
  /\ UNCHANGED <<storeVars, streamVars, runVars, ppc, pend, ready, pushVars, kind, task, reply>>

\* A handler at phase p takes its turn.
At(r, p) == Turn(<<"handler", r>>) /\ hpc[r] = p
Goto(r, p) ==
  /\ hpc' = [hpc EXCEPT ![r] = p]
  /\ AfterStore(<<"handler", r>>)
  /\ UNCHANGED <<kind, task, reply>>

\* The result of the request is known: a local call returns it, a remote one
\* is suspended in the send of the response.
Answer(r, res) ==
  /\ reply' = [reply EXCEPT ![r] = res]
  /\ hpc' = [hpc EXCEPT ![r] = IF kind[r] \in Local THEN "done" ELSE "replying"]
  /\ Yield
  /\ UNCHANGED <<kind, task>>

\* Mutant of Refuse: the parameters are validated after the task was created.
RefuseLate(r) ==
  /\ At(r, "begin") \/ At(r, "created")
  /\ Answer(r, "error")
  /\ UNCHANGED <<storeVars, streamVars, runVars, ppc, pend, ready, pushVars>>

\* Invalid parameters, an unknown task, a missing or a foreign principal, an
\* unsupported push config: an error before anything changed.
Refuse(r) ==
  /\ At(r, "begin")
  /\ Answer(r, "error")
  /\ UNCHANGED <<storeVars, streamVars, runVars, ppc, pend, ready, pushVars>>

Create(r) ==
  /\ At(r, "begin")
  /\ kind[r] \in Creators
  /\ CreateTask(r)
  /\ Goto(r, "created")
  /\ UNCHANGED <<streamVars, runVars, ppc, pend, ready, pushVars>>

\* configuration.push_notification_config of the request.
Configure(r, c) ==
  /\ At(r, "created")
  /\ PushCap > 0
  /\ configs' = [configs EXCEPT ![r] = @ \cup {c}]
  /\ Goto(r, "configured")
  /\ UNCHANGED <<status, log, subscribed, queue, streamVars, runVars, ppc, pend, ready, pushVars>>

CreatedBy(r, k) == kind[r] = k /\ (At(r, "created") \/ At(r, "configured"))

\* message/send: _start_processing_after_preparation, then the answer.
SendTail(r) ==
  /\ CreatedBy(r, "send")
  /\ ppc' = [ppc EXCEPT ![r] = "spawned"]
  /\ ready' = Append(ready, <<"prepare", r>>)
  /\ Answer(r, "ok")
  /\ UNCHANGED <<storeVars, streamVars, runVars, pend, pushVars>>

\* message/stream: _begin_stream, then the metadata is prepared inline.
StreamTail(r) ==
  /\ CreatedBy(r, "stream")
  /\ fpc' = [fpc EXCEPT ![r] = "spawned"]
  /\ ready' = Append(ready, <<"forward", r>>)
  /\ Goto(r, "prepared")
  /\ UNCHANGED <<storeVars, from, hist, sent, runVars, ppc, pend, pushVars>>

\* stream_message_local: the caller iterates the stream itself, later.
LocalStreamTail(r) ==
  /\ CreatedBy(r, "localStream")
  /\ Goto(r, "prepared")
  /\ UNCHANGED <<storeVars, streamVars, runVars, ppc, pend, ready, pushVars>>

\* _start_processing: the run is registered, over any run already there, and
\* its coroutine is put in the ready queue.
Register(r) ==
  /\ processing' = [processing EXCEPT ![task[r]] = r]
  /\ rpc' = [rpc EXCEPT ![r] = "spawned"]
  /\ ready' = Append(ready, <<"run", r>>)
  /\ UNCHANGED cancelReq

StartInline(r) ==
  /\ At(r, "prepared")
  /\ Register(r)
  /\ fpc' = [fpc EXCEPT ![r] = IF kind[r] \in Local THEN "lazy" ELSE @]
  /\ Answer(r, "ok")
  /\ UNCHANGED <<storeVars, from, hist, sent, ppc, pend, pushVars>>

\* The store fails while the metadata is prepared inline: only the caller is told.
InlineFail(r) ==
  /\ StoreBlocks
  /\ At(r, "prepared")
  /\ Answer(r, "error")
  /\ UNCHANGED <<storeVars, streamVars, runVars, ppc, pend, ready, pushVars>>

\* get_task of the handlers on an existing task; a continue of a task that
\* waits for nobody is refused.
Fetch(r) ==
  /\ At(r, "begin")
  /\ kind[r] \in Resumers \cup Watchers \cup {"cancel"}
  /\ IF kind[r] \in Resumers /\ status[task[r]] \notin Resumable
     THEN Answer(r, "error")
     ELSE Goto(r, "fetched")
  /\ UNCHANGED <<storeVars, streamVars, runVars, ppc, pend, ready, pushVars>>

HasLiveRun(t) == processing[t] # NoReq /\ Live(processing[t])

\* Mutant of Resume: a continue does not look at the registered run.
ResumeAnyway(r) ==
  /\ At(r, "fetched")
  /\ kind[r] \in Resumers
  /\ AppendStatus(task[r], "submitted")
  /\ Owe(<<"handler", r>>, task[r])
  /\ Goto(r, "resumed")
  /\ UNCHANGED <<streamVars, runVars, ppc, ready, pushVars>>

\* tasks/continue: refused when the task is processing, else back to submitted.
Resume(r) ==
  LET t == task[r] IN
  /\ At(r, "fetched")
  /\ kind[r] \in Resumers
  /\ IF HasLiveRun(t)
     THEN Answer(r, "error") /\ UNCHANGED <<storeVars, pend>>
     ELSE /\ AppendStatus(t, "submitted")
          /\ Owe(<<"handler", r>>, t)
          /\ Goto(r, "resumed")
  /\ UNCHANGED <<streamVars, runVars, ppc, ready, pushVars>>

\* What a continue does with the resumed task: prepare inline, or (for the
\* streaming method) open the stream and leave the rest to a preparation.
ResumeTail(r) ==
  LET a == <<"handler", r>>  t == task[r] IN
  /\ At(r, "resumed")
  /\ EnqueuePush(t, pend[a])
  /\ Settle(a)
  /\ IF kind[r] = "continueStream"
     THEN /\ fpc' = [fpc EXCEPT ![r] = "spawned"]
          /\ ppc' = [ppc EXCEPT ![r] = "spawned"]
          /\ ready' = ready \o << <<"forward", r>>, <<"prepare", r>> >>
          /\ UNCHANGED from
          /\ Answer(r, "ok")
     ELSE /\ from' = [from EXCEPT ![r] = IF kind[r] \in Local THEN Len(log[t]) + 1 ELSE @]
          /\ Goto(r, "prepared")
          /\ UNCHANGED <<fpc, ppc, ready>>
  /\ UNCHANGED <<storeVars, hist, sent, runVars, pushing>>

\* Mutant of Cancel: the status is reported, the run is left alone.
CancelStatusOnly(r) ==
  /\ At(r, "fetched")
  /\ kind[r] = "cancel"
  /\ AppendStatus(task[r], "canceled")
  /\ Owe(<<"handler", r>>, task[r])
  /\ Goto(r, "canceled")
  /\ UNCHANGED <<streamVars, runVars, ppc, ready, pushVars>>

\* tasks/cancel: cancel the registered run if it is live, then report canceled,
\* whatever the task's status is.
Cancel(r) ==
  LET t == task[r] IN
  /\ At(r, "fetched")
  /\ kind[r] = "cancel"
  /\ cancelReq' = IF HasLiveRun(t) THEN [cancelReq EXCEPT ![processing[t]] = TRUE] ELSE cancelReq
  /\ AppendStatus(t, "canceled")
  /\ Owe(<<"handler", r>>, t)
  /\ Goto(r, "canceled")
  /\ UNCHANGED <<streamVars, rpc, processing, ppc, ready, pushVars>>

CancelTail(r) ==
  LET a == <<"handler", r>> IN
  /\ At(r, "canceled")
  /\ EnqueuePush(task[r], pend[a])
  /\ Settle(a)
  /\ Answer(r, "ok")
  /\ UNCHANGED <<storeVars, streamVars, runVars, ppc, ready, pushing>>

\* tasks/subscribe and tasks/resubscribe.
Subscribe(r) ==
  /\ At(r, "fetched")
  /\ kind[r] \in Watchers
  /\ fpc' = [fpc EXCEPT ![r] = "spawned"]
  /\ ready' = Append(ready, <<"forward", r>>)
  /\ Answer(r, "ok")
  /\ UNCHANGED <<storeVars, from, hist, sent, runVars, ppc, pend, pushVars>>

\* tasks/pushNotificationConfig/set and /delete (one config, or all of them).
SetConfig(r, c) ==
  /\ At(r, "begin")
  /\ kind[r] = "setConfig"
  /\ PushCap > 0
  /\ configs' = [configs EXCEPT ![task[r]] = @ \cup {c}]
  /\ Answer(r, "ok")
  /\ UNCHANGED <<status, log, subscribed, queue, streamVars, runVars, ppc, pend, ready, pushVars>>

DeleteConfig(r, cs) ==
  /\ At(r, "begin")
  /\ kind[r] = "deleteConfig"
  /\ PushCap > 0
  /\ configs' = [configs EXCEPT ![task[r]] = @ \ cs]
  /\ Answer(r, "ok")
  /\ UNCHANGED <<status, log, subscribed, queue, streamVars, runVars, ppc, pend, ready, pushVars>>

\* The response is sent, or its send raised: the slot is free either way.
Reply(r) ==
  /\ Turn(Idle)
  /\ hpc[r] = "replying"
  /\ hpc' = [hpc EXCEPT ![r] = "done"]
  /\ UNCHANGED <<storeVars, streamVars, runVars, ppc, pend, ready, loop, pushVars, kind, task, reply>>

-----------------------------------------------------------------------------
(* Preparation: _start_processing_after_preparation *)

PrepareStart(r) ==
  /\ First(<<"prepare", r>>)
  /\ ppc[r] = "spawned"
  /\ ready' = Tail(ready)
  /\ ppc' = [ppc EXCEPT ![r] = "preparing"]
  /\ AfterStore(<<"prepare", r>>)
  /\ UNCHANGED <<storeVars, handlerVars, streamVars, runVars, pend, pushVars>>

PrepareFinish(r) ==
  /\ Turn(<<"prepare", r>>)
  /\ ppc[r] = "preparing"
  /\ ppc' = [ppc EXCEPT ![r] = "done"]
  /\ Register(r)
  /\ Yield
  /\ UNCHANGED <<storeVars, handlerVars, streamVars, pend, pushVars>>

\* The store fails: the task is reported failed.
PrepareFail(r) ==
  LET a == <<"prepare", r>> IN
  /\ StoreBlocks
  /\ Turn(a)
  /\ ppc[r] = "preparing"
  /\ ppc' = [ppc EXCEPT ![r] = "failed"]
  /\ AppendStatus(task[r], "failed")
  /\ Owe(a, task[r])
  /\ AfterStore(a)
  /\ UNCHANGED <<handlerVars, streamVars, runVars, ready, pushVars>>

PrepareFailTail(r) ==
  LET a == <<"prepare", r>> IN
  /\ Turn(a)
  /\ ppc[r] = "failed"
  /\ ppc' = [ppc EXCEPT ![r] = "done"]
  /\ EnqueuePush(task[r], pend[a])
  /\ Settle(a)
  /\ Yield
  /\ UNCHANGED <<storeVars, handlerVars, streamVars, runVars, ready, pushing>>

-----------------------------------------------------------------------------
(* Runs: the coroutine _run of _start_processing *)

\* Run u at phase p may go on: a cancelled one is thrown CancelledError instead.
RunAt(u, p) == Turn(<<"run", u>>) /\ rpc[u] = p /\ ~cancelReq[u]
RunGoto(u, p) == rpc' = [rpc EXCEPT ![u] = p] /\ UNCHANGED <<cancelReq, processing>>

RunAppend(u, s, p) ==
  /\ AppendStatus(task[u], s)
  /\ Owe(<<"run", u>>, task[u])
  /\ RunGoto(u, p)
  /\ AfterStore(<<"run", u>>)

RunStart(u) ==
  /\ First(<<"run", u>>)
  /\ rpc[u] = "spawned"
  /\ ready' = Tail(ready)
  /\ ~cancelReq[u]
  /\ RunAppend(u, "working", "appended")
  /\ UNCHANGED <<handlerVars, streamVars, ppc, pushVars>>

\* Cancelled before its first step: the coroutine's body never runs, so its
\* finally block does not either.
RunStillborn(u) ==
  /\ First(<<"run", u>>)
  /\ rpc[u] = "spawned"
  /\ ready' = Tail(ready)
  /\ cancelReq[u]
  /\ cancelReq' = [cancelReq EXCEPT ![u] = FALSE]
  /\ rpc' = [rpc EXCEPT ![u] = "done"]
  /\ UNCHANGED <<storeVars, handlerVars, streamVars, processing, ppc, pend, loop, pushVars>>

\* An append returned: enqueue the event; the last one leads to the finally block.
RunPush(u) ==
  LET a == <<"run", u>> IN
  /\ rpc[u] \in {"appended", "reported"}
  /\ RunAt(u, rpc[u])
  /\ EnqueuePush(task[u], pend[a])
  /\ Settle(a)
  /\ IF rpc[u] = "appended"
     THEN RunGoto(u, "processing") /\ Yield
     ELSE RunGoto(u, "finally") /\ AfterStore(a)
  /\ UNCHANGED <<storeVars, handlerVars, streamVars, ppc, ready, pushing>>

\* The processor yields a status or an artifact.
RunYieldStatus(u, s) ==
  /\ RunAt(u, "processing")
  /\ Len(log[task[u]]) < MaxLog
  /\ RunAppend(u, s, "appended")
  /\ UNCHANGED <<handlerVars, streamVars, ppc, ready, pushVars>>

RunYieldArtifact(u) ==
  /\ RunAt(u, "processing")
  /\ Len(log[task[u]]) < MaxLog
  /\ AppendArtifact(task[u])
  /\ Owe(<<"run", u>>, task[u])
  /\ RunGoto(u, "appended")
  /\ AfterStore(<<"run", u>>)
  /\ UNCHANGED <<handlerVars, streamVars, ppc, ready, pushVars>>

\* Mutant of RunExhaust: a run ends without completing the task.
RunExhaustSilently(u) ==
  /\ RunAt(u, "processing")
  /\ RunGoto(u, "leaving")
  /\ AfterStore(<<"run", u>>)
  /\ UNCHANGED <<storeVars, handlerVars, streamVars, ppc, pend, ready, pushVars>>

\* The processor is exhausted: read the task, complete it unless it is final.
RunExhaust(u) ==
  /\ RunAt(u, "processing")
  /\ RunGoto(u, IF status[task[u]] \in FinalStates THEN "leaving" ELSE "open")
  /\ AfterStore(<<"run", u>>)
  /\ UNCHANGED <<storeVars, handlerVars, streamVars, ppc, pend, ready, pushVars>>

RunComplete(u) ==
  /\ RunAt(u, "open")
  /\ RunAppend(u, "completed", "reported")
  /\ UNCHANGED <<handlerVars, streamVars, ppc, ready, pushVars>>

\* Mutant of RunRaise: an exception of the processor is swallowed.
RunRaiseSilently(u) ==
  /\ RunAt(u, "processing")
  /\ RunGoto(u, "finally")
  /\ AfterStore(<<"run", u>>)
  /\ UNCHANGED <<storeVars, handlerVars, streamVars, ppc, pend, ready, pushVars>>

RunRaise(u) ==
  /\ RunAt(u, "processing")
  /\ RunAppend(u, "failed", "reported")
  /\ UNCHANGED <<handlerVars, streamVars, ppc, ready, pushVars>>

\* The task was final already: straight to the get_task of the finally block.
RunLeave(u) ==
  /\ RunAt(u, "leaving")
  /\ RunGoto(u, "finally")
  /\ AfterStore(<<"run", u>>)
  /\ UNCHANGED <<storeVars, handlerVars, streamVars, ppc, pend, ready, pushVars>>

\* CancelledError at an await of the body: nothing is reported and an event
\* already appended is not enqueued for push.
RunAbort(u) ==
  /\ Turn(<<"run", u>>)
  /\ cancelReq[u]
  /\ rpc[u] \in {"appended", "reported", "processing", "open", "leaving"}
  /\ cancelReq' = [cancelReq EXCEPT ![u] = FALSE]
  /\ rpc' = [rpc EXCEPT ![u] = "finally"]
  /\ Settle(<<"run", u>>)
  /\ AfterStore(<<"run", u>>)
  /\ UNCHANGED <<storeVars, handlerVars, streamVars, processing, ppc, ready, pushVars>>

\* The end of the finally block pops whatever run is registered for the task;
\* a CancelledError at its get_task skips the pop.
RunFinally(u) ==
  /\ Turn(<<"run", u>>)
  /\ rpc[u] = "finally"
  /\ rpc' = [rpc EXCEPT ![u] = "done"]
  /\ cancelReq' = [cancelReq EXCEPT ![u] = FALSE]
  /\ processing' = IF cancelReq[u] THEN processing
                   ELSE [processing EXCEPT ![task[u]] = NoReq]
  /\ Yield
  /\ UNCHANGED <<storeVars, handlerVars, streamVars, ppc, pend, ready, pushVars>>

-----------------------------------------------------------------------------
(* Streams: _forward over iter_events, and _iter_local_stream *)

Replays(r) == kind[r] \in {"stream", "resubscribe"} \cup Local
Positions(m, n) == [i \in 1 .. n - m + 1 |-> m + i - 1]

\* subscribe: queue and history are taken in one critical section.  The task
\* record (position 1) is never sent; a stream without replay starts behind
\* the log, a local one behind the sequence it was given.
ForwardStart(r) ==
  LET n == Len(log[task[r]]) IN
  /\ \/ First(<<"forward", r>>) /\ fpc[r] = "spawned" /\ ready' = Tail(ready)
     \/ Turn(Idle) /\ fpc[r] = "lazy" /\ UNCHANGED ready
  /\ subscribed' = subscribed \cup {r}
  /\ queue' = [queue EXCEPT ![r] = <<>>]
  /\ hist' = [hist EXCEPT ![r] = IF Replays(r) THEN Positions(from[r], n) ELSE <<>>]
  /\ from' = [from EXCEPT ![r] = IF Replays(r) THEN @ ELSE n + 1]
  /\ fpc' = [fpc EXCEPT ![r] = "open"]
  /\ UNCHANGED <<status, log, configs, sent, handlerVars, runVars, ppc, pend, loop, pushVars>>

\* Mutant of ForwardSend: a stream goes on after a final status.
ForwardOnAndOn(r) ==
  /\ Turn(Idle)
  /\ fpc[r] = "open"
  /\ hist[r] \o queue[r] # <<>>
  /\ sent' = [sent EXCEPT ![r] = Append(@, Head(hist[r] \o queue[r]))]
  /\ IF hist[r] # <<>>
     THEN hist' = [hist EXCEPT ![r] = Tail(@)] /\ UNCHANGED queue
     ELSE queue' = [queue EXCEPT ![r] = Tail(@)] /\ UNCHANGED hist
  /\ UNCHANGED <<status, log, configs, subscribed, from, fpc, handlerVars, runVars, ppc, pend, ready, loop, pushVars>>

\* Mutant of ForwardSend: live records overtake the history.
ForwardLiveFirst(r) ==
  LET n == Head(queue[r] \o hist[r]) IN
  /\ Turn(Idle)
  /\ fpc[r] = "open"
  /\ queue[r] \o hist[r] # <<>>
  /\ sent' = [sent EXCEPT ![r] = Append(@, n)]
  /\ fpc' = [fpc EXCEPT ![r] = IF Final(log[task[r]][n]) THEN "closing" ELSE @]
  /\ IF queue[r] # <<>>
     THEN queue' = [queue EXCEPT ![r] = Tail(@)] /\ UNCHANGED hist
     ELSE hist' = [hist EXCEPT ![r] = Tail(@)] /\ UNCHANGED queue
  /\ UNCHANGED <<status, log, configs, subscribed, from, handlerVars, runVars, ppc, pend, ready, loop, pushVars>>

\* The next record, of the history first, is sent; a final status ends the stream.
ForwardSend(r) ==
  /\ Turn(Idle)
  /\ fpc[r] = "open"
  /\ hist[r] \o queue[r] # <<>>
  /\ LET n == Head(hist[r] \o queue[r]) IN
     /\ sent' = [sent EXCEPT ![r] = Append(@, n)]
     /\ fpc' = [fpc EXCEPT ![r] = IF Final(log[task[r]][n]) THEN "closing" ELSE @]
  /\ IF hist[r] # <<>>
     THEN hist' = [hist EXCEPT ![r] = Tail(@)] /\ UNCHANGED queue
     ELSE queue' = [queue EXCEPT ![r] = Tail(@)] /\ UNCHANGED hist
  /\ UNCHANGED <<status, log, configs, subscribed, from, handlerVars, runVars, ppc, pend, ready, loop, pushVars>>

\* The send raises (or a local caller stops iterating): the stream just stops.
ForwardFail(r) ==
  /\ Turn(Idle)
  /\ fpc[r] = "open"
  /\ fpc' = [fpc EXCEPT ![r] = "closing"]
  /\ UNCHANGED <<storeVars, from, hist, sent, handlerVars, runVars, ppc, pend, ready, loop, pushVars>>

\* The finally block of iter_events.
Unsubscribe(r) ==
  /\ Turn(Idle)
  /\ fpc[r] = "closing"
  /\ fpc' = [fpc EXCEPT ![r] = "closed"]
  /\ subscribed' = subscribed \ {r}
  /\ queue' = [queue EXCEPT ![r] = <<>>]
  /\ hist' = [hist EXCEPT ![r] = <<>>]
  /\ UNCHANGED <<status, log, configs, from, sent, handlerVars, runVars, ppc, pend, ready, loop, pushVars>>

-----------------------------------------------------------------------------
Init ==
  /\ status = [t \in Req |-> "none"] /\ log = [t \in Req |-> <<>>]
  /\ configs = [t \in Req |-> {}]
  /\ subscribed = {} /\ queue = [r \in Req |-> <<>>]
  /\ processing = [t \in Req |-> NoReq]
  /\ hpc = [r \in Req |-> "idle"] /\ kind = [r \in Req |-> "none"]
  /\ task = [r \in Req |-> NoReq] /\ reply = [r \in Req |-> "none"]
  /\ fpc = [r \in Req |-> "none"] /\ from = [r \in Req |-> 2]
  /\ hist = [r \in Req |-> <<>>] /\ sent = [r \in Req |-> <<>>]
  /\ ppc = [r \in Req |-> "none"]
  /\ rpc = [r \in Req |-> "none"] /\ cancelReq = [r \in Req |-> FALSE]
  /\ pend = [a \in Actor |-> 0]
  /\ ready = <<>> /\ loop = Idle
  /\ pushq = <<>> /\ pushing = Idling

Handler(r) ==
  \/ Dispatch(r) \/ Admit(r) \/ Refuse(r)
  \/ Create(r) \/ SendTail(r) \/ StreamTail(r) \/ LocalStreamTail(r)
  \/ StartInline(r) \/ InlineFail(r)
  \/ Fetch(r) \/ Resume(r) \/ ResumeTail(r) \/ Cancel(r) \/ CancelTail(r) \/ Subscribe(r)
  \/ \E c \in Config : Configure(r, c) \/ SetConfig(r, c)
  \/ \E cs \in SUBSET Config : DeleteConfig(r, cs)
  \/ Reply(r)

Prepare(r) == PrepareStart(r) \/ PrepareFinish(r) \/ PrepareFail(r) \/ PrepareFailTail(r)

Run(u) ==
  \/ RunStart(u) \/ RunStillborn(u) \/ RunPush(u)
  \/ \E s \in ProcStates : RunYieldStatus(u, s)
  \/ RunYieldArtifact(u) \/ RunExhaust(u) \/ RunComplete(u) \/ RunRaise(u)
  \/ RunLeave(u) \/ RunAbort(u) \/ RunFinally(u)

ForwardOn(r) == ForwardStart(r) \/ ForwardSend(r) \/ Unsubscribe(r)
Forward(r)   == ForwardOn(r) \/ ForwardFail(r)

PushLoop == PushTake \/ PushFail \/ \E c \in Config : PushDeliver(c)

Next ==
  \/ \E r \in Req :
       \/ \E k \in Kinds[r], t \in Req : Arrive(r, k, t)
       \/ Handler(r) \/ Prepare(r) \/ Run(r) \/ Forward(r)
  \/ PushLoop

Spec == Init /\ [][Next]_vars

\* Every coroutine that can take a step takes one in the end: asyncio's ready
\* queue is fair, sends and processors return or raise.  No send has to fail.
Fairness ==
  \A r \in Req : WF_vars(Handler(r)) /\ WF_vars(Prepare(r)) /\ WF_vars(Run(r))
                 /\ WF_vars(ForwardOn(r))

FairSpec == Spec /\ Fairness
=============================================================================
