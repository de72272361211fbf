# Verification of K-A2A in TLA+

K-A2A carries the Agent-to-Agent protocol over Kafka: clients send JSON-RPC
requests to an agent's topic, the agent turns them into tasks, runs a task
processor, and streams the task's events to the client's reply topic.  This
directory holds TLA+ models of that program, the TLC configurations that check
them and the proofs TLAPS checks.  Paths below are relative to
`src/src/kafka_a2a/` of the repository.

## The system

| Component | State it keeps | Operations | What is hard | What makes it correct |
|---|---|---|---|---|
| Agent runtime, `runtime/agent.py` | `_processing` (run per task), semaphore, push queue | the JSON-RPC methods, runs, preparations, stream forwarders, push loop, stop | every `await` is an interleaving point; a cancel meets a run at any of its awaits; check-then-act across awaits | one run per task; cancel reaches the run it means; every task settles; streams carry the log |
| Task store, `runtime/task_store.py` | tasks, event logs, subscriber queues, push configs | create, append, subscribe, iterate | subscription against concurrent appends | a stream is a gapless window of the log |
| Redis task store, `runtime/redis_task_store.py` | the same in Redis keys and streams | the same | append is get, modify, INCR, MULTI; subscribers poll | no lost update while appends do not overlap; a number names one entry; a stream sees every entry behind its start |
| Client, `client.py` | `_pending`, `_streams` by request id | call, stream, reader loop | timeout against late answer, first response against stream events | every call is answered once or times out; a stream ends at its final event |
| Transport, `transport/kafka.py` | producers, consumers | send, receive, dead letters | redelivery, malformed messages | one bad message never stops the loop |
| Registry and directory, `registry/` | agent cards with time stamps | publish, unpublish, look up | heartbeat against expiry | an agent that beats is listed, one that stopped vanishes |
| Shared runtime, `runtime/shared_runtime.py` | `_managed`, the last list of the control plane | reconcile, start, stop, local delegation | reconcile against stop, failures and back-off | the running agents converge to the enabled ones |
| Decision service, `decisioning/` | bounded queue, workers, circuit breaker | decide, retry, close | timeout against late result, full queue | every caller gets one answer; the circuit opens and closes |
| Chat and coins, `mainapps/chat/`, `intera_coins.py` | conversations, messages, activities; per socket a copy of the record | a turn's stream, PATCH, DELETE, charge | records are saved whole from copies read earlier; any send may raise half-way | one answer per turn, stored before it is charged (unless it is a message of the user); the record tells what its task awaits |
| Voice worker, `livekit_voice/worker.py` | turn buffer, flush timer, recent keys, pending clarification, delegation lock | hear a turn, flush, decide, delegate, cancel, shut down | timers and turns, two transcripts at a time, a cancel at any await, merging and deferring | what is said is answered; a cancel reaches what the host works on; the end of the call ends the work |
| Administration, `mainapps/agents/` | agents, versions, enablement | create, enable, select | concurrent edits | the registry shows what is enabled |
| Gateway, `server/` | a client, per-request streams | HTTP to client calls | disconnects | one stream per request |
| Delegation and tools, `local_tools.py`, `router_processor.py`, `mcp_tools.py` | depth, sessions, caches | delegate, call | cycles, stale caches | delegation terminates |
| Processors, LLM clients | prompts, workflow state, cooldowns | | | mostly domain heuristics |

Requests enter through the gateway or another agent's client, travel over
Kafka, and meet the agent runtime; the runtime calls its store and its
processor; processors delegate to other agents through a client of their own or,
inside a shared runtime, through `stream_message_local`.  The registry tells
clients and routers which agents exist.

## Modules

| Module | What it is |
|---|---|
| `AgentRuntime` | the agent over its task store: state, one action per step of a coroutine, fairness; and, next to the definition they change, the mutants of it |
| `EventFeed` | abstract specification of store and forwarders: append-only logs, and streams that receive a gapless window ending at the first final status; implemented by `AgentRuntime` and by `RedisTaskStore` |
| `AgentProperties` | the types and the properties of the agent, and the refinement mapping to `EventFeed` |
| `AgentInvariants` | the inductive invariants of the proofs |
| `AgentProofs` | proofs about the agent over any store: its types, its streams, and that it implements `EventFeed` |
| `MemoryProofs` | proofs about the agent over the store in memory: who works on a task, cancellation, errors, the push queue |
| `RedisTaskStore` | the Redis store command by command, and its polling readers |
| `RedisProofs` | proofs about numbers, the document and the last entry, and that store and readers implement `EventFeed` |
| `Client` | a client's requests: maps, futures, queues and the reader loop, against Kafka and an agent |
| `ClientProofs` | proofs about the client's types, maps and streams |
| `SharedRuntime` | the service that runs the agents the control plane lists |
| `SharedProofs` | proofs about the agents in `_managed` and the one agent of a name, and about what stops and `stop()` leave behind |
| `DecisionService` | the dispatcher of decisions: queue, workers, slots, retries, circuit breaker, close |
| `DecisionProofs` | proofs about slots, the join's count, the circuit's budget, and the one place an accepted observation is in |
| `ChatStream` | a conversation: the sockets that stream turns, PATCH, DELETE, the store in memory or in Redis, the charge |
| `ChatProofs` | proofs about answers, charges and what a conversation offers, tells and counts |
| `VoiceSession` | a voice call: buffer and flush, handlers, clarification, delegation under the lock, cancel, shutdown |
| `VoiceProofs` | proofs about the lock and the cancel, and about the fate of what is said |
| `MCAgent`, `MCRedis`, `MCClient`, `MCShared`, `MCDecision`, `MCChat`, `MCVoice` | instances for TLC |

### How AgentRuntime corresponds to the code

asyncio runs one coroutine at a time.  The model has one action per stretch of
code between two calls of the task store or suspensions, and the variable
`loop` names the coroutine that keeps the event loop between two of its
actions.  `StoreBlocks` chooses the store: with `FALSE` a call of the store
does not suspend its caller (`InMemoryTaskStore`: its lock is held only across
code without awaits and so is never contended), with `TRUE` it does (a store
behind a socket).  `ready` is the event loop's FIFO of coroutines that were
created and have not run yet; later resumptions are unordered, which allows
every order of the replies they wait for.

* A request `r` names the task it creates, and the run, preparation and stream
  it starts.  `task[r]` is the task it is about.
* `hpc` is the phase of `_dispatch_request` / `_handle_request` / `_route` (or
  of `stream_message_local` and `continue_task_stream_local`, which need no slot
  of the semaphore and send no response).  `Refuse` stands for all errors raised
  before anything changed: invalid parameters, unknown task, principal, missing
  push support.
* `ppc` is `_prepare` of `_start_processing_after_preparation`, `rpc` is `_run` of
  `_start_processing`, `fpc` is `_forward` of `_begin_stream` or the iterator of
  `_iter_local_stream`.
* `cancelReq` is a pending `Task.cancel()`: the run gets `CancelledError` at its
  next resumption, in its body (`RunAbort`), in its `finally` block
  (`RunFinally`, which then skips the pop of `_processing`), or before its first step
  (`RunStillborn`, whose body and `finally` block never execute).
* `log[t]` is the store's event list; position 1 is the task record, which
  streams skip.  A status is final as `append_status` computes it, so
  `input_required` ends a stream too.
* `pend[a]` is the event an actor has appended and not yet passed to
  `_enqueue_push`.
* The processor is nondeterministic: it yields statuses of `ProcStates` and
  artifacts, returns, or raises.

Abstracted away: texts, artifacts' content, ids, tracing and metrics, principals
(a request that fails the check is refused), the read-only methods
(`tasks/get`, `tasks/list`, push config get and list).  Left out so far: `start`,
`stop` and the registry heartbeat, store failures outside the preparation of a run, and
the crash of the process.

### RedisTaskStore

One action per Redis command: the `GET` of an append (`Get`, which also takes
the copy), the `INCR` (`Incr`) and the `MULTI` of `SET` and `XADD` (`Exec`).  `Abandon`
cuts an append off anywhere; a command that was on its way may still arrive.
A run
appends one event after the other, so appends overlap when a cancel meets a run or a
continue, or two continues meet: `overlapped` remembers that two
were under way at a time.  A stream that continues a task asks for the latest number when its
own append has returned (`Start`); if another append has drawn a number then and not written
its entry, the stream is `torn`: that entry may come later and is passed over.  `Modes` says which ways of calling `iter_events` a reader may
choose: from the beginning, behind a sequence number, or without history.  A reader
is `iter_events`: `Call` sends `XREAD`, `Return` is its reply (of at most `ReadCount`
entries), `Expire` an empty one, `Reconnect` a lost connection, `Take` hands one
entry on.  The id `$` is resolved anew by every `XREAD` until an entry was received.

### Client

A request goes from `sending` to `waiting` (its future), and a stream to `open` (its
iterator).  `Receive` is one round of the reader loop.  The responses of one
request have its id as their Kafka key and lie in one partition, so `topic[r]` is
a log; nothing relates the logs of two requests, which share only the reader,
so one request is an instance with all its behaviours.  External: the agent
(`Deliver`, `Respond`, `Forward`: the answer and the forwarder's records are sent
by two coroutines, and an error answer may come after records), Kafka's second
delivery of a request and its rewind of the reader.

### SharedRuntime

`_reconcile` is `Answered`, `Malformed` or `Unreachable` (the load), `Undesired` and
`Compare` (its two loops) and `Gather`.  `Busy` keeps the event loop with it
between two awaits.  An agent's start is `Provisioned` and `Started`; both belong to
the agent, not to the reconciliation, because a failed gather leaves them alone.
An agent's stop is `Unpublished`, `ConsumerStopped` and `Quit`; `CancelSwallowed` and `CancelAborts` are
the two ways it takes a cancellation of the task that awaits it.  A start or a stop that fails or
is cancelled frees its object, but its consumer may stay in the group: only the `finally` of the
consumer's own task stops it (`agent.py` 281-282), a start has none yet when it joins (256), and a
cancellation that is swallowed at 314 has cut that `finally` short.  `left` counts such consumers by
name.  What may go wrong is counted by `budget`.  The delays between two attempts are not modelled: a
start may take longer than they do.

### DecisionService

A worker or a caller of `decide_now` is an evaluation: `Take` or `Decide`, `Admit` (the
circuit), `Acquire` (a slot), `Called` (an answer of the provider, given as `Succeed`,
`FailHard` or `FailSoft`, the last with a retry), `Settled`.  Time is one bit: whether the
circuit's open period has elapsed (`Elapse`).  `Close`, `Joined`, `StopWorkers`, `Kill` and
`Closed` are `aclose`.

### ChatStream

A socket `s` runs one turn at a time (`_run_conversation_stream`; the receive loop
awaits it, so the socket's `send_lock` is never found locked): `Receive`, `SaveConfig`, the
append of the user's message, `Reget`, `Log` and `SaveCopy` (`_append_activity`, which
refuses a deleted conversation, and `_save_conversation_update`), the start or continuation
of the task, and per event of the agent the same two, then the append of the answer and
`Charge`.  `copy[s]` is the record the stream carries from save to save.  An append is one
step in memory (and in the database, one transaction) and `RedisRead`, `RedisDraw`,
`RedisWrite` over Redis.  `Abandon` is any exception: every send may raise, and so may the
store and the agent.  External: the agent, which sends a task first (if it is new), then
statuses and artifacts, then a final status (whose message is empty, the agent's or the
user's), and refuses to continue a task that does
not wait for input.  `overlapped` remembers that two actors held a copy of the record
at a time.  Abstracted away: texts and structured payloads (there is content or not), titles,
agent names, the delegation artifact (handled like a status), activities (written,
never read back by the stream).

### VoiceSession

A transcript is the set of the texts it was merged from; `Keyless` are texts without a letter
or digit of a-z and 0-9 (another script, say), whose comparison key is empty.  `heard`,
`answered`, `dismissed` and `spared` are the history of each text's fate, `stranded` whether
the last turn called the flush off and left the buffer.  `Turn` is `on_user_turn_completed`
with `queue_final_user_transcript`, `EmptyTurn` the same without words, `CancelRequest` a turn
that asks to cancel.

`Flush` is the timer's end up to the handler's first await.  `UniqueFragments` is what the loop
over the buffer leaves: the fragments that have a key, without repetitions.  Of these one
corrects what was said and the others are dropped (`HandleCorrection`), or leading filler is
dropped, some are merged and the rest is left over (`HandleBatch`); merged, they may read as
a correction or a cancellation, which cancels the delegation under way.  `Mark` is the
duplicate window: a correction is recorded under the request it is replaced by (`Canned`), so
that another correction, or a transcript that asks for the same in so many words, may be a
duplicate of it, and forgets any of the keys before it looks, as their windows may be over.
`Leave` is what follows the handling (fragments left over go back to the buffer).

A handler `h` goes through its decision (`LocalReply`, `AnswerClarification`, `AskAgain`,
`Defer`, `Ask`, `Ignore` or `Accept`; what a text means is open), the lock (`Acquire`), and the
delegation (`Connect`, `Resolve`, `Abort`, `Resume`).  `canceled` holds delegations whose
`CancelledError` has not been thrown yet.  External: the host.  Left out: transcripts that
arrive as events (`_on_user_input_transcribed`, off unless configured).
`UniqueFragments` says what the loop leaves and not how; `MCVoice` has the loop itself,
`Unseen`, and assumes that the two agree (`UniqueIsUnseen`), which TLC evaluates on all buffers
of up to four fragments.

## Runs

| Run | Instance | What it shows |
|---|---|---|
| `agent_memory` (`AgentMemory.cfg`) | 2 requests, every kind of the second against a task of every creating kind; in-memory store, push queue of 2, one config, one slot | types; no open task without a worker; an error answer leaves nothing behind; push events in log order |
| `agent_blocking` (`AgentBlocking.cfg`) | the same kinds, a store that suspends, logs of up to 4 records and those the control adds | streams lose nothing, stop at a final status, and implement `EventFeed` |
| `agent_live` (`AgentLive.cfg`) | one task, created with or without a stream, then continued twice, or continued and canceled in either order; in-memory store; fairness | one run per task; a cancel stops every run the task has and none starts afterwards, but a streaming continue's; every task settles; streams opened with a creation or a continuation end |
| `agent_overlap` (`AgentOverlap.cfg`) | two continues of one task, a store that suspends | **violation**: both pass the check for a running processor and the task is processed twice at a time |
| `redis` (`Redis.cfg`) | two writers, at a time or one after the other, cut off anywhere; a replaying reader and one of any mode, lost connections; fairness | the stored task is the fold of its events until two appends overlapped, and its last entry is in it even then; the readers that are not `torn` implement `EventFeed`; each gets to a final status above the number it asked for |
| `client` (`Client.cfg`) | one request of either kind, one repeated delivery | what ended is forgotten; a stream is a gapless window of its replies that ends at a final status; timed requests settle |
| `shared` (`Shared.cfg`) | two names, two versions, every first list; one edit, outage, failed start and failed stop; `stop()` at any moment | a managed agent serves; an outage stops nobody; unless a start failed no name has two agents, and its group no other consumer but those of failed stops and one `stop()` cut off; the managed agents converge to the list; `stop()` returns, and then (no start having failed) nothing is managed and no agent goes on |
| `shared_overlap` (`SharedOverlap.cfg`) | the same, `OneAgentPerName` without the condition | **violation**: one start fails while another goes on, the next reconciliation starts the other again, and of its two agents one can never be stopped |
| `decision` (`Decision.cfg`) | three observations, two workers, two callers, two slots, a queue of two, one retry, a close with a drain | no slot and no `task_done` is lost, the circuit's budget, an accepted observation is in one place, every evaluation ends, the close returns |
| `voice` (`Voice.cfg`) | two texts and one without a key in up to three turns, two handlers, one deferral; empty turns, corrections, cancels and the end of the call anywhere; fairness | a cancel reaches what the host works on; no text is lost but in the ways the code has, each of them named by the property; the end of the call ends the work without the host; handlers end |
| `voice_silent` (`VoiceSilent.cfg`) | two texts in up to three turns; what was said is never dropped | **violation**: a turn that repeats the last buffered one (or an empty one) calls the flush off: the caller is not answered |
| `chat` (`Chat.cfg`) | two turns, two sockets at a time in memory, one over Redis; one PATCH, a DELETE, failures anywhere | an answer is stored once, and before it is charged (a final status with a message of the user is charged and not stored); undisturbed, the record offers only a task that waits, tells its task's state at rest, and counts its messages but for the last answer |

Bounds.  `Req` bounds the requests, and with them tasks, runs and streams: two
requests meet a task in all its states, three are needed for two continues, or a continue
and a cancel, of one task.  `MaxLog` bounds what the processor reports (the
control appends beyond it); 3 and 4 leave room for working, a report and what
follows.  `PushCap` 2 lets the queue overflow.  `MaxInFlight` 1 makes handlers wait
for the slot; 2 and 3 let them overlap.  `CHECK_DEADLOCK FALSE`: a bounded set of
requests is served in the end, and then the agent rests; the other models rest
likewise.

Redis: `MaxSeq` bounds the numbers drawn: 2 let two appends overlap or one follow the
other, and a final status be followed by another event; `ReadCount` 2 makes a reply end in the
middle of the stream.  Client: one forwarded record and one repeated
delivery (a second execution of the request, or a rewind) give streams of up to five
replies; two records were checked once and changed nothing.  Shared runtime: four
agent slots hold two agents of the list and the unmanaged ones of an earlier gather, so
`Gather` never lacks a slot; two edits were checked once.  Decisions: two workers and two
callers compete for two slots, and three observations overflow the queue of two.
Voice: two texts let one be merged, repeated, deferred or answered while the other is handled;
the third turn repeats, corrects or cancels; two handlers compete for the lock.  Four turns and
two deferrals, and a second text without a key, were checked once for the invariants and changed
nothing.  Chat: `MaxTurns` 2 gives
a task that asks and its continuation, or two turns that overlap; `Streams` bounds the turns
at a time, `MaxPatches` the patches.

Fairness (`FairSpec`).  Each coroutine that can take a step takes one in
the end: the ready queue of asyncio is fair; sends return or raise; a processor
yields, returns or raises.  Nothing says that a send fails, so `ForwardFail`
is not fair, nor is the arrival of requests.  That the processor ends is an
assumption about the processor: the agent has no time limit for it.  Redis: a
reader's reply comes in the end if it is asked for again and again (strong
fairness of `Return`: the code retries for ever, and a server that is never
reachable again makes no promise possible).  Client: the caller's coroutines go on and
timers fire; nothing is assumed of Kafka, the reader or the agent.  Shared runtime:
the loop, the control plane and the starts and stops go on, each of the failures
happens a bounded number of times.  Decisions: the coroutines go on and the
provider's call ends, as its time limit makes it.  Voice: decisions and speech go on, no timer need fire;
the host need not answer, and `TurnsEnd` has its answer (`HostAnswers`) as a hypothesis.

What the runs show beyond the table:

* Over a store that suspends, `LiveRunIsRegistered` fails (the finding), and so
  do `OpenTaskHasWorker` and `ErrorLeavesNothing` (the inline preparation of
  message/stream can fail after the task was created), `PushInLogOrder` (the
  append and the enqueuing are two steps) and `CanceledTaskIsQuiet` (a cancel
  during a preparation).  These are checked over the in-memory store, where they hold.
* Even in memory, a cancel that falls between a streaming continue and the end
  of its preparation does not stop the run: `CanceledTaskIsQuiet` excepts the step that
  starts it, and no other.
* Over Redis, a cancel that meets a run can erase the run's last event from the stored
  task, or its own status (`DocumentIsFoldOfStream` holds only until then); the event
  stream keeps both.  A stream that continues a task behind the latest number passes over an
  event whose number was drawn before it asked and that was written afterwards, the final
  status of a cancel for one (`torn`; `SiftedStreams` says that it misses nothing else).  A reader
  without history misses what is appended between two of
  its polls until it received its first entry.
* A client's stream whose reader ends waits for ever, and one whose first response
  came too late leaves a queue that grows with every record the agent forwards.
* A second delivery of a streaming request creates a second task, and
  the stream carries both until the first final status.
* A chat turn that stored its answer from the result artifact saves the copy from before
  it at the final status: message count and preview fall back by this answer until
  the next turn (`CountLagsByAnswer`).  Over Redis a save behind a DELETE brings the record
  back without its messages.  Two sockets, or a PATCH in the middle of a turn, can offer
  a task that waits no more; answers and charges are right even then.
* A final status that completes a task with a message whose role is `user` is charged and
  not stored: the charge tracker does not look at the role (`ChargeStep` excepts this, and
  nothing else).
* A charge that the coin service does not take is logged and not repeated.
* tasks/subscribe on a task that is already final opens a stream that never
  ends; `StartedStreamEnds` speaks of the streams opened with a creation or a continuation.
* Speech goes unanswered in more ways than the one `voice_silent` shows.  A fragment that is
  deferred goes back to the buffer with its key recorded, and when nothing follows it is
  skipped as a duplicate of itself.  A correction drops what was said beside it; leading filler
  is dropped; a text whose key is empty is never handled, and two such turns count as a
  repetition.  A text in a stranded buffer is answered after all when a later turn is buffered.

Every property has a mutant of the code that TLC finds to violate it (`PROJECT.json`).

## Proofs

Every safety invariant, action property and refinement of the passing runs is a theorem.
Each inductive invariant was checked by TLC on the instance of its run before it was
proved.

The theorems about the agent hold for every set of requests, every assignment of kinds,
every bound, and any processor, under `AgentAssumption`; those of `AgentProofs` over both
kinds of store, those of `MemoryProofs` over the store in memory.

* `TypeCorrect`: `Spec => []TypeOK`.  The types are not inductive alone: a
  request's `task` is a task only once the request arrived.  `ControlInv` adds
  `IdleInv` (a request that has not arrived started nothing) and `NameInv` (one
  that arrived names a task).  `HandlerControl`, `PrepareControl`, `RunControl`,
  `ForwardControl`, `PushControl` and `ArriveControl` are the cases of the step.
* `StreamsLoseNothing`, `StreamsStopAtFinal`: `Spec => []OpenStreamLosesNothing`
  and `Spec => []StreamStopsAtFinal`.  The inductive invariant is `StreamInv`:
  `OpenInv` (the window of an open stream is the log from its start on),
  `UnopenedInv` (a stream not yet open has sent nothing and starts inside the
  log), `SentInv` (what was sent lies in the log, a final status last), and what
  these need of the control: `BirthInv` and `ExistInv` (a log begins before anyone
  works on its task, so `create_task` never resets a log somebody reads) and `FreshInv`
  (a handler opens its stream once).  `StreamNext` reduces the steps of all
  coroutines but the forwarders to two facts: what a step does to the store
  (`StoreStep`) and which streams it opens (`Opening`).

* `AgentImplementsFeed`: `Spec => ImplementsFeed`, the refinement of `EventFeed`.
  `FeedInv` is `StreamInv` and `BehindRecord` (no stream starts at the task record).  A
  step of anybody but a forwarder publishes one event or leaves the feed alone
  (`QuietFeed`, `QuietPublishes`), a forwarder's subscription is `Feed!Open` (`StartOpens`),
  its send `Feed!Deliver` (`SendDelivers`, by `NextPosition`), and its end a stutter.

* `RunsAreRegistered`, `OpenTasksAreServed`: `Spec` implies `[]LiveRunIsRegistered` and
  `[]OpenTaskHasWorker` under `~StoreBlocks`.  Over a store that suspends both fail
  (`agent_overlap`), so the proof has to use what the store in memory gives: `TurnInv`,
  a coroutine between two of its calls keeps the event loop.  `PhaseInv` says what a
  request of each kind has started at each phase of its handler.  `WorkInv` is about
  the runs: `StatusInv` (the status of a task tells who works on it), `SoleInv` (whoever is
  about to start a run of a task is alone with it), `OwnInv` (`_processing` names a
  run of that task), `LiveRunIsRegistered`, and `ServedInv`, the inductive form of
  `OpenTaskHasWorker`: a preparation counts as a worker, a run with a pending cancellation
  does not.  `SoleInv` is what makes the check of `_processing` and the start of the run, two
  steps with an await between them, safe.  `WriteWork`, `EndWork`, `RegisterWork`, `CancelWork`,
  `ArriveWork` and `IntroduceWork` are the kinds of step.
* `CanceledTasksAreQuiet`: `Spec => CanceledTaskIsQuiet` for processors that do not report
  `canceled` themselves: no step makes a run that goes on in a canceled task
  (`NothingRevives`), but the end of a streaming continue's preparation.  A cancel must not slip between the creation of a task and the
  registration of its run, and what keeps it out is the order of the ready queue: nobody
  can name a task before its creator answered or streamed, so the handler of whoever does
  is created later and waits behind the preparation (`LineInv`; `QueueInv` says that a handler
  that waits is there once).
  A continue has no such order, which is the exception the property names.
* `ErrorsLeaveNothing`: `Spec => []ErrorLeavesNothing`.  `NamelessInv`: the name of a request
  that creates no task has an empty log.
* `PushIsInLogOrder`: `Spec => []PushInLogOrder`.  `OweInv`: an event that was appended and not
  yet enqueued belongs to the coroutine that keeps the event loop, it is the last of
  its log, and everything queued for the task is earlier.

* `NumbersNameEntries`, `LastEntryIsKept`, `DocumentFollowsStream`, `StoreImplementsFeed`,
  `SiftedStreams`: `Spec` implies `[]SequenceNamesOneEntry`, `[]LastEntryIsInDocument`,
  `[]DocumentIsFoldOfStream`, `ImplementsFeed` and `[]StreamsAreSifted` of `RedisTaskStore`, for every set of writers and
  readers, every batch size and all bounds (`RedisAssumption`).  The inductive invariant is
  `StoreInv`: `NumberInv` (a number once drawn is in one entry or in one append
  under way), `DocumentInv` (an append that is alone has the document there is and one
  event more), `BoundaryInv` (what a reader passes over bears numbers up to the one it
  continues from; what comes later and what is still to be written bears higher ones, if it is
  not torn) and `ReaderInv` (a reader has yielded everything from its first entry up to where
  it goes on, if it is not torn).  `TakeFacts` is the heart of the refinement: the entry taken is
  the next one, and it is yielded exactly when it is not before the first and its number is
  above the one asked for, which for a reader that is not torn follows.  `SiftInv` says for every
  reader what it has yielded: of the entries it came to, exactly those.

* `ClientTypes`, `EndedIsForgotten`: `Spec => []TypeOK` and
  `Spec => []SettledIsForgotten` of `Client`, for every set of requests and all
  bounds.  `SettledIsForgotten` speaks of requests that
  ended; it is inductive only with `MapsInv`, which says what `_pending`, `_streams`
  and the future hold in every phase of the caller: a queue belongs to a
  streaming request that was sent and has not ended, and a pending request has a
  future without an answer.  `AgentOK` types the executions of the external agent.
* `StreamsAreFaithful`: `Spec => []StreamIsFaithful` of `Client`, from `YieldInv` (nothing is
  yielded behind a final status) and `WindowInv` (what an open stream yielded and has
  queued ends at the reader's position in the reply topic, and the answer is its first item).

* `SlotsConserved`, `JoinWaitsForWork`, `BudgetIsLeft`: `Spec` implies `[]SlotsAreConserved`,
  `[]UnfinishedIsWork` and `[]ClosedCircuitHasBudget` of `DecisionService`, for any finite sets of workers
  and callers, any queue and any number of slots (`DecisionAssumption`).  The inductive
  invariant `DecisionInv` is the three with `TypeOK` and `WorkerInv` (the phases a worker can be in).
  `CountCalls` and `CountWork` say how the step of one evaluation changes the two
  counts, from the cardinality facts of `FiniteSetTheorems`; `EvalStep` reduces the steps of an
  evaluation to them.
* `OnePlace`, `FatesAreFinal`: `Spec` implies `[]AcceptedIsInOnePlace` and `[][FateStep]_vars` (an
  observation is accepted or refused once, an accepted one reported or given up once).  The first
  is inductive with `HandsInv`: a worker has an observation exactly while it evaluates one.
  `MoveKeepsPlaces` reduces a step to the one observation that moves; `HeadIsTaken` and
  `WorkerLetsGo` are the ways it moves.  The second follows: what a worker reports is what it
  has, so it is accepted still.

* `ManagedAgentsServe`, `OneAgentUnlessAStartFailed`, `OutagesStopNobody`: `Spec` implies `[]ManagedServes` and
  `[]UniqueWhileStartsSucceed` of `SharedRuntime`, for any versions, any finite sets
  of names and of objects, and any number of edits, outages and failures (`SharedAssumption`).  The
  inductive invariant `SharedInv` adds `VictimInv` and `BatchInv` (the phases of an agent whose stop is
  awaited, and of those gather waits for), `LoopInv` (the loops look at what there is)
  and `Accounted`: while no start failed, every agent there is is awaited, being
  stopped or managed, so a name that is to be started has none.  It is `Accounted` that
  a failed gather breaks, as `shared_overlap` shows.  `OutagesStopNobody` proves the action
  property `OutageStopsNobody` with `ListInv` (a reconciliation works on the last list received).
* `StopLeavesOne`: `Spec => []StopLeavesOnePerName`.  `LeftInv` follows the loop's end: behind it every
  agent is managed or being stopped (`Attended`), since `Accounted` held when the cancellation was
  received; nobody is on the way into a group then
  (`NobodyJoins`), so that nothing becomes managed behind the list that stop() goes through.  A
  failed start breaks this: an agent it left alone can become managed while stop() drains.
  The consumers left in a group are bounded by `BehindInv`, on which `OneAgentUnlessAStartFailed` rests
  too: one for each failed stop, and one more once the cancellation was received, which happens
  once (`CancelInv`).

* `ChatTypes`, `AnsweredOnce`, `ChargedIsStored`, `OfferedWaits`: `Spec` implies
  `[]TypeOK`, `[]OneAnswerPerTurn`, `ChargedAnswerIsStored` and `[]OffersWaitingTask` of
  `ChatStream`, for every set of sockets and tasks, any number of streams at a time over
  either store, and all bounds (`ChatAssumption`).
  The first three come from `ChatInv`: `TurnInv` (no two turns under way are the
  same, and an answered one has begun), `AnswerInv` (`assistant_persisted` says
  whether the turn is answered, the phases that store an answer are reached without
  one, and the charge tracker saw content only if an answer is stored or on its way)
  and `StoredInv` (the stored answers are those of the answered turns).
  `QuietStep`, `AppendedStep`, `ReturnStep` and `OtherStep` are the four
  kinds of step.  `OfferedWaits` needs `OfferInv` besides: while one actor at a
  time holds a copy, the record, the copy a turn starts with, one a PATCH has read
  and one with a final status offer only what waits for input, and during a stream
  neither record nor copy offers anything, so that the agent may go on with the
  task.  `AloneStep` reduces a step of the one turn under way to what becomes of
  the record and of that turn.
* `RestTells`, `CountLags`: `Spec` implies `[]RestTellsTheTask` and
  `[]CountLagsByAnswer`.  At rest there is nothing to argue from, so `FaithInv` follows the
  record through the turn, as long as the turn is alone: `ToldAt` (from the final status on the
  copy tells the task's state, and behind its save the record), `CountedAt` (behind the
  user's message the copy counts up to it, behind the answer it lags by it) and `Unmoved` (what a
  new turn or a PATCH has read is what is stored).

* `VoiceTypes`, `HostIsReached`, `SilentIsSpared`: `Spec` implies `[]TypeOK`,
  `[]HostWorkIsReachable` and `[]OnlySparedTurnsAreSilent` of `VoiceSession`, for any texts and
  handlers and all bounds (`VoiceAssumption`).  That a cancel reaches what the host works on
  rests on `LockInv`: the line of the lock has no repetition, it consists of the handlers that
  hold or await it, and the holder is its head, so a second handler cannot take the place of the
  registered delegation.  `FateInv` follows every text that has a key from the microphone to its answer:
  `KnownInv` (nothing is buffered, handled or asked about that was not heard), `SaidInv` (what is
  said is an answer), `CanceledInv` (what was canceled is given up) and `RecentInv` (a
  transcript of the duplicate window is in hand or done with, so that dropping a
  duplicate loses nothing).  A flush divides the texts of the buffer: they go to the handler, are
  left over or are spared (`FragmentsHold`, `FlushDivides`, `FlushCases`), which is why
  `UniqueFragments` is described and not computed.

Model-checked only: liveness (`EveryTaskSettles`, `StartedStreamEnds`, `CallsSettle`,
`ReceivedEndIsSeen`, `EvaluationsEnd`, `CloseCompletes`, `StreamReachesFinal`, `Converges`,
`StopReturns`, `ShutdownEndsWork`, `TurnsEnd`), which needs ENABLED, out of this prover's
reach, and that `UniqueFragments` is what the loop computes, an induction over the buffer.

## Not modelled

* Start, `stop()` and the heartbeat of the agent, and with them the registry and its directory
  (last write wins by Kafka order, expiry by time stamps): `SharedRuntime` has the start and stop
  of agents as steps of its own.
* Local delegation (`shared_runtime._delegate_local`, `stream_message_local` between agents):
  it passes the metadata on without the depth check that `local_tools.py` makes, so what
  bounds a chain of agents is their processors.  The delegation tools are functions over
  prompts and metadata without state of their own.
* The language graph processor, MCP tools, LLM clients, administration, gateway, settings and
  command line: heuristics over texts, I/O, routing, configuration, table operations.
* The database below the chat store and the control plane, the browser, the speech
  pipeline, the host behind the voice worker: external.

## Plan

Done: the agent with its in-memory store, the Redis store, the client, the shared
runtime, the decision service, the chat stream and the voice session.

Modules next, in this order:

1. `stop` and start of the agent in `AgentRuntime`, with the registry heartbeat.
2. `Directory`: registry records, heartbeats, expiry, two agents of one card.
3. The LLM clients' concurrency control, the workflow state of the language graph processor.

Theorems next: those of the modules above.  What `stop()` leaves behind (tasks that stay
working) will weaken `ServedInv` to agents that run.
