--------------------------- MODULE AgentProperties ---------------------------
(***************************************************************************)
(* What the agent runtime owes its clients, stated over AgentRuntime.      *)
(***************************************************************************)
EXTENDS AgentRuntime

HandlerPhase == {"idle", "dispatched", "waiting", "begin", "created", "configured", "prepared",
                 "fetched", "resumed", "canceled", "replying", "done"}
PreparePhase == {"none", "spawned", "preparing", "failed", "done"}
RunPhase     == {"none", "spawned", "appended", "reported", "processing", "open", "leaving",
                 "finally", "done"}
StreamPhase  == {"none", "spawned", "lazy", "open", "closing", "closed"}

StoreType ==
  /\ status \in [Req -> States \cup {"none"}]
  /\ log \in [Req -> Seq(Event)]
  /\ configs \in [Req -> SUBSET Config]
  /\ subscribed \in SUBSET Req
  /\ queue \in [Req -> Seq(Nat)]

HandlerType ==
  /\ hpc \in [Req -> HandlerPhase]
  /\ kind \in [Req -> AllKinds \cup {"none"}]
  /\ task \in [Req -> Req \cup {NoReq}]
  /\ reply \in [Req -> {"none", "ok", "error"}]

StreamType ==
  /\ fpc \in [Req -> StreamPhase]
  /\ from \in [Req -> Nat \ {0}]
  /\ hist \in [Req -> Seq(Nat)]
  /\ sent \in [Req -> Seq(Nat)]

RunType ==
  /\ rpc \in [Req -> RunPhase]
  /\ cancelReq \in [Req -> BOOLEAN]
  /\ processing \in [Req -> Req \cup {NoReq}]

LoopType ==
  /\ ready \in Seq(Actor)
  /\ loop \in Actor \cup {Idle}

PushType ==
  /\ pend \in [Actor -> Nat]
  /\ pushq \in Seq(Req \X Nat)
  /\ pushing \in [task : Req \cup {NoReq}, n : Nat, todo : SUBSET Config]

\* The variables have the types the runtime gives them.
TypeOK ==
  /\ StoreType /\ HandlerType /\ StreamType /\ RunType /\ LoopType /\ PushType
  /\ ppc \in [Req -> PreparePhase]

-----------------------------------------------------------------------------
(* Streams *)

\* What an open stream has sent, has left of its history and has queued is,
\* in this order, every position of the task's log from its start on: a
\* subscriber loses no event and gets none twice, however appends, the
\* subscription and the sends interleave (subscribe, _fanout_locked, iter_events).
OpenStreamLosesNothing ==
  \A r \in Req : fpc[r] = "open" =>
    sent[r] \o hist[r] \o queue[r] = Positions(from[r], Len(log[task[r]]))

\* A final status is the last thing a stream sends (the break of _forward).
StreamStopsAtFinal ==
  \A r \in Req : \A i \in DOMAIN sent[r] :
    Final(log[task[r]][sent[r][i]]) => i = Len(sent[r]) /\ fpc[r] \in {"closing", "closed"}

\* Store and streams implement the event feed.
Feed == INSTANCE EventFeed WITH
  Stream <- Req, Task <- Req,
  watch <- [r \in Req |-> IF fpc[r] \in {"open", "closing", "closed"} THEN {task[r]} ELSE {}],
  from <- [r \in Req |-> IF fpc[r] \in {"open", "closing", "closed"} THEN from[r] ELSE 0],
  received <- [r \in Req |-> [i \in DOMAIN sent[r] |-> log[task[r]][sent[r][i]]]]

ImplementsFeed == Feed!Spec

-----------------------------------------------------------------------------
(* Runs *)

\* The run registered for a task is its only unfinished one: a cancel reaches
\* the run it means and no task is processed twice at a time (_processing).
LiveRunIsRegistered ==
  \A u \in Req : Live(u) => processing[task[u]] = u

\* A task that is submitted or working has a coroutine that will move it on: a
\* handler between creating and starting, a preparation, or an uncancelled run.
OpenTaskHasWorker ==
  \A t \in Req : status[t] \in {"submitted", "working"} =>
    \E r \in Req : /\ task[r] = t
                   /\ \/ hpc[r] \in {"created", "configured", "resumed", "prepared"}
                      \/ ppc[r] \in {"spawned", "preparing"}
                      \/ Live(r) /\ ~cancelReq[r]

\* A run of a canceled task that nothing stops: unfinished, and no cancel pending.
Undying(u) ==
  Live(u) /\ status[task[u]] = "canceled" /\ ~cancelReq[u] /\ rpc[u] # "finally"

\* A step adds to them at most the run of a streaming continue whose preparation ends.
NothingRevives ==
  \A u \in Req : Undying(u)' => Undying(u) \/ (kind[u] = "continueStream" /\ ppc[u] = "preparing")

\* A cancel stops every run its task has, whoever started it, and no run of a
\* canceled task starts afterwards; the one exception is the run that the pending
\* preparation of a streaming continue starts when it ends (tasks/cancel finds no
\* run to cancel while one is being prepared).
CanceledTaskIsQuiet == [][NothingRevives]_vars

\* A request answered with an error left nothing running behind.
ErrorLeavesNothing ==
  \A r \in Req : reply[r] = "error" =>
    rpc[r] = "none" /\ ppc[r] = "none" /\ fpc[r] = "none" /\ log[r] = <<>>

\* In the end every task rests in a final status (or waits for its user).
EveryTaskSettles == <>[](\A t \in Req : log[t] # <<>> => status[t] \in FinalStates)

\* A stream opened with a task's creation or with its continuation ends.
StartedStreamEnds ==
  \A r \in Req : (kind[r] \in Creators \cup Resumers /\ fpc[r] = "open") ~> (fpc[r] = "closed")

-----------------------------------------------------------------------------
(* Push notifications *)

\* A task's events wait for delivery in the order of its log.
PushInLogOrder ==
  \A i, j \in DOMAIN pushq : i < j /\ pushq[i][1] = pushq[j][1] => pushq[i][2] < pushq[j][2]
=============================================================================
