--------------------------- MODULE AgentInvariants ---------------------------
(***************************************************************************)
(* The inductive invariants behind the theorems of AgentProofs.            *)
(***************************************************************************)
EXTENDS AgentProperties

\* The phases of a handler before it touched the task it is about, and those
\* in which it works on it.
Before  == {"idle", "dispatched", "waiting", "begin"}
Working == {"created", "configured", "prepared", "fetched", "resumed", "canceled"}

\* A request is engaged with its task once that task must exist.
Engaged(r) == \/ hpc[r] \in Working
              \/ hpc[r] # "idle" /\ kind[r] \notin Creators
              \/ ppc[r] # "none" \/ fpc[r] # "none" \/ rpc[r] # "none"

\* A request that has not arrived has started nothing.
IdleInv == \A r \in Req : hpc[r] = "idle" =>
             ppc[r] = "none" /\ fpc[r] = "none" /\ rpc[r] = "none"

\* A request that has arrived names a task, a creating one its own.
NameInv == \A r \in Req : hpc[r] # "idle" =>
             /\ task[r] \in Req /\ kind[r] \in AllKinds
             /\ kind[r] \in Creators => task[r] = r

\* A task exists only once the handler of its request created it.
BirthInv == \A t \in Req : log[t] # <<>> => hpc[t] \notin Before

\* Whoever works on a task finds it in the store.
ExistInv == \A r \in Req : Engaged(r) => log[task[r]] # <<>>

\* A handler opens its stream once, in its last steps.
FreshInv == \A r \in Req :
  \/ hpc[r] \in Before \cup {"created", "configured", "fetched", "resumed"}
  \/ hpc[r] = "prepared" /\ kind[r] # "stream"
  => fpc[r] = "none"

\* The window a stream sees: what it sent, its history and its queue.
Window(r) == sent[r] \o hist[r] \o queue[r]

\* A stream not yet open has sent nothing and starts inside the log or just
\* behind it.
UnopenedInv == \A r \in Req : fpc[r] \in {"none", "spawned", "lazy"} =>
  /\ sent[r] = <<>>
  /\ from[r] = 2 \/ (hpc[r] # "idle" /\ from[r] <= Len(log[task[r]]) + 1)

\* An open one is subscribed, and its window is the log from its start on.
OpenInv == \A r \in Req : fpc[r] = "open" =>
  /\ r \in subscribed
  /\ from[r] <= Len(log[task[r]]) + 1
  /\ Window(r) = Positions(from[r], Len(log[task[r]]))

\* What any stream sent lies in the log, and a final status came last.
SentInv == \A r \in Req : \A i \in 1 .. Len(sent[r]) :
  /\ sent[r][i] \in 1 .. Len(log[task[r]])
  /\ Final(log[task[r]][sent[r][i]]) => i = Len(sent[r]) /\ fpc[r] \in {"closing", "closed"}

ControlInv == TypeOK /\ IdleInv /\ NameInv
StreamInv  == /\ ControlInv /\ BirthInv /\ ExistInv /\ FreshInv
              /\ UnopenedInv /\ OpenInv /\ SentInv

-----------------------------------------------------------------------------
(* The store in memory: a call of it does not suspend its caller. *)

\* A handler from creating or resuming a task to starting its run or preparation.
Introducing == {"created", "configured", "resumed", "prepared"}

\* What a request of each kind has started at each phase of its handler.
PhaseOf(r) ==
  /\ hpc[r] \notin {"replying", "done"} => ppc[r] = "none" /\ rpc[r] = "none" /\ reply[r] = "none"
  /\ hpc[r] \in {"created", "configured"} => kind[r] \in Creators
  /\ hpc[r] = "fetched" => kind[r] \notin Creators
  /\ hpc[r] = "resumed" => kind[r] \in Resumers
  /\ hpc[r] = "prepared" => kind[r] \in (Creators \cup Resumers) \ {"send", "continueStream"}
  /\ hpc[r] = "canceled" => kind[r] = "cancel"
  /\ ppc[r] # "none" => kind[r] \in {"send", "continueStream"}
  /\ ppc[r] \in {"spawned", "preparing"} => rpc[r] = "none"

PhaseInv == \A r \in Req : PhaseOf(r)

\* Between two calls of the store a coroutine keeps the event loop.
TurnOf(r) ==
  /\ hpc[r] \in Working \cup {"begin"} => loop = <<"handler", r>>
  /\ ppc[r] = "preparing" => loop = <<"prepare", r>>
  /\ ppc[r] # "failed"
  /\ rpc[r] \in {"appended", "reported", "open", "leaving", "finally"} => loop = <<"run", r>>

TurnInv == \A r \in Req : TurnOf(r)

\* A request that is about to start a run of its task.
Starting(r) == hpc[r] \in Introducing \/ ppc[r] \in {"spawned", "preparing"}

\* The status of a task tells who works on it.
StatusOf(r) ==
  /\ hpc[r] \in Introducing => status[task[r]] = "submitted"
  /\ hpc[r] = "fetched" /\ kind[r] \in Resumers => status[task[r]] \in Resumable
  /\ ppc[r] \in {"spawned", "preparing"} => status[task[r]] \in {"submitted", "canceled"}
  /\ rpc[r] \in {"reported", "leaving", "finally"} => status[task[r]] \in FinalStates
  /\ cancelReq[r] => Live(r) /\ status[task[r]] = "canceled"

StatusInv == \A r \in Req : StatusOf(r)

\* Whoever is about to start a run of a task is alone with it.
SoleInv == \A r, u \in Req :
  Starting(r) /\ task[u] = task[r] => ~Live(u) /\ (Starting(u) => u = r)

\* A registered run is, or was, a run of the task.
OwnInv == \A t \in Req : processing[t] # NoReq =>
  task[processing[t]] = t /\ rpc[processing[t]] # "none"

\* An open task is worked on.
Serving(r) == Starting(r) \/ (Live(r) /\ ~cancelReq[r])
ServedInv == \A t \in Req : status[t] \in {"submitted", "working"} =>
  \E r \in Req : task[r] = t /\ Serving(r)

WorkInv   == StatusInv /\ SoleInv /\ OwnInv /\ LiveRunIsRegistered /\ ServedInv
MemoryInv == StreamInv /\ PhaseInv /\ TurnInv /\ WorkInv

\* A handler that has not run yet is in the ready queue, once at most.
QueueInv ==
  /\ \A c \in Req, i \in 1 .. Len(ready) : ready[i] = <<"handler", c>> => hpc[c] = "dispatched"
  /\ \A c \in Req, i, j \in 1 .. Len(ready) :
       ready[i] = <<"handler", c>> /\ ready[j] = <<"handler", c>> => i = j

\* The handlers that name the task of request r have not run yet, and the
\* preparation of r is before them in the ready queue.
Leads(r) == \A c \in Req \ {r} : hpc[c] # "idle" /\ task[c] = r =>
  /\ hpc[c] = "dispatched"
  /\ \A i, j \in 1 .. Len(ready) :
       ready[i] = <<"prepare", r>> /\ ready[j] = <<"handler", c>> => i < j

\* The preparation of a message/send comes before whatever names its task.
LineOf(r) ==
  /\ hpc[r] \in {"created", "configured"} => \A c \in Req \ {r} : hpc[c] = "idle" \/ task[c] # r
  /\ ppc[r] = "spawned" => \E i \in 1 .. Len(ready) : ready[i] = <<"prepare", r>>
  /\ ppc[r] = "spawned" /\ kind[r] = "send" => Leads(r)
  /\ ppc[r] \in {"spawned", "preparing"} /\ kind[r] = "send" => status[task[r]] = "submitted"

LineInv  == \A r \in Req : LineOf(r)
QuietInv == MemoryInv /\ QueueInv /\ LineInv

\* No task is named by a request that does not create one.
NamelessInv == \A r \in Req : hpc[r] # "idle" /\ kind[r] \notin Creators => log[r] = <<>>
AnswerInv   == MemoryInv /\ NamelessInv /\ ErrorLeavesNothing

\* Who appended an event and has still to enqueue it.
OwesOf(r) ==
  /\ pend[<<"handler", r>>] # 0 <=> hpc[r] \in {"resumed", "canceled"}
  /\ pend[<<"run", r>>] # 0 <=> rpc[r] \in {"appended", "reported"}
  /\ pend[<<"prepare", r>>] = 0 /\ pend[<<"forward", r>>] = 0

\* That event is the last of its log, and the queued ones are earlier.
LastOf(a) == pend[a] # 0 =>
  /\ pend[a] = Len(log[task[a[2]]])
  /\ \A i \in 1 .. Len(pushq) : pushq[i][1] = task[a[2]] => pushq[i][2] < pend[a]

OweInv ==
  /\ \A r \in Req : OwesOf(r)
  /\ \A a \in Actor : LastOf(a)
  /\ \A i \in 1 .. Len(pushq) : pushq[i][2] <= Len(log[pushq[i][1]])
  /\ PushInLogOrder
PushInv == MemoryInv /\ OweInv
=============================================================================
