----------------------------- MODULE ChatStream -----------------------------
(***************************************************************************)
(* One conversation of mainapps/chat: the web sockets that stream a turn   *)
(* of the user through an agent (views.py), the requests that patch and    *)
(* delete it, the store under both (storage.py, db.py) and the charge for  *)
(* a completed answer (intera_coins.py).                                   *)
(*                                                                         *)
(* A record is saved as a whole, from the copy a stream or a request read  *)
(* earlier.  The store is the one in memory, which the database equals     *)
(* (one transaction per call), or Redis, which appends in three commands   *)
(* and saves without a look.  Contents are reduced to whether there is     *)
(* any; the agent's side is modelled by the events it may send.            *)
(***************************************************************************)
EXTENDS Integers, Sequences, FiniteSets

CONSTANTS
  Socket,    \* web sockets open on the conversation
  Task,      \* tasks the agent may create
  Streams,   \* bound: for each kind of store to start with, streams at a time
  None,      \* no task, no record
  MaxTurns,  \* bound: turns of the user
  MaxPatches \* bound: PATCH requests

Outcomes == {"completed", "failed", "input-required"}

\* A record: what the conversation says of a task to resume, of the last one, and
\* of its messages.
Record == [awaiting : BOOLEAN, resume : Task \cup {None}, last : Task \cup {None},
           state : Outcomes \cup {"working", "unused"}, count : Nat]

ASSUME ChatAssumption ==
  /\ DOMAIN Streams \subseteq {"memory", "redis"}
  /\ MaxTurns \in Nat /\ MaxPatches \in Nat
  /\ None \notin Task \cup Record

VARIABLES
  store,      \* the kind of store
  conv,       \* the stored record, None when deleted
  messages,   \* the stored messages
  counter,    \* Redis: the sequence key
  agent,      \* state of each task at the agent
  turns,      \* turns begun
  pc, turn,   \* a socket's phase and the turn it streams
  copy,       \* its copy of the record
  resume,     \* resume_task_id of the turn
  task,       \* the task its stream is about
  event,      \* the event being handled
  persisted,  \* assistant_persisted
  seen,       \* assistant_result_seen of the charge tracker
  held, drawn,  \* Redis: record read and number drawn by an append under way
  patch,      \* the record a PATCH has read
  patches,    \* PATCH requests so far
  answered, charged, abandoned, overlapped   \* history

database == <<store, conv, messages, counter>>
local    == <<turn, copy, resume, task, event, persisted, seen>>
append   == <<held, drawn>>
patching == <<patch, patches>>
history  == <<answered, charged, abandoned, overlapped>>
vars == <<database, agent, turns, pc, local, append, patching, history>>

\* An event: what it is and, for a final status, the state and who wrote its message
\* (nobody, if that has no content).
Author == {"nobody", "user", "agent"}
Plain(kind) == [kind |-> kind, state |-> "working", by |-> "nobody"]

\* Back in the loop, what the event was does not matter any more.
Done(s) == event' = [event EXCEPT ![s] = Plain("status")]

GoTo(s, phase) == pc' = [pc EXCEPT ![s] = phase]
Busy == {s \in Socket : pc[s] # "idle"}

\* Another actor holds a copy of the record at the same time.
Overlaps(others) == overlapped' = (overlapped \/ others)

\* The call returns or raises, and its locals are gone with it.
Return(s) ==
  /\ GoTo(s, "idle")
  /\ turn' = [turn EXCEPT ![s] = 0]
  /\ copy' = [copy EXCEPT ![s] = None]
  /\ resume' = [resume EXCEPT ![s] = None]
  /\ task' = [task EXCEPT ![s] = None]
  /\ event' = [event EXCEPT ![s] = Plain("turn")]
  /\ persisted' = [persisted EXCEPT ![s] = FALSE]
  /\ seen' = [seen EXCEPT ![s] = FALSE]
  /\ held' = [held EXCEPT ![s] = None]
  /\ drawn' = [drawn EXCEPT ![s] = 0]

\* An exception of a send, of the store or of the agent ends the turn half-way.
Leave(s) ==
  /\ Return(s)
  /\ abandoned' = abandoned \cup {turn[s]}
  /\ UNCHANGED <<database, agent, turns, patching, answered, charged, overlapped>>

-----------------------------------------------------------------------------
(* The turn up to the agent's stream *)

\* message.send on a socket, get_conversation: the copy the turn starts with.
Receive(s) ==
  /\ pc[s] = "idle" /\ conv # None
  /\ turns < MaxTurns /\ Cardinality(Busy) < Streams[store]
  /\ turns' = turns + 1
  /\ turn' = [turn EXCEPT ![s] = turns + 1]
  /\ copy' = [copy EXCEPT ![s] = conv]
  /\ GoTo(s, "config")
  /\ Overlaps(Busy # {} \/ patch # None)
  /\ UNCHANGED <<database, agent, resume, task, event, persisted, seen, append, patching,
                 answered, charged, abandoned>>

\* save_conversation of a copy, unless the store finds that it was deleted;
\* Redis sets the key whatever it held.
Save(record) ==
  /\ store = "redis" \/ conv # None
  /\ conv' = record
  /\ UNCHANGED <<store, messages, counter>>

\* The agent's names are refreshed and saved.  The turn resumes the task that
\* asked for input, unless that wants a structured reply and this is none.
SaveConfig(s) ==
  /\ pc[s] = "config"
  /\ Save(copy[s])
  /\ \E t \in {None, copy[s].resume} :
       resume' = [resume EXCEPT ![s] = IF copy[s].awaiting THEN t ELSE None]
  /\ GoTo(s, "user")
  /\ UNCHANGED <<agent, turns, turn, copy, task, event, persisted, seen, append, patching, history>>

\* The user's message names the task it resumes, the answer the one streamed.
Message(s, sequence) ==
  [role |-> IF pc[s] = "user" THEN "user" ELSE "assistant",
   turn |-> turn[s], sequence |-> sequence]
Named(s) == IF pc[s] = "user" THEN resume[s] ELSE task[s]

\* append_message of the store: the message, and what the record says of it.
Store(s, record, sequence) ==
  /\ messages' = Append(messages, Message(s, sequence))
  /\ conv' = [record EXCEPT !.count = sequence,
                            !.last = IF Named(s) = None THEN @ ELSE Named(s)]

\* Mutant: the answer stored from the result artifact is not remembered.
RememberedFinal(s) == persisted[s] \/ (pc[s] = "answer" /\ event[s].kind = "final")

\* assistant_persisted behind an append.
Remembered(s) == persisted[s] \/ pc[s] = "answer"

\* Behind an append: the user's message is followed by a new look at the record,
\* the answer by the next event, or the charge when the event was the last.
Appended(s) ==
  /\ IF pc[s] = "answer" /\ event[s].kind = "result"
     THEN GoTo(s, "listen") /\ Done(s)
     ELSE /\ GoTo(s, IF pc[s] = "user" THEN "reget" ELSE "charge")
          /\ UNCHANGED event
  /\ persisted' = [persisted EXCEPT ![s] = Remembered(s)]
  /\ answered' = IF pc[s] = "answer" THEN answered \cup {turn[s]} ELSE answered
  /\ UNCHANGED <<agent, turns, turn, copy, resume, task, seen, patching,
                 charged, abandoned, overlapped>>

AppendMessage(s) ==
  /\ store = "memory"
  /\ pc[s] \in {"user", "answer"} /\ conv # None
  /\ Store(s, conv, Len(messages) + 1)
  /\ Appended(s)
  /\ UNCHANGED <<store, counter, append>>

\* Over Redis the record is read, a number drawn, and both written.
RedisRead(s) ==
  /\ store = "redis"
  /\ pc[s] \in {"user", "answer"} /\ held[s] = None /\ conv # None
  /\ held' = [held EXCEPT ![s] = conv]
  /\ UNCHANGED <<database, agent, turns, pc, local, drawn, patching, history>>

RedisDraw(s) ==
  /\ held[s] # None /\ drawn[s] = 0
  /\ counter' = counter + 1
  /\ drawn' = [drawn EXCEPT ![s] = counter + 1]
  /\ UNCHANGED <<store, conv, messages, agent, turns, pc, local, held, patching, history>>

RedisWrite(s) ==
  /\ held[s] # None /\ drawn[s] > 0
  /\ Store(s, held[s], drawn[s])
  /\ held' = [held EXCEPT ![s] = None]
  /\ drawn' = [drawn EXCEPT ![s] = 0]
  /\ Appended(s)
  /\ UNCHANGED <<store, counter>>

\* append_activity goes before the save and is refused when the conversation is gone.
\* In memory it adds nothing to the save's own refusal.
LogAndSave == IF store = "redis" THEN "log" ELSE "save"

\* Mutant: what the task waited for is not cleared.
ReopenedStillWaiting(record) == [record EXCEPT !.state = "working"]

\* The record is turned to a task that works.
Reopened(record) ==
  [record EXCEPT !.awaiting = FALSE, !.resume = None, !.state = "working"]

\* Mutant: the copy from before the append is used on.
RegetNothing(s) ==
  /\ pc[s] = "reget" /\ conv # None
  /\ copy' = [copy EXCEPT ![s] = Reopened(@)]
  /\ GoTo(s, LogAndSave)
  /\ UNCHANGED <<database, agent, turns, turn, resume, task, event, persisted, seen,
                 append, patching, history>>

\* The record is read again.
Reget(s) ==
  /\ pc[s] = "reget" /\ conv # None
  /\ copy' = [copy EXCEPT ![s] = Reopened(conv)]
  /\ GoTo(s, LogAndSave)
  /\ UNCHANGED <<database, agent, turns, turn, resume, task, event, persisted, seen,
                 append, patching, history>>

Log(s) ==
  /\ pc[s] = "log" /\ conv # None
  /\ GoTo(s, "save")
  /\ UNCHANGED <<database, agent, turns, local, append, patching, history>>

\* _save_conversation_update, and what each event goes on with: a message of the user
\* is no answer, though the final status carries it.
AfterSave(s) ==
  CASE event[s].kind = "turn" -> "start"
    [] event[s].kind = "result" -> "answer"
    [] event[s].kind = "final" ->
         IF event[s].by = "agent" /\ ~persisted[s] THEN "answer" ELSE "charge"
    [] OTHER -> "listen"

SaveCopy(s) ==
  /\ pc[s] = "save"
  /\ Save(copy[s])
  /\ GoTo(s, AfterSave(s))
  /\ IF AfterSave(s) = "listen" THEN Done(s) ELSE UNCHANGED event
  /\ UNCHANGED <<agent, turns, turn, copy, resume, task, persisted, seen, append, patching,
                 history>>

\* The store raises KeyError, or the second look finds no conversation.
NotFound(s) ==
  /\ conv = None
  /\ \/ pc[s] \in {"reget", "log"}
     \/ pc[s] \in {"user", "answer"} /\ held[s] = None
     \/ pc[s] \in {"config", "save"} /\ store = "memory"
  /\ Leave(s)

-----------------------------------------------------------------------------
(* The agent's stream *)

\* stream_message: the agent creates a task.
StartTask(s) ==
  /\ pc[s] = "start" /\ resume[s] = None
  /\ \E t \in Task :
       /\ agent[t] = "unused"
       /\ agent' = [agent EXCEPT ![t] = "working"]
       /\ task' = [task EXCEPT ![s] = t]
  /\ GoTo(s, "listen")
  /\ UNCHANGED <<database, turns, turn, copy, resume, event, persisted, seen, append, patching, history>>

\* continue_task_stream: refused unless the task waits for input.
ContinueTask(s) ==
  /\ pc[s] = "start" /\ resume[s] # None
  /\ IF agent[resume[s]] = "input-required"
     THEN /\ agent' = [agent EXCEPT ![resume[s]] = "working"]
          /\ task' = [task EXCEPT ![s] = resume[s]]
          /\ GoTo(s, "listen")
          /\ UNCHANGED <<database, turns, turn, copy, resume, event, persisted, seen,
                         append, patching, history>>
     ELSE Leave(s)

\* A new task is announced first.
FirstOfNew(s) == event[s].kind = "turn" /\ resume[s] = None

\* The handling of an event: it changes the copy, which is saved next.
Handle(s, e, record, phase) ==
  /\ event' = [event EXCEPT ![s] = e]
  /\ copy' = [copy EXCEPT ![s] = record]
  /\ GoTo(s, phase)
  /\ UNCHANGED <<database, turns, turn, resume, task, persisted, append, patching, history>>

\* What the record takes from a task or a status that is not final.
Reported(record, t) == [record EXCEPT !.last = t, !.state = "working"]

TaskEvent(s) ==
  /\ pc[s] = "listen" /\ FirstOfNew(s)
  /\ Handle(s, Plain("task"), Reported(copy[s], task[s]), LogAndSave)
  /\ UNCHANGED <<agent, seen>>

\* A status that is not final; a delegation artifact is handled the same way.
StatusEvent(s) ==
  /\ pc[s] = "listen" /\ ~FirstOfNew(s)
  /\ Handle(s, Plain("status"), Reported(copy[s], task[s]), LogAndSave)
  /\ UNCHANGED <<agent, seen>>

\* The result artifact: the first one with content is stored as the answer, and
\* content is what the charge tracker looks for.
ResultArtifact(s) ==
  /\ pc[s] = "listen" /\ ~FirstOfNew(s)
  /\ \E content \in BOOLEAN :
       /\ IF content /\ ~persisted[s]
          THEN Handle(s, Plain("result"), copy[s], LogAndSave)
          ELSE Handle(s, Plain("status"), copy[s], "listen")
       /\ seen' = [seen EXCEPT ![s] = @ \/ content]
  /\ UNCHANGED agent

\* Mutant: a task that asks for input is not offered for resumption.
EndedForGood(record, t, state) ==
  [record EXCEPT !.last = t, !.state = state, !.awaiting = FALSE, !.resume = None]

\* A task that waits for input can be resumed.
Ended(record, t, state) ==
  [record EXCEPT !.last = t, !.state = state,
                 !.awaiting = (state = "input-required"),
                 !.resume = IF state = "input-required" THEN t ELSE None]

\* The final status ends the stream.
FinalStatus(s) ==
  /\ pc[s] = "listen" /\ ~FirstOfNew(s)
  /\ \E state \in Outcomes, by \in Author :
       /\ agent' = [agent EXCEPT ![task[s]] = state]
       /\ Handle(s, [kind |-> "final", state |-> state, by |-> by],
                 Ended(copy[s], task[s], state), LogAndSave)
  /\ UNCHANGED seen

\* Mutant: whatever completed is charged, with or without an answer.
ChargeableEmpty(s) == event[s].state = "completed"

\* A2ACompletionChargeTracker.evaluate on the final status: it does not ask who wrote
\* the message.
Chargeable(s) == event[s].state = "completed" /\ (seen[s] \/ event[s].by # "nobody")

\* The charge, which the service may not take; then typing.stopped.
Charge(s) ==
  /\ pc[s] = "charge"
  /\ charged' \in IF Chargeable(s) THEN {charged, charged \cup {turn[s]}} ELSE {charged}
  /\ Return(s)
  /\ UNCHANGED <<database, agent, turns, patching, answered, abandoned, overlapped>>

\* The client is gone, or a send, the store or the agent's stream raises.
Abandon(s) == pc[s] # "idle" /\ Leave(s)

\* The agent goes on with a task nobody streams; that it failed or completed is the
\* same to a chat that does not look any more.
AgentAlone(t) ==
  /\ agent[t] = "working"
  /\ \A s \in Busy : task[s] # t
  /\ \E state \in {"completed", "input-required"} : agent' = [agent EXCEPT ![t] = state]
  /\ UNCHANGED <<database, turns, pc, local, append, patching, history>>

-----------------------------------------------------------------------------
(* The other requests *)

\* PATCH reads the record, changes title, status or length, and saves all of it.
PatchRead ==
  /\ patch = None /\ conv # None /\ patches < MaxPatches
  /\ patches' = patches + 1
  /\ patch' = conv
  /\ Overlaps(Busy # {})
  /\ UNCHANGED <<database, agent, turns, pc, local, append, answered, charged, abandoned>>

PatchSave ==
  /\ patch # None
  /\ \/ Save(patch)
     \/ conv = None /\ store = "memory" /\ UNCHANGED database
  /\ patch' = None
  /\ UNCHANGED <<patches, agent, turns, pc, local, append, history>>

DeleteConversation ==
  /\ conv # None
  /\ conv' = None
  /\ messages' = <<>>
  /\ counter' = 0
  /\ Overlaps(Busy # {} \/ patch # None)
  /\ UNCHANGED <<store, agent, turns, pc, local, append, patching, answered, charged, abandoned>>

-----------------------------------------------------------------------------
Init ==
  /\ store \in DOMAIN Streams
  /\ conv = [awaiting |-> FALSE, resume |-> None, state |-> "unused", last |-> None, count |-> 0]
  /\ messages = <<>>
  /\ counter = 0
  /\ agent = [t \in Task |-> "unused"]
  /\ turns = 0
  /\ pc = [s \in Socket |-> "idle"]
  /\ turn = [s \in Socket |-> 0]
  /\ copy = [s \in Socket |-> None]
  /\ resume = [s \in Socket |-> None]
  /\ task = [s \in Socket |-> None]
  /\ event = [s \in Socket |-> Plain("turn")]
  /\ persisted = [s \in Socket |-> FALSE]
  /\ seen = [s \in Socket |-> FALSE]
  /\ held = [s \in Socket |-> None]
  /\ drawn = [s \in Socket |-> 0]
  /\ patch = None /\ patches = 0
  /\ answered = {} /\ charged = {} /\ abandoned = {} /\ overlapped = FALSE

Stream(s) ==
  \/ SaveConfig(s) \/ AppendMessage(s) \/ RedisRead(s) \/ RedisDraw(s) \/ RedisWrite(s)
  \/ Reget(s) \/ Log(s) \/ SaveCopy(s) \/ NotFound(s)
  \/ StartTask(s) \/ ContinueTask(s)
  \/ TaskEvent(s) \/ StatusEvent(s) \/ ResultArtifact(s) \/ FinalStatus(s)
  \/ Charge(s)

Next ==
  \/ \E s \in Socket : Receive(s) \/ Stream(s) \/ Abandon(s)
  \/ \E t \in Task : AgentAlone(t)
  \/ PatchRead \/ PatchSave \/ DeleteConversation

Spec == Init /\ [][Next]_vars

-----------------------------------------------------------------------------
(* Properties *)

Event == [kind : {"turn", "task", "status", "result", "final"},
          state : Outcomes \cup {"working"}, by : Author]
Phases == {"idle", "config", "user", "reget", "log", "save", "start", "listen", "answer", "charge"}

\* Every variable keeps its type, a turn under way has its copy of the record, and
\* only an append has read it for its own use.
TypeOK ==
  /\ store \in {"memory", "redis"}
  /\ conv \in Record \cup {None}
  /\ messages \in Seq([role : {"user", "assistant"}, turn : Nat, sequence : Nat])
  /\ counter \in Nat /\ turns \in Nat
  /\ agent \in [Task -> Outcomes \cup {"working", "unused"}]
  /\ pc \in [Socket -> Phases] /\ turn \in [Socket -> Nat]
  /\ copy \in [Socket -> Record \cup {None}]
  /\ \A s \in Busy : copy[s] \in Record
  /\ resume \in [Socket -> Task \cup {None}] /\ task \in [Socket -> Task \cup {None}]
  /\ event \in [Socket -> Event]
  /\ persisted \in [Socket -> BOOLEAN] /\ seen \in [Socket -> BOOLEAN]
  /\ held \in [Socket -> Record \cup {None}] /\ drawn \in [Socket -> Nat]
  /\ \A s \in Socket : held[s] # None => store = "redis" /\ pc[s] \in {"user", "answer"}
  /\ patch \in Record \cup {None} /\ patches \in Nat
  /\ answered \subseteq Nat /\ charged \subseteq Nat /\ abandoned \subseteq Nat
  /\ overlapped \in BOOLEAN

\* However a turn's stream carries its answer, as a result artifact, as the
\* message of the final status or as both, it is stored once (assistant_persisted).
OneAnswerPerTurn ==
  \A i, j \in DOMAIN messages :
    i # j /\ messages[i].role = "assistant" /\ messages[j].role = "assistant"
      => messages[i].turn # messages[j].turn

\* A turn that ends with a message of the user and had no result artifact.
Echoed(s) == event[s].kind = "final" /\ event[s].by = "user" /\ ~seen[s]

\* What a step charges for is stored by then.
ChargeStep ==
  \A n \in charged' \ charged : n \in answered \/ \E s \in Socket : turn[s] = n /\ Echoed(s)

\* Nobody pays for an answer that was not stored: the charge follows the append
\* on every path, whatever failed or was deleted on the way.  The one exception is a
\* final status whose message the user wrote: the chat does not store it (message_role),
\* and the charge tracker takes its content for an answer.
ChargedAnswerIsStored == [][ChargeStep]_vars

\* A conversation that offers to resume a task offers one that waits for input,
\* though streams were left half-way, as long as no two actors held a copy at a time.
OffersWaitingTask ==
  ~overlapped /\ conv # None /\ conv.awaiting
    => conv.resume # None /\ agent[conv.resume] = "input-required"

\* When the last turn was not left half-way, the conversation at rest says of its
\* last task what the agent says of it.
RestTellsTheTask ==
  ~overlapped /\ Busy = {} /\ conv # None /\ turns > 0 /\ turns \notin abandoned
    => /\ conv.last # None /\ conv.state = agent[conv.last]
       /\ conv.awaiting <=> agent[conv.last] = "input-required"

\* message_count is the number of the last message, or, when a save behind the
\* answer took it back with the copy, of the one before: never further behind.
\* (Over Redis a number can be drawn and no message written.)
CountLagsByAnswer ==
  ~overlapped /\ conv # None /\ messages # <<>>
    => LET last == Len(messages)
       IN \/ conv.count = messages[last].sequence
          \/ /\ messages[last].role = "assistant"
             /\ conv.count = messages[last - 1].sequence

=============================================================================
