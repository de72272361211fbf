----------------------------- MODULE ChatProofs -----------------------------
(***************************************************************************)
(* Proofs about ChatStream, for every set of sockets and tasks, both kinds *)
(* of store and all bounds: the types, one answer per turn, no charge      *)
(* without a stored answer, and what an undisturbed record offers to       *)
(* resume, tells of its last task and counts of its messages.              *)
(***************************************************************************)
EXTENDS ChatStream, TLAPS

\* While the result artifact is on its way into the store.
Storing(s) == event[s].kind = "result" /\ pc[s] \in {"log", "save", "answer"}

\* assistant_persisted says whether the turn is answered, and the phases in which an
\* answer is stored or charged are reached accordingly.
AnswerAt(s) ==
  /\ pc[s] = "idle" => ~persisted[s] /\ ~seen[s]
  /\ pc[s] # "idle" => (persisted[s] <=> turn[s] \in answered)
  /\ pc[s] \in {"idle", "config", "user", "reget", "start"} => event[s].kind = "turn"
  /\ Storing(s) \/ pc[s] = "answer" => ~persisted[s]
  /\ seen[s] => persisted[s] \/ Storing(s)
  /\ pc[s] = "answer" => event[s].kind \in {"result", "final"}
  /\ pc[s] = "charge" => event[s].kind = "final" /\ (event[s].by = "agent" => persisted[s])
AnswerInv == \A s \in Socket : AnswerAt(s)

\* No two turns under way are the same, and none is yet to begin.
TurnInv ==
  /\ answered \subseteq 1..turns
  /\ \A s \in Busy : turn[s] \in 1..turns
  /\ \A s, t \in Busy : turn[s] = turn[t] => s = t

\* The stored answers are those of the answered turns, each once.
StoredInv ==
  /\ \A i \in DOMAIN messages : messages[i].role = "assistant" => messages[i].turn \in answered
  /\ OneAnswerPerTurn

ChatInv == TypeOK /\ TurnInv /\ AnswerInv /\ StoredInv

-----------------------------------------------------------------------------
(* Undisturbed: one actor holds a copy at a time *)

\* What a record offers to resume waits for input.
Offers(record) ==
  record.awaiting => record.resume \in Task /\ agent[record.resume] = "input-required"

\* The stream has begun, and its final status has not come.
Streaming(s) ==
  \/ pc[s] \in {"start", "listen"}
  \/ pc[s] \in {"log", "save", "answer"} /\ event[s].kind \notin {"turn", "final"}

Alone ==
  /\ \A s, t \in Busy : s = t
  /\ Busy # {} => patch = None /\ conv # None
  /\ patch # None => Offers(patch)

OfferedAt(s) ==
  /\ pc[s] = "config" => Offers(copy[s])
  /\ held[s] # None => held[s] = conv
  /\ Streaming(s) => ~conv.awaiting /\ ~copy[s].awaiting
  /\ pc[s] \in {"log", "save"} /\ event[s].kind = "turn" => ~copy[s].awaiting
  /\ pc[s] \in {"log", "save"} /\ event[s].kind = "final" => ~conv.awaiting /\ Offers(copy[s])

Undisturbed ==
  /\ Alone
  /\ conv # None => Offers(conv)
  /\ \A s \in Socket : OfferedAt(s)

OfferInv == ~overlapped => Undisturbed

\* A stream is about a task.
TaskInv == \A s \in Socket : Streaming(s) /\ pc[s] # "start" => task[s] \in Task

-----------------------------------------------------------------------------
(* Types *)

\* Events without a state and without a message are events.
LEMMA Plains == \A k \in {"turn", "task", "status", "result", "final"} : Plain(k) \in Event
BY DEF Plain, Event, Author

\* What a stream writes into its copy of the record leaves it a record.
LEMMA Records ==
  \A r \in Record, t \in Task \cup {None} :
    /\ Reopened(r) \in Record
    /\ Reported(r, t) \in Record
    /\ \A state \in Outcomes : Ended(r, t, state) \in Record
    /\ \A n \in Nat : [r EXCEPT !.count = n, !.last = IF t = None THEN @ ELSE t] \in Record
<1> SUFFICES ASSUME NEW r \in Record, NEW t \in Task \cup {None}
             PROVE  /\ Reopened(r) \in Record
                    /\ Reported(r, t) \in Record
                    /\ \A state \in Outcomes : Ended(r, t, state) \in Record
                    /\ \A n \in Nat : [r EXCEPT !.count = n, !.last = IF t = None THEN @ ELSE t] \in Record
  OBVIOUS
<1>1. Reopened(r) \in Record
  BY DEF Record, Reopened
<1>2. Reported(r, t) \in Record
  BY DEF Record, Reported
<1>3. ASSUME NEW state \in Outcomes PROVE Ended(r, t, state) \in Record
  <2>1. (IF state = "input-required" THEN t ELSE None) \in Task \cup {None}
    OBVIOUS
  <2> QED
    BY <2>1 DEF Record, Ended
<1>4. ASSUME NEW n \in Nat
      PROVE [r EXCEPT !.count = n, !.last = IF t = None THEN @ ELSE t] \in Record
  BY DEF Record
<1> QED
  BY <1>1, <1>2, <1>3, <1>4

\* What an append of a message does to the types.
LEMMA StoreTypes ==
  ASSUME TypeOK, NEW s \in Socket, NEW r \in Record, NEW n \in Nat, Store(s, r, n), Appended(s),
         pc[s] \in {"user", "answer"}
  PROVE  /\ conv' \in Record
         /\ messages' \in Seq([role : {"user", "assistant"}, turn : Nat, sequence : Nat])
         /\ pc' \in [Socket -> Phases] /\ event' \in [Socket -> Event]
         /\ persisted' \in [Socket -> BOOLEAN] /\ answered' \subseteq Nat
         /\ \A t \in Busy' : copy'[t] \in Record
<1>1. Named(s) \in Task \cup {None}
  BY DEF Named, TypeOK
<1>2. conv' \in Record
  BY <1>1, Records DEF Store
<1>3. Message(s, n) \in [role : {"user", "assistant"}, turn : Nat, sequence : Nat]
  BY DEF Message, TypeOK
<1>4. messages' \in Seq([role : {"user", "assistant"}, turn : Nat, sequence : Nat])
  BY <1>3 DEF Store, TypeOK
<1>5. pc' \in [Socket -> Phases] /\ event' \in [Socket -> Event]
  BY Plains DEF Appended, GoTo, Done, TypeOK, Phases
<1>6. persisted' \in [Socket -> BOOLEAN] /\ answered' \subseteq Nat
  BY DEF Appended, Remembered, TypeOK
<1>7. \A t \in Busy' : t \in Busy
  BY DEF Appended, GoTo, Busy, TypeOK
<1> QED
  BY <1>2, <1>4, <1>5, <1>6, <1>7 DEF Appended, TypeOK

\* Only the phase, the copy and the event of a socket change with an event.
LEMMA HandleTypes ==
  ASSUME TypeOK, NEW s \in Socket, NEW e \in Event, NEW r \in Record, NEW p \in Phases,
         pc[s] = "listen", Handle(s, e, r, p), agent' \in [Task -> Outcomes \cup {"working", "unused"}],
         seen' \in [Socket -> BOOLEAN]
  PROVE  TypeOK'
<1>1. /\ pc' = [pc EXCEPT ![s] = p] /\ copy' = [copy EXCEPT ![s] = r]
      /\ event' = [event EXCEPT ![s] = e]
  BY DEF Handle, GoTo
<1>2. pc' \in [Socket -> Phases] /\ copy' \in [Socket -> Record \cup {None}]
      /\ event' \in [Socket -> Event]
  BY <1>1 DEF TypeOK
<1>3. \A t \in Busy' : copy'[t] \in Record
  BY <1>1 DEF TypeOK, Busy
<1>4. \A t \in Socket : held'[t] # None => store' = "redis" /\ pc'[t] \in {"user", "answer"}
  BY <1>1 DEF TypeOK, Handle, database, append
<1> QED
  BY <1>2, <1>3, <1>4 DEF TypeOK, Handle, database, append, patching, history

\* The end of a turn at its socket keeps the types of what the socket holds.
LEMMA ReturnTypes ==
  ASSUME TypeOK, NEW s \in Socket, Return(s), UNCHANGED store
  PROVE  /\ pc' \in [Socket -> Phases] /\ turn' \in [Socket -> Nat]
         /\ copy' \in [Socket -> Record \cup {None}]
         /\ \A t \in Busy' : copy'[t] \in Record
         /\ \A t \in Socket : held'[t] # None => store' = "redis" /\ pc'[t] \in {"user", "answer"}
         /\ resume' \in [Socket -> Task \cup {None}] /\ task' \in [Socket -> Task \cup {None}]
         /\ event' \in [Socket -> Event]
         /\ persisted' \in [Socket -> BOOLEAN] /\ seen' \in [Socket -> BOOLEAN]
         /\ held' \in [Socket -> Record \cup {None}] /\ drawn' \in [Socket -> Nat]
<1>1. "idle" \in Phases
  BY DEF Phases
<1>2. \A t \in Busy' : t # s /\ t \in Busy /\ copy'[t] = copy[t]
  BY DEF Return, GoTo, Busy, TypeOK
<1>3. \A t \in Socket : held'[t] # None => store' = "redis" /\ pc'[t] \in {"user", "answer"}
  BY DEF Return, GoTo, TypeOK
<1> QED
  BY <1>1, <1>2, <1>3, Plains DEF Return, GoTo, TypeOK

\* The types after a turn that an exception ended.
LEMMA LeaveTypes ==
  ASSUME TypeOK, NEW s \in Socket, Leave(s) PROVE TypeOK'
<1>1. Return(s) /\ abandoned' \subseteq Nat
  BY DEF Leave, TypeOK
<1>2. UNCHANGED <<store, conv, messages, counter, agent, turns, patch, patches, answered,
                  charged, overlapped>>
  BY DEF Leave, database, patching
<1> QED
  BY <1>1, <1>2, ReturnTypes DEF TypeOK

\* The types after a turn that was charged.
LEMMA ChargeTypes ==
  ASSUME TypeOK, NEW s \in Socket, Charge(s) PROVE TypeOK'
<1>1. Return(s) /\ charged' \subseteq Nat
  BY DEF Charge, TypeOK
<1>2. UNCHANGED <<store, conv, messages, counter, agent, turns, patch, patches, answered,
                  abandoned, overlapped>>
  BY DEF Charge, database, patching
<1> QED
  BY <1>1, <1>2, ReturnTypes DEF TypeOK

\* The types after a result artifact.
LEMMA ResultTypes ==
  ASSUME TypeOK, NEW s \in Socket, ResultArtifact(s) PROVE TypeOK'
<1>1. PICK content \in BOOLEAN :
        /\ IF content /\ ~persisted[s]
           THEN Handle(s, Plain("result"), copy[s], LogAndSave)
           ELSE Handle(s, Plain("status"), copy[s], "listen")
        /\ seen' = [seen EXCEPT ![s] = @ \/ content]
  BY DEF ResultArtifact
<1>2. Plain("result") \in Event /\ Plain("status") \in Event
  BY Plains
<1>3. copy[s] \in Record /\ LogAndSave \in Phases /\ "listen" \in Phases
  BY DEF ResultArtifact, LogAndSave, TypeOK, Busy, Phases
<1>4. agent' \in [Task -> Outcomes \cup {"working", "unused"}] /\ seen' \in [Socket -> BOOLEAN]
  BY <1>1 DEF ResultArtifact, TypeOK
<1>5. pc[s] = "listen"
  BY DEF ResultArtifact
<1> QED
  BY <1>1, <1>2, <1>3, <1>4, <1>5, HandleTypes

\* The types after a final status.
LEMMA FinalTypes ==
  ASSUME TypeOK, NEW s \in Socket, FinalStatus(s) PROVE TypeOK'
<1>1. PICK state \in Outcomes, by \in Author :
        /\ agent' = [agent EXCEPT ![task[s]] = state]
        /\ Handle(s, [kind |-> "final", state |-> state, by |-> by],
                  Ended(copy[s], task[s], state), LogAndSave)
  BY DEF FinalStatus
<1>2. [kind |-> "final", state |-> state, by |-> by] \in Event
  BY DEF Event
<1>3. Ended(copy[s], task[s], state) \in Record /\ LogAndSave \in Phases
  BY Records DEF FinalStatus, LogAndSave, TypeOK, Busy, Phases
<1>4. agent' \in [Task -> Outcomes \cup {"working", "unused"}] /\ seen' \in [Socket -> BOOLEAN]
  BY <1>1 DEF FinalStatus, TypeOK
<1>5. pc[s] = "listen"
  BY DEF FinalStatus
<1> QED
  BY <1>1, <1>2, <1>3, <1>4, <1>5, HandleTypes

\* Every step keeps the types.
LEMMA TypesStep == TypeOK /\ [Next]_vars => TypeOK'
<1> SUFFICES ASSUME TypeOK, [Next]_vars PROVE TypeOK'
  OBVIOUS
<1> USE ChatAssumption DEF TypeOK, Phases, Busy, database, local, append, patching, history
<1>1. ASSUME NEW s \in Socket, Receive(s) PROVE TypeOK'
  <2>1. conv \in Record /\ "config" \in Phases
    BY <1>1 DEF Receive
  <2>2. \A t \in Busy' : copy'[t] \in Record
    BY <1>1, <2>1 DEF Receive, GoTo
  <2>3. pc' \in [Socket -> Phases] /\ copy' \in [Socket -> Record \cup {None}]
        /\ turn' \in [Socket -> Nat] /\ turns' \in Nat /\ overlapped' \in BOOLEAN
    BY <1>1, <2>1 DEF Receive, GoTo, Overlaps
  <2>4. \A t \in Socket : held'[t] # None => store' = "redis" /\ pc'[t] \in {"user", "answer"}
    BY <1>1 DEF Receive, GoTo
  <2> QED
    BY <1>1, <2>2, <2>3, <2>4 DEF Receive
<1>2. ASSUME NEW s \in Socket, SaveConfig(s) PROVE TypeOK'
  <2>1. resume' \in [Socket -> Task \cup {None}]
    <3>1. PICK t \in {None, copy[s].resume} :
            resume' = [resume EXCEPT ![s] = IF copy[s].awaiting THEN t ELSE None]
      BY <1>2 DEF SaveConfig
    <3>2. t \in Task \cup {None}
      BY <1>2 DEF SaveConfig, Record
    <3> QED
      BY <3>1, <3>2
  <2>2. conv' \in Record
    BY <1>2 DEF SaveConfig, Save
  <2> QED
    BY <1>2, <2>1, <2>2 DEF SaveConfig, Save, GoTo
<1>3. ASSUME NEW s \in Socket, AppendMessage(s) PROVE TypeOK'
  <2>1. conv \in Record /\ Len(messages) + 1 \in Nat
    BY <1>3 DEF AppendMessage
  <2>2. \A t \in Socket : held'[t] = None
    BY <1>3 DEF AppendMessage
  <2> QED
    BY <1>3, <2>1, <2>2, StoreTypes DEF AppendMessage, Appended
<1>4. ASSUME NEW s \in Socket, RedisRead(s) PROVE TypeOK'
  BY <1>4 DEF RedisRead
<1>5. ASSUME NEW s \in Socket, RedisDraw(s) PROVE TypeOK'
  BY <1>5 DEF RedisDraw
<1>6. ASSUME NEW s \in Socket, RedisWrite(s) PROVE TypeOK'
  <2>1. held[s] \in Record /\ drawn[s] \in Nat
    BY <1>6 DEF RedisWrite
  <2>2. pc[s] \in {"user", "answer"}
    BY <1>6 DEF RedisWrite
  <2>3. held' \in [Socket -> Record \cup {None}] /\ drawn' \in [Socket -> Nat]
    BY <1>6 DEF RedisWrite
  <2>4. \A t \in Socket : held'[t] # None => store' = "redis" /\ pc'[t] \in {"user", "answer"}
    BY <1>6 DEF RedisWrite, Appended, GoTo, Done
  <2> QED
    BY <1>6, <2>1, <2>2, <2>3, <2>4, StoreTypes DEF RedisWrite, Appended
<1>7. ASSUME NEW s \in Socket, Reget(s) PROVE TypeOK'
  BY <1>7, Records DEF Reget, LogAndSave, GoTo
<1>8. ASSUME NEW s \in Socket, Log(s) PROVE TypeOK'
  BY <1>8 DEF Log, GoTo
<1>9. ASSUME NEW s \in Socket, SaveCopy(s) PROVE TypeOK'
  <2>1. AfterSave(s) \in Phases \ {"idle"}
    BY DEF AfterSave
  <2>2. event' \in [Socket -> Event]
    BY <1>9, Plains DEF SaveCopy, Done
  <2> QED
    BY <1>9, <2>1, <2>2 DEF SaveCopy, Save, GoTo
<1>10. ASSUME NEW s \in Socket, NotFound(s) PROVE TypeOK'
  BY <1>10, LeaveTypes DEF NotFound
<1>11. ASSUME NEW s \in Socket, StartTask(s) PROVE TypeOK'
  BY <1>11 DEF StartTask, GoTo
<1>12. ASSUME NEW s \in Socket, ContinueTask(s) PROVE TypeOK'
  <2>1. CASE agent[resume[s]] = "input-required"
    <3>1. /\ agent' = [agent EXCEPT ![resume[s]] = "working"] /\ task' = [task EXCEPT ![s] = resume[s]]
          /\ pc' = [pc EXCEPT ![s] = "listen"] /\ pc[s] = "start"
          /\ UNCHANGED <<database, turns, turn, copy, resume, event, persisted, seen,
                         append, patching, history>>
      BY <1>12, <2>1 DEF ContinueTask, GoTo
    <3>2. /\ agent' \in [Task -> Outcomes \cup {"working", "unused"}]
          /\ task' \in [Socket -> Task \cup {None}] /\ pc' \in [Socket -> Phases]
      BY <3>1
    <3>3. \A t \in Socket : held'[t] # None => store' = "redis" /\ pc'[t] \in {"user", "answer"}
      BY <3>1
    <3> QED
      BY <3>1, <3>2, <3>3
  <2>2. CASE agent[resume[s]] # "input-required"
    BY <1>12, <2>2, LeaveTypes DEF ContinueTask
  <2> QED
    BY <2>1, <2>2
<1>13. ASSUME NEW s \in Socket, TaskEvent(s) PROVE TypeOK'
  BY <1>13, HandleTypes, Records, Plains DEF TaskEvent, LogAndSave
<1>14. ASSUME NEW s \in Socket, StatusEvent(s) PROVE TypeOK'
  BY <1>14, HandleTypes, Records, Plains DEF StatusEvent, LogAndSave
<1>15. ASSUME NEW s \in Socket, ResultArtifact(s) PROVE TypeOK'
  BY <1>15, ResultTypes
<1>16. ASSUME NEW s \in Socket, FinalStatus(s) PROVE TypeOK'
  BY <1>16, FinalTypes
<1>17. ASSUME NEW s \in Socket, Charge(s) PROVE TypeOK'
  BY <1>17, ChargeTypes
<1>18. ASSUME NEW s \in Socket, Abandon(s) PROVE TypeOK'
  BY <1>18, LeaveTypes DEF Abandon
<1>19. ASSUME NEW t \in Task, AgentAlone(t) PROVE TypeOK'
  BY <1>19 DEF AgentAlone, Outcomes
<1>20. CASE PatchRead
  BY <1>20 DEF PatchRead, Save, Overlaps
<1>21. CASE PatchSave
  BY <1>21 DEF PatchSave, Save, Overlaps
<1>22. CASE DeleteConversation
  BY <1>22 DEF DeleteConversation, Save, Overlaps
<1>23. CASE UNCHANGED vars
  BY <1>23 DEF vars
<1> QED
  BY <1>1, <1>2, <1>3, <1>4, <1>5, <1>6, <1>7, <1>8, <1>9, <1>10, <1>11, <1>12, <1>13, <1>14, <1>15, <1>16, <1>17, <1>18, <1>19, <1>20, <1>21, <1>22, <1>23 DEF Next, Stream

\* The types of the state in which nobody has spoken.
LEMMA TypesInit == Init => TypeOK
<1> SUFFICES ASSUME Init PROVE TypeOK
  OBVIOUS
<1>1. conv \in Record
  BY DEF Init, Record
<1>2. Busy = {}
  BY DEF Init, Busy
<1>3. event \in [Socket -> Event]
  BY Plains DEF Init
<1>4. pc \in [Socket -> Phases]
  BY DEF Init, Phases
<1>5. \A s \in Socket : held[s] = None
  BY DEF Init
<1>6. store \in {"memory", "redis"}
  BY ChatAssumption DEF Init
<1>7. messages \in Seq([role : {"user", "assistant"}, turn : Nat, sequence : Nat])
  BY DEF Init
<1> QED
  BY <1>1, <1>2, <1>3, <1>4, <1>5, <1>6, <1>7 DEF Init, TypeOK

\* Every variable keeps its type: a turn under way has its copy of the record, and
\* only an append under way over Redis holds one besides.
THEOREM ChatTypes == Spec => []TypeOK
<1>1. Init => TypeOK
  BY TypesInit
<1>2. TypeOK /\ [Next]_vars => TypeOK'
  BY TypesStep
<1> QED
  BY <1>1, <1>2, PTL DEF Spec

-----------------------------------------------------------------------------
(* One answer per turn, and no charge without one *)

\* The types the phases of a turn are argued from.
LEMMA TurnTypes ==
  TypeOK => /\ pc \in [Socket -> Phases] /\ turn \in [Socket -> Nat] /\ turns \in Nat
            /\ event \in [Socket -> Event]
            /\ persisted \in [Socket -> BOOLEAN] /\ seen \in [Socket -> BOOLEAN]
BY DEF TypeOK

\* A step of one turn that stores no answer: what is
\* known of its answer has to be shown for that turn only.
LEMMA QuietStep ==
  ASSUME TypeOK, ChatInv, NEW s \in Socket, NEW p \in Phases \ {"idle"}, NEW e \in Event,
         NEW b \in BOOLEAN, pc[s] # "idle",
         pc' = [pc EXCEPT ![s] = p], event' = [event EXCEPT ![s] = e],
         seen' = [seen EXCEPT ![s] = b], TypeOK',
         UNCHANGED <<turns, turn, persisted, answered, messages>>,
         AnswerAt(s)'
  PROVE  ChatInv'
<1>1. \A t \in Socket \ {s} : pc'[t] = pc[t] /\ event'[t] = event[t] /\ seen'[t] = seen[t]
  BY TurnTypes
<1>2. Busy' = Busy
  BY <1>1, TurnTypes DEF Busy
<1>3. TurnInv'
  BY <1>2 DEF ChatInv, TurnInv
<1>4. \A t \in Socket \ {s} : AnswerAt(t)'
  BY <1>1 DEF ChatInv, AnswerInv, AnswerAt, Storing
<1>5. StoredInv'
  BY DEF ChatInv, StoredInv, OneAnswerPerTurn
<1> QED
  BY <1>3, <1>4, <1>5 DEF ChatInv, AnswerInv

\* An append: the message of the user, or the answer of a turn that has none.
LEMMA AppendedStep ==
  ASSUME ChatInv, NEW s \in Socket, NEW r, NEW n, Store(s, r, n), Appended(s),
         pc[s] \in {"user", "answer"}, TypeOK'
  PROVE  ChatInv'
<1>0. TypeOK
  BY DEF ChatInv
<1>1. /\ \A t \in Socket \ {s} : pc'[t] = pc[t] /\ event'[t] = event[t] /\ persisted'[t] = persisted[t]
      /\ pc'[s] # "idle" /\ UNCHANGED <<turns, turn, seen>>
  BY <1>0, TurnTypes DEF Appended, GoTo, Done
<1>2. Busy' = Busy /\ s \in Busy
  BY <1>0, <1>1, TurnTypes DEF Busy
<1>3. /\ pc[s] = "answer" => answered' = answered \cup {turn[s]}
      /\ pc[s] = "user" => answered' = answered
  BY DEF Appended
<1>4. TurnInv'
  BY <1>1, <1>2, <1>3 DEF ChatInv, TurnInv
<1>5. \A t \in Socket \ {s} : AnswerAt(t)'
  <2> SUFFICES ASSUME NEW t \in Socket \ {s} PROVE AnswerAt(t)'
    OBVIOUS
  <2>1. pc[t] # "idle" => turn[t] # turn[s]
    BY <1>2 DEF ChatInv, TurnInv, Busy
  <2>2. pc[t] # "idle" => (turn'[t] \in answered' <=> turn[t] \in answered)
    BY <2>1, <1>1, <1>3
  <2>3. AnswerAt(t)
    BY DEF ChatInv, AnswerInv
  <2> QED
    BY <1>1, <2>2, <2>3 DEF AnswerAt, Storing
<1>6. AnswerAt(s)'
  <2>1. AnswerAt(s)
    BY DEF ChatInv, AnswerInv
  <2>2. CASE pc[s] = "user"
    <3>1. pc'[s] = "reget" /\ event' = event /\ persisted'[s] = persisted[s]
      BY <1>0, <2>2, TurnTypes DEF Appended, GoTo, Remembered
    <3> QED
      BY <1>1, <1>3, <2>1, <2>2, <3>1 DEF AnswerAt, Storing
  <2>3. CASE pc[s] = "answer" /\ event[s].kind = "result"
    <3>1. pc'[s] = "listen" /\ persisted'[s] = TRUE
      BY <1>0, <2>3, TurnTypes DEF Appended, GoTo, Remembered
    <3> QED
      BY <1>1, <1>3, <2>1, <2>3, <3>1 DEF AnswerAt, Storing
  <2>4. CASE pc[s] = "answer" /\ event[s].kind = "final"
    <3>1. pc'[s] = "charge" /\ event' = event /\ persisted'[s] = TRUE
      BY <1>0, <2>4, TurnTypes DEF Appended, GoTo, Remembered
    <3> QED
      BY <1>1, <1>3, <2>1, <2>4, <3>1 DEF AnswerAt, Storing
  <2> QED
    BY <2>1, <2>2, <2>3, <2>4 DEF AnswerAt
<1>7. StoredInv'
  <2>1. messages \in Seq([role : {"user", "assistant"}, turn : Nat, sequence : Nat])
    BY <1>0 DEF TypeOK
  <2>2. messages' = Append(messages, Message(s, n))
    BY DEF Store
  <2>3. Len(messages') = Len(messages) + 1 /\ messages'[Len(messages) + 1] = Message(s, n)
        /\ \A i \in 1..Len(messages) : messages'[i] = messages[i]
    BY <2>1, <2>2
  <2>4. DOMAIN messages' = DOMAIN messages \cup {Len(messages) + 1} /\ DOMAIN messages = 1..Len(messages)
        /\ Len(messages) \in Nat
    BY <2>1, <2>2, <2>3
  <2>5. /\ Message(s, n).role = "assistant" => pc[s] = "answer"
        /\ Message(s, n).turn = turn[s]
    BY DEF Message
  <2>6. pc[s] = "answer" => turn[s] \notin answered
    BY DEF ChatInv, AnswerInv, AnswerAt
  <2>7. \A i \in DOMAIN messages : messages[i].role = "assistant" => messages[i].turn \in answered
    BY DEF ChatInv, StoredInv
  <2>8. \A i \in DOMAIN messages' : messages'[i].role = "assistant" => messages'[i].turn \in answered'
    BY <1>3, <2>3, <2>4, <2>5, <2>7
  <2>9. \A i \in DOMAIN messages' : messages'[i].role = "assistant" /\ i # Len(messages) + 1
          => messages'[i].turn \in answered /\ i \in DOMAIN messages
    BY <2>3, <2>4, <2>7
  <2>10. OneAnswerPerTurn
    BY DEF ChatInv, StoredInv
  <2>11. OneAnswerPerTurn'
    BY <2>3, <2>4, <2>5, <2>6, <2>9, <2>10 DEF OneAnswerPerTurn
  <2> QED
    BY <2>8, <2>11 DEF StoredInv
<1> QED
  BY <1>4, <1>5, <1>6, <1>7 DEF ChatInv, AnswerInv

\* The end of a turn leaves the answers as they are.
LEMMA ReturnStep ==
  ASSUME ChatInv, NEW s \in Socket, Return(s), TypeOK', UNCHANGED <<turns, answered, messages>>
  PROVE  ChatInv'
<1>0. TypeOK
  BY DEF ChatInv
<1>1. /\ \A t \in Socket \ {s} : /\ pc'[t] = pc[t] /\ event'[t] = event[t] /\ turn'[t] = turn[t]
                                 /\ persisted'[t] = persisted[t] /\ seen'[t] = seen[t]
      /\ pc'[s] = "idle" /\ event'[s].kind = "turn" /\ persisted'[s] = FALSE /\ seen'[s] = FALSE
  BY <1>0, TurnTypes DEF Return, GoTo, Plain
<1>2. \A t \in Busy' : t \in Busy /\ turn'[t] = turn[t]
  BY <1>1 DEF Busy
<1>3. TurnInv'
  BY <1>2 DEF ChatInv, TurnInv
<1>4. \A t \in Socket \ {s} : AnswerAt(t)'
  BY <1>1 DEF ChatInv, AnswerInv, AnswerAt, Storing
<1>5. AnswerAt(s)'
  BY <1>1 DEF AnswerAt, Storing
<1>6. StoredInv'
  BY DEF ChatInv, StoredInv, OneAnswerPerTurn
<1> QED
  BY <1>3, <1>4, <1>5, <1>6 DEF ChatInv, AnswerInv

\* A turn that an exception ended leaves the answers as they are.
LEMMA LeaveStep ==
  ASSUME ChatInv, NEW s \in Socket, Leave(s), TypeOK' PROVE ChatInv'
BY ReturnStep DEF Leave, database

\* A step that leaves the turns and their answers alone.
LEMMA OtherStep ==
  ASSUME ChatInv, TypeOK', messages' = messages \/ messages' = <<>>,
         UNCHANGED <<turns, pc, turn, event, persisted, seen, answered>>
  PROVE  ChatInv'
<1>1. TurnInv'
  BY DEF ChatInv, TurnInv, Busy
<1>2. AnswerInv'
  BY DEF ChatInv, AnswerInv, AnswerAt, Storing
<1>3. StoredInv'
  BY DEF ChatInv, StoredInv, OneAnswerPerTurn
<1> QED
  BY <1>1, <1>2, <1>3 DEF ChatInv

\* A new turn is one no socket has under way and nobody answered.
LEMMA ReceiveStep ==
  ASSUME ChatInv, NEW s \in Socket, Receive(s), TypeOK' PROVE ChatInv'
<1>1. /\ pc[s] = "idle" /\ pc'[s] = "config" /\ turn'[s] = turns + 1 /\ turns' = turns + 1
      /\ \A t \in Socket \ {s} : pc'[t] = pc[t] /\ turn'[t] = turn[t]
      /\ UNCHANGED <<event, persisted, seen, answered, messages>>
  BY TurnTypes DEF ChatInv, Receive, GoTo, database
<1>2. turns \in Nat /\ \A t \in Busy' : t = s \/ (t \in Busy /\ turn'[t] = turn[t])
  BY <1>1, TurnTypes DEF ChatInv, Busy
<1>3. TurnInv'
  BY <1>1, <1>2 DEF ChatInv, TurnInv
<1>4. turns + 1 \notin answered
  BY <1>2 DEF ChatInv, TurnInv
<1>5. \A t \in Socket : AnswerAt(t)'
  BY <1>1, <1>4 DEF ChatInv, AnswerInv, AnswerAt, Storing
<1>6. StoredInv'
  BY <1>1 DEF ChatInv, StoredInv, OneAnswerPerTurn
<1> QED
  BY <1>3, <1>5, <1>6 DEF ChatInv, AnswerInv

\* Every step keeps the answers in order.
LEMMA ChatInvStep == ChatInv /\ [Next]_vars => ChatInv'
<1> SUFFICES ASSUME ChatInv, [Next]_vars PROVE ChatInv'
  OBVIOUS
<1>a. TypeOK /\ TypeOK'
  BY TypesStep DEF ChatInv
<1>b. \A s \in Socket : AnswerAt(s)
  BY DEF ChatInv, AnswerInv
<1>c. /\ pc \in [Socket -> Phases] /\ event \in [Socket -> Event]
      /\ persisted \in [Socket -> BOOLEAN] /\ seen \in [Socket -> BOOLEAN]
  BY <1>a, TurnTypes
<1> USE DEF database, local, append, patching, history
<1>1. ASSUME NEW s \in Socket, Receive(s) PROVE ChatInv'
  BY <1>1, <1>a, ReceiveStep
<1>2. ASSUME NEW s \in Socket, SaveConfig(s) PROVE ChatInv'
  <2>1. AnswerAt(s)'
    BY <1>2, <1>b, <1>c DEF SaveConfig, Save, GoTo, AnswerAt, Storing
  <2>2. pc' = [pc EXCEPT ![s] = "user"] /\ pc[s] # "idle"
        /\ event' = [event EXCEPT ![s] = event[s]] /\ seen' = [seen EXCEPT ![s] = seen[s]]
        /\ UNCHANGED <<turns, turn, persisted, answered, messages>>
    BY <1>2, <1>c DEF SaveConfig, Save, GoTo
  <2> QED
    BY <1>a, <1>c, <2>1, <2>2, QuietStep DEF Phases
<1>3. ASSUME NEW s \in Socket, AppendMessage(s) PROVE ChatInv'
  BY <1>3, <1>a, AppendedStep DEF AppendMessage
<1>4. ASSUME NEW s \in Socket, RedisRead(s) PROVE ChatInv'
  BY <1>4, <1>a, OtherStep DEF RedisRead
<1>5. ASSUME NEW s \in Socket, RedisDraw(s) PROVE ChatInv'
  BY <1>5, <1>a, OtherStep DEF RedisDraw
<1>6. ASSUME NEW s \in Socket, RedisWrite(s) PROVE ChatInv'
  <2>1. pc[s] \in {"user", "answer"}
    BY <1>6, <1>a DEF RedisWrite, TypeOK
  <2> QED
    BY <1>6, <1>a, <2>1, AppendedStep DEF RedisWrite
<1>7. ASSUME NEW s \in Socket, Reget(s) PROVE ChatInv'
  <2>1. AnswerAt(s)'
    BY <1>7, <1>b, <1>c DEF Reget, LogAndSave, GoTo, AnswerAt, Storing
  <2>2. pc' = [pc EXCEPT ![s] = LogAndSave] /\ pc[s] # "idle" /\ LogAndSave \in Phases \ {"idle"}
        /\ event' = [event EXCEPT ![s] = event[s]] /\ seen' = [seen EXCEPT ![s] = seen[s]]
        /\ UNCHANGED <<turns, turn, persisted, answered, messages>>
    BY <1>7, <1>c DEF Reget, LogAndSave, GoTo, Phases
  <2> QED
    BY <1>a, <1>c, <2>1, <2>2, QuietStep
<1>8. ASSUME NEW s \in Socket, Log(s) PROVE ChatInv'
  <2>1. AnswerAt(s)'
    BY <1>8, <1>b, <1>c DEF Log, GoTo, AnswerAt, Storing
  <2>2. pc' = [pc EXCEPT ![s] = "save"] /\ pc[s] # "idle"
        /\ event' = [event EXCEPT ![s] = event[s]] /\ seen' = [seen EXCEPT ![s] = seen[s]]
        /\ UNCHANGED <<turns, turn, persisted, answered, messages>>
    BY <1>8, <1>c DEF Log, GoTo
  <2> QED
    BY <1>a, <1>c, <2>1, <2>2, QuietStep DEF Phases
<1>9. ASSUME NEW s \in Socket, SaveCopy(s) PROVE ChatInv'
  <2> DEFINE e == IF AfterSave(s) = "listen" THEN Plain("status") ELSE event[s]
  <2>1. AfterSave(s) \in Phases \ {"idle"} /\ e \in Event
    BY <1>c, Plains DEF AfterSave, Phases
  <2>2. pc' = [pc EXCEPT ![s] = AfterSave(s)] /\ pc[s] = "save"
        /\ event' = [event EXCEPT ![s] = e] /\ seen' = [seen EXCEPT ![s] = seen[s]]
        /\ UNCHANGED <<turns, turn, persisted, answered, messages>>
    BY <1>9, <1>c DEF SaveCopy, Save, GoTo, Done
  <2>3. pc'[s] = AfterSave(s) /\ event'[s] = e /\ persisted'[s] = persisted[s] /\ seen'[s] = seen[s]
        /\ (turn'[s] \in answered' <=> turn[s] \in answered)
    BY <2>2, <1>c
  <2>4. AnswerAt(s)'
    <3>1. CASE event[s].kind = "turn"
      BY <3>1, <2>2, <2>3, <1>b DEF AfterSave, AnswerAt, Storing
    <3>2. CASE event[s].kind = "result"
      BY <3>2, <2>2, <2>3, <1>b DEF AfterSave, AnswerAt, Storing
    <3>3. CASE event[s].kind = "final"
      BY <3>3, <2>2, <2>3, <1>b DEF AfterSave, AnswerAt, Storing
    <3>4. CASE event[s].kind \notin {"turn", "result", "final"}
      BY <3>4, <2>2, <2>3, <1>b DEF AfterSave, AnswerAt, Storing, Plain
    <3> QED
      BY <3>1, <3>2, <3>3, <3>4
  <2> HIDE DEF e
  <2> QED
    BY <1>a, <1>c, <2>1, <2>2, <2>4, QuietStep
<1>10. ASSUME NEW s \in Socket, NotFound(s) PROVE ChatInv'
  BY <1>10, <1>a, LeaveStep DEF NotFound
<1>11. ASSUME NEW s \in Socket, StartTask(s) PROVE ChatInv'
  <2>1. AnswerAt(s)'
    BY <1>11, <1>b, <1>c DEF StartTask, GoTo, AnswerAt, Storing
  <2>2. pc' = [pc EXCEPT ![s] = "listen"] /\ pc[s] # "idle"
        /\ event' = [event EXCEPT ![s] = event[s]] /\ seen' = [seen EXCEPT ![s] = seen[s]]
        /\ UNCHANGED <<turns, turn, persisted, answered, messages>>
    BY <1>11, <1>c DEF StartTask, GoTo
  <2> QED
    BY <1>a, <1>c, <2>1, <2>2, QuietStep DEF Phases
<1>12. ASSUME NEW s \in Socket, ContinueTask(s) PROVE ChatInv'
  <2>1. CASE Leave(s)
    BY <2>1, <1>a, LeaveStep
  <2>2. CASE ~Leave(s)
    <3>1. AnswerAt(s)'
      BY <1>12, <2>2, <1>b, <1>c DEF ContinueTask, GoTo, AnswerAt, Storing
    <3>2. pc' = [pc EXCEPT ![s] = "listen"] /\ pc[s] # "idle"
          /\ event' = [event EXCEPT ![s] = event[s]] /\ seen' = [seen EXCEPT ![s] = seen[s]]
          /\ UNCHANGED <<turns, turn, persisted, answered, messages>>
      BY <1>12, <2>2, <1>c DEF ContinueTask, GoTo
    <3> QED
      BY <1>a, <1>c, <3>1, <3>2, QuietStep DEF Phases
  <2> QED
    BY <2>1, <2>2
<1>13. ASSUME NEW s \in Socket, NEW e \in Event, NEW r, NEW p \in Phases \ {"idle"}, NEW b \in BOOLEAN,
              pc[s] = "listen", Handle(s, e, r, p), seen' = [seen EXCEPT ![s] = b],
              \/ e.kind \in {"task", "status"} /\ (b => persisted[s]) /\ p \in {"log", "save", "listen"}
              \/ e.kind = "result" /\ ~persisted[s] /\ p \in {"log", "save"}
              \/ e.kind = "final" /\ (b => persisted[s]) /\ p \in {"log", "save"}
       PROVE  ChatInv'
  <2>1. pc' = [pc EXCEPT ![s] = p] /\ event' = [event EXCEPT ![s] = e]
        /\ UNCHANGED <<turns, turn, persisted, answered, messages>>
    BY <1>13 DEF Handle, GoTo
  <2>2. pc'[s] = p /\ event'[s] = e /\ seen'[s] = b
    BY <1>13, <1>c, <2>1
  <2>3. AnswerAt(s)'
    BY <1>13, <1>b, <2>1, <2>2 DEF AnswerAt, Storing
  <2> QED
    BY <1>13, <1>a, <2>1, <2>3, QuietStep
<1>d. ASSUME NEW s \in Socket, pc[s] = "listen" PROVE seen[s] => persisted[s]
  BY <1>b, <1>d DEF AnswerAt, Storing
<1>e. LogAndSave \in {"log", "save"} /\ {"log", "save", "listen"} \subseteq Phases \ {"idle"}
  BY DEF LogAndSave, Phases
<1>14. ASSUME NEW s \in Socket, TaskEvent(s) \/ StatusEvent(s) PROVE ChatInv'
  <2>1. PICK k \in {"task", "status"} : Handle(s, Plain(k), Reported(copy[s], task[s]), LogAndSave)
    BY <1>14 DEF TaskEvent, StatusEvent
  <2>2. pc[s] = "listen" /\ seen' = [seen EXCEPT ![s] = seen[s]] /\ seen[s] \in BOOLEAN
    BY <1>14, <1>c DEF TaskEvent, StatusEvent
  <2>3. Plain(k) \in Event /\ Plain(k).kind = k
    BY Plains DEF Plain
  <2> QED
    BY <1>13, <1>d, <1>e, <2>1, <2>2, <2>3
<1>15. ASSUME NEW s \in Socket, ResultArtifact(s) PROVE ChatInv'
  <2>1. PICK content \in BOOLEAN :
          /\ IF content /\ ~persisted[s]
             THEN Handle(s, Plain("result"), copy[s], LogAndSave)
             ELSE Handle(s, Plain("status"), copy[s], "listen")
          /\ seen' = [seen EXCEPT ![s] = @ \/ content]
    BY <1>15 DEF ResultArtifact
  <2>2. pc[s] = "listen" /\ seen' = [seen EXCEPT ![s] = seen[s] \/ content] /\ (seen[s] \/ content) \in BOOLEAN
    BY <1>15, <1>c, <2>1 DEF ResultArtifact
  <2>3. \A k \in {"result", "status"} : Plain(k) \in Event /\ Plain(k).kind = k
    BY Plains DEF Plain
  <2>4. CASE content /\ ~persisted[s]
    BY <1>13, <1>e, <2>1, <2>2, <2>3, <2>4
  <2>5. CASE ~(content /\ ~persisted[s])
    BY <1>13, <1>d, <1>e, <2>1, <2>2, <2>3, <2>5
  <2> QED
    BY <2>4, <2>5
<1>16. ASSUME NEW s \in Socket, FinalStatus(s) PROVE ChatInv'
  <2>1. PICK state \in Outcomes, by \in Author :
          Handle(s, [kind |-> "final", state |-> state, by |-> by],
                 Ended(copy[s], task[s], state), LogAndSave)
    BY <1>16 DEF FinalStatus
  <2>2. pc[s] = "listen" /\ seen' = [seen EXCEPT ![s] = seen[s]] /\ seen[s] \in BOOLEAN
    BY <1>16, <1>c DEF FinalStatus
  <2>3. [kind |-> "final", state |-> state, by |-> by] \in Event
    BY DEF Event
  <2> QED
    BY <1>13, <1>d, <1>e, <2>1, <2>2, <2>3
<1>17. ASSUME NEW s \in Socket, Charge(s) PROVE ChatInv'
  BY <1>17, <1>a, ReturnStep DEF Charge
<1>18. ASSUME NEW s \in Socket, Abandon(s) PROVE ChatInv'
  BY <1>18, <1>a, LeaveStep DEF Abandon
<1>19. ASSUME NEW t \in Task, AgentAlone(t) PROVE ChatInv'
  BY <1>19, <1>a, OtherStep DEF AgentAlone
<1>20. CASE PatchRead
  BY <1>20, <1>a, OtherStep DEF PatchRead
<1>21. CASE PatchSave
  BY <1>21, <1>a, OtherStep DEF PatchSave, Save
<1>22. CASE DeleteConversation
  BY <1>22, <1>a, OtherStep DEF DeleteConversation
<1>23. CASE UNCHANGED vars
  BY <1>23, <1>a, OtherStep DEF vars
<1> QED
  BY <1>1, <1>2, <1>3, <1>4, <1>5, <1>6, <1>7, <1>8, <1>9, <1>10, <1>11, <1>12, <1>14, <1>15,
     <1>16, <1>17, <1>18, <1>19, <1>20, <1>21, <1>22, <1>23 DEF Next, Stream

\* At first there is no turn and no answer.
LEMMA ChatInvInit == Init => ChatInv
<1> SUFFICES ASSUME Init PROVE ChatInv
  OBVIOUS
<1>1. \A s \in Socket : pc[s] = "idle" /\ event[s] = Plain("turn") /\ ~persisted[s] /\ ~seen[s]
  BY DEF Init
<1>2. AnswerInv
  BY <1>1 DEF AnswerInv, AnswerAt, Storing, Plain
<1>3. TurnInv
  BY <1>1 DEF Init, TurnInv, Busy
<1>4. StoredInv
  BY DEF Init, StoredInv, OneAnswerPerTurn
<1> QED
  BY <1>2, <1>3, <1>4, TypesInit DEF ChatInv

\* A turn is answered once, whichever of the agent's events carry the answer and
\* however many turns are streamed at a time.
THEOREM AnsweredOnce == Spec => []OneAnswerPerTurn
<1>1. Init => ChatInv
  BY ChatInvInit
<1>2. ChatInv /\ [Next]_vars => ChatInv'
  BY ChatInvStep
<1>3. ChatInv => OneAnswerPerTurn
  BY DEF ChatInv, StoredInv
<1> QED
  BY <1>1, <1>2, <1>3, PTL DEF Spec

\* A charge follows the answer of its turn, or a message of the user that ended it.
LEMMA ChargesStep == ChatInv /\ [Next]_vars => ChargeStep
<1> SUFFICES ASSUME ChatInv, [Next]_vars PROVE ChargeStep
  OBVIOUS
<1>1. ASSUME NEW s \in Socket, Charge(s) PROVE ChargeStep
  <2>1. pc[s] = "charge" /\ AnswerAt(s)
    BY <1>1 DEF Charge, ChatInv, AnswerInv
  <2>2. event[s].by \in Author
    BY TurnTypes DEF ChatInv, Event
  <2>3. Chargeable(s) => turn[s] \in answered \/ Echoed(s)
    BY <2>1, <2>2 DEF Chargeable, Echoed, Author, AnswerAt, Storing
  <2>4. charged' = charged \/ (Chargeable(s) /\ charged' = charged \cup {turn[s]})
    BY <1>1 DEF Charge
  <2> QED
    BY <2>3, <2>4 DEF ChargeStep
<1>2. CASE UNCHANGED charged
  BY <1>2 DEF ChargeStep
<1>3. ASSUME NEW s \in Socket, Stream(s), ~Charge(s) PROVE UNCHANGED charged
  BY <1>3 DEF Stream, SaveConfig, AppendMessage, RedisRead, RedisDraw, RedisWrite, Reget, Log, SaveCopy,
     NotFound, Leave, StartTask, ContinueTask, TaskEvent, StatusEvent, ResultArtifact, FinalStatus,
     Handle, Appended, history
<1> QED
  BY <1>1, <1>2, <1>3 DEF Next, Receive, Abandon, Leave, AgentAlone, PatchRead, PatchSave,
     DeleteConversation, vars, history

\* Nobody is charged for an answer that was not stored, however many turns are streamed
\* at a time and wherever one breaks off, but for a message of the user that a final
\* status hands back.
THEOREM ChargedIsStored == Spec => ChargedAnswerIsStored
<1>1. Init => ChatInv
  BY ChatInvInit
<1>2. ChatInv /\ [Next]_vars => ChatInv'
  BY ChatInvStep
<1>3. ChatInv /\ [Next]_vars => [ChargeStep]_vars
  BY ChargesStep
<1> QED
  BY <1>1, <1>2, <1>3, PTL DEF Spec, ChargedAnswerIsStored

-----------------------------------------------------------------------------
(* What an undisturbed record offers *)

\* A stream's task is set where the stream begins, and kept.
LEMMA TaskStep == ChatInv /\ TaskInv /\ [Next]_vars => TaskInv'
<1> SUFFICES ASSUME ChatInv, TaskInv, [Next]_vars, NEW s \in Socket, Streaming(s)', pc'[s] # "start"
             PROVE  task'[s] \in Task
  BY DEF TaskInv
<1>a. TypeOK /\ AnswerAt(s)
  BY DEF ChatInv, AnswerInv
<1>b. /\ pc \in [Socket -> Phases] /\ event \in [Socket -> Event]
      /\ task \in [Socket -> Task \cup {None}] /\ resume \in [Socket -> Task \cup {None}]
  BY <1>a DEF TypeOK
<1>c. Streaming(s) /\ pc[s] # "start" => task[s] \in Task
  BY DEF TaskInv
<1>d. CASE UNCHANGED <<pc, event, task>>
  BY <1>c, <1>d DEF Streaming
<1>e. ASSUME NEW t \in Socket, Return(t) PROVE task'[s] \in Task
  BY <1>b, <1>c, <1>e DEF Return, GoTo, Streaming
<1> USE DEF database, local, append, patching, history
<1>1. CASE \E t \in Socket : Receive(t) \/ SaveConfig(t) \/ Reget(t)
  BY <1>1, <1>a, <1>b, <1>c DEF Receive, SaveConfig, Reget, LogAndSave, GoTo, Streaming, AnswerAt
<1>2. CASE \E t \in Socket : AppendMessage(t) \/ RedisWrite(t)
  <2>1. PICK t \in Socket : Appended(t)
    BY <1>2 DEF AppendMessage, RedisWrite
  <2>2. CASE t = s
    BY <2>1, <2>2, <1>a, <1>b, <1>c DEF Appended, GoTo, Done, Streaming, AnswerAt
  <2>3. CASE t # s
    BY <2>1, <2>3, <1>b, <1>c DEF Appended, GoTo, Done, Streaming
  <2> QED
    BY <2>2, <2>3
<1>3. CASE \E t \in Socket : RedisRead(t) \/ RedisDraw(t)
  BY <1>3, <1>d DEF RedisRead, RedisDraw
<1>4. CASE \E t \in Socket : Log(t)
  BY <1>4, <1>b, <1>c DEF Log, GoTo, Streaming
<1>5. CASE \E t \in Socket : SaveCopy(t)
  <2>1. PICK t \in Socket : SaveCopy(t)
    BY <1>5
  <2>2. CASE t = s
    BY <2>1, <2>2, <1>b, <1>c DEF SaveCopy, AfterSave, GoTo, Done, Streaming
  <2>3. CASE t # s
    BY <2>1, <2>3, <1>b, <1>c DEF SaveCopy, GoTo, Done, Streaming
  <2> QED
    BY <2>2, <2>3
<1>6. CASE \E t \in Socket : NotFound(t) \/ Abandon(t) \/ Charge(t)
  BY <1>6, <1>e DEF NotFound, Abandon, Leave, Charge
<1>7. CASE \E t \in Socket : StartTask(t)
  BY <1>7, <1>b, <1>c DEF StartTask, GoTo, Streaming
<1>8. CASE \E t \in Socket : ContinueTask(t)
  <2>1. PICK t \in Socket : ContinueTask(t)
    BY <1>8
  <2>2. CASE Leave(t)
    BY <2>2, <1>e DEF Leave
  <2>3. CASE ~Leave(t)
    BY <2>1, <2>3, <1>b, <1>c DEF ContinueTask, GoTo, Streaming
  <2> QED
    BY <2>2, <2>3
<1>9. CASE \E t \in Socket : TaskEvent(t) \/ StatusEvent(t) \/ ResultArtifact(t) \/ FinalStatus(t)
  <2>1. PICK t \in Socket : pc[t] = "listen" /\ \E e, r, p : Handle(t, e, r, p)
    BY <1>9 DEF TaskEvent, StatusEvent, ResultArtifact, FinalStatus
  <2>2. task' = task /\ (t = s => task[s] \in Task)
    BY <2>1, <1>c DEF Handle, Streaming
  <2>3. t # s => pc'[s] = pc[s] /\ event'[s] = event[s]
    BY <2>1, <1>b DEF Handle, GoTo
  <2> QED
    BY <2>2, <2>3, <1>c DEF Streaming
<1>10. CASE \E t \in Task : AgentAlone(t)
  BY <1>10, <1>d DEF AgentAlone
<1>11. CASE PatchRead \/ PatchSave \/ DeleteConversation \/ UNCHANGED vars
  BY <1>11, <1>d DEF PatchRead, PatchSave, DeleteConversation, Save, vars
<1> QED
  BY <1>1, <1>2, <1>3, <1>4, <1>5, <1>6, <1>7, <1>8, <1>9, <1>10, <1>11 DEF Next, Stream

\* Who was alone before a step that leaves nobody else at work stays undisturbed.
LEMMA OverlapStep == [Next]_vars /\ ~overlapped' => ~overlapped
<1> SUFFICES ASSUME [Next]_vars, ~overlapped' PROVE ~overlapped
  OBVIOUS
<1> USE DEF history
<1>1. ASSUME NEW s \in Socket, Stream(s) \/ Abandon(s) PROVE ~overlapped
  <2>1. CASE \/ SaveConfig(s) \/ AppendMessage(s) \/ RedisRead(s) \/ RedisDraw(s) \/ RedisWrite(s)
             \/ Reget(s) \/ Log(s) \/ SaveCopy(s) \/ StartTask(s)
    BY <2>1 DEF SaveConfig, AppendMessage, RedisRead, RedisDraw, RedisWrite, Appended, Reget, Log,
      SaveCopy, StartTask
  <2>2. CASE NotFound(s) \/ ContinueTask(s) \/ Charge(s) \/ Abandon(s)
    BY <2>2 DEF NotFound, ContinueTask, Charge, Abandon, Leave
  <2>3. CASE TaskEvent(s) \/ StatusEvent(s) \/ ResultArtifact(s) \/ FinalStatus(s)
    BY <2>3 DEF TaskEvent, StatusEvent, ResultArtifact, FinalStatus, Handle
  <2> QED
    BY <1>1, <2>1, <2>2, <2>3 DEF Stream
<1>2. ASSUME NEW s \in Socket, Receive(s) PROVE ~overlapped
  BY <1>2 DEF Receive, Overlaps
<1>3. CASE (\E t \in Task : AgentAlone(t)) \/ PatchRead \/ PatchSave \/ DeleteConversation
  BY <1>3 DEF AgentAlone, PatchRead, PatchSave, DeleteConversation, Overlaps
<1>4. CASE UNCHANGED vars
  BY <1>4 DEF vars
<1> QED
  BY <1>1, <1>2, <1>3, <1>4 DEF Next

\* A step of the one turn under way: what its record offers has to be shown for the
\* store and for that turn.
LEMMA AloneStep ==
  ASSUME TypeOK, TypeOK', Undisturbed, NEW s \in Socket, pc[s] # "idle",
         \A t \in Socket \ {s} : pc'[t] = pc[t],
         UNCHANGED patch, conv' # None, Offers(conv)', OfferedAt(s)'
  PROVE  Undisturbed'
<1>1. \A t \in Socket \ {s} : pc[t] = "idle"
  BY DEF Undisturbed, Alone, Busy
<1>2. patch' = None
  BY DEF Undisturbed, Alone, Busy
<1>3. Alone'
  BY <1>1, <1>2 DEF Alone, Busy
<1>4. \A t \in Socket \ {s} : OfferedAt(t)'
  <2> SUFFICES ASSUME NEW t \in Socket \ {s} PROVE OfferedAt(t)'
    OBVIOUS
  <2>1. pc'[t] = "idle"
    BY <1>1
  <2>2. held'[t] = None
    BY <2>1 DEF TypeOK
  <2> QED
    BY <2>1, <2>2 DEF OfferedAt, Streaming
<1> QED
  BY <1>3, <1>4 DEF Undisturbed

\* Its end.
LEMMA AloneReturn ==
  ASSUME TypeOK, TypeOK', Undisturbed, NEW s \in Socket, pc[s] # "idle", Return(s),
         UNCHANGED <<conv, agent, patch>>
  PROVE  Undisturbed'
<1>1. \A t \in Socket \ {s} : pc'[t] = pc[t]
  BY DEF Return, GoTo, TypeOK
<1>2. pc'[s] = "idle" /\ held'[s] = None
  BY DEF Return, GoTo, TypeOK
<1>3. OfferedAt(s)'
  BY <1>2 DEF OfferedAt, Streaming
<1>4. conv' # None /\ Offers(conv)'
  BY DEF Undisturbed, Alone, Busy, Offers
<1> QED
  BY <1>1, <1>3, <1>4, AloneStep

OfferFacts == ChatInv /\ TaskInv /\ OfferInv

\* Undisturbed, no step lets the record offer a task that does not wait.
LEMMA OfferStep == OfferFacts /\ [Next]_vars => OfferInv'
<1> SUFFICES ASSUME OfferFacts, [Next]_vars, ~overlapped' PROVE Undisturbed'
  BY DEF OfferInv
<1>a. ChatInv /\ TypeOK /\ TypeOK' /\ TaskInv
  BY TypesStep DEF OfferFacts, ChatInv
<1> USE DEF database, local, append, patching, history
<1>b. ~overlapped
  BY OverlapStep
<1>c. Undisturbed
  BY <1>b DEF OfferFacts, OfferInv
<1>d. /\ pc \in [Socket -> Phases] /\ event \in [Socket -> Event]
      /\ copy \in [Socket -> Record \cup {None}] /\ held \in [Socket -> Record \cup {None}]
      /\ agent \in [Task -> Outcomes \cup {"working", "unused"}]
      /\ \A s \in Socket : pc[s] # "idle" => copy[s] \in Record
      /\ conv \in Record \cup {None}
  BY <1>a DEF TypeOK, Busy
<1>e. ASSUME NEW s \in Socket, pc[s] # "idle"
      PROVE  conv # None /\ conv \in Record /\ Offers(conv) /\ OfferedAt(s) /\ AnswerAt(s)
  BY <1>a, <1>c, <1>d, <1>e DEF Undisturbed, Alone, Busy, ChatInv, AnswerInv
<1>1. ASSUME NEW s \in Socket, Receive(s) PROVE Undisturbed'
  <2>1. Busy = {} /\ patch = None /\ conv # None
    BY <1>1 DEF Receive, Overlaps
  <2>2. /\ pc'[s] = "config" /\ copy'[s] = conv /\ \A t \in Socket \ {s} : pc'[t] = "idle"
        /\ UNCHANGED <<conv, agent, held, patch>>
    BY <1>1, <1>d, <2>1 DEF Receive, GoTo, Busy
  <2>3. Alone'
    BY <2>1, <2>2 DEF Alone, Busy
  <2>4. Offers(conv)' /\ \A t \in Socket : held'[t] = None
    BY <1>c, <1>a, <2>1, <2>2 DEF Undisturbed, Offers, TypeOK, Busy
  <2>5. \A t \in Socket : OfferedAt(t)'
    BY <2>2, <2>4 DEF OfferedAt, Streaming, Offers
  <2> QED
    BY <2>3, <2>4, <2>5 DEF Undisturbed
<1>2. ASSUME NEW s \in Socket, SaveConfig(s) PROVE Undisturbed'
  <2>1. /\ pc[s] = "config" /\ pc'[s] = "user" /\ conv' = copy[s] /\ held' = held
        /\ UNCHANGED <<agent, patch>> /\ \A t \in Socket \ {s} : pc'[t] = pc[t]
    BY <1>2, <1>d DEF SaveConfig, Save, GoTo
  <2>2. conv' # None /\ Offers(conv)'
    BY <1>d, <1>e, <2>1, ChatAssumption DEF OfferedAt, Offers
  <2>3. OfferedAt(s)'
    BY <2>1, <1>a DEF OfferedAt, Streaming, TypeOK
  <2> QED
    BY <1>a, <1>c, <2>1, <2>2, <2>3, AloneStep
<1>3. ASSUME NEW s \in Socket, NEW r \in Record, NEW n \in Nat, r = conv, pc[s] \in {"user", "answer"},
             Store(s, r, n), Appended(s), UNCHANGED agent,
             \/ held' = held /\ held[s] = None
             \/ held' = [held EXCEPT ![s] = None]
      PROVE  Undisturbed'
  <2>1. /\ \A t \in Socket \ {s} : pc'[t] = pc[t]
        /\ UNCHANGED <<patch, copy>> /\ held'[s] = None
    BY <1>3, <1>d DEF Appended, GoTo, Done
  <2>2. conv' \in Record /\ conv'.awaiting = conv.awaiting /\ conv'.resume = conv.resume
    <3>1. Named(s) \in Task \cup {None}
      BY <1>a DEF Named, TypeOK
    <3>2. conv' = [conv EXCEPT !.count = n, !.last = IF Named(s) = None THEN @ ELSE Named(s)]
      BY <1>3 DEF Store
    <3> QED
      BY <1>3, <3>1, <3>2 DEF Record
  <2>3. conv' # None /\ Offers(conv)'
    BY <1>3, <1>e, <2>2, ChatAssumption DEF Offers
  <2>4. CASE pc[s] = "user"
    <3>1. pc'[s] = "reget"
      BY <1>3, <1>d, <2>4 DEF Appended, GoTo
    <3>2. OfferedAt(s)'
      BY <2>1, <3>1 DEF OfferedAt, Streaming
    <3> QED
      BY <1>3, <1>a, <1>c, <2>1, <2>3, <3>2, AloneStep
  <2>5. CASE pc[s] = "answer"
    <3>1. \/ pc'[s] = "charge"
          \/ pc'[s] = "listen" /\ event[s].kind = "result"
      BY <1>3, <1>d, <2>5 DEF Appended, GoTo
    <3>2. OfferedAt(s)'
      BY <1>3, <1>e, <2>1, <2>2, <2>5, <3>1 DEF OfferedAt, Streaming
    <3> QED
      BY <1>3, <1>a, <1>c, <2>1, <2>3, <3>2, AloneStep
  <2> QED
    BY <1>3, <2>4, <2>5
<1>4. ASSUME NEW s \in Socket, AppendMessage(s) PROVE Undisturbed'
  <2>1. held[s] = None /\ conv \in Record /\ Len(messages) + 1 \in Nat
    BY <1>4, <1>a, <1>d DEF AppendMessage, TypeOK
  <2> QED
    BY <1>3, <1>4, <2>1 DEF AppendMessage, Appended
<1>5. ASSUME NEW s \in Socket, RedisRead(s) PROVE Undisturbed'
  <2>1. /\ pc[s] # "idle" /\ UNCHANGED <<conv, agent, pc, patch, copy, event>>
        /\ held'[s] = conv
    BY <1>5, <1>d DEF RedisRead
  <2>2. conv' # None /\ Offers(conv)' /\ OfferedAt(s)'
    BY <1>e, <2>1 DEF OfferedAt, Streaming, Offers
  <2> QED
    BY <1>a, <1>c, <2>1, <2>2, AloneStep
<1>6. ASSUME NEW s \in Socket, RedisDraw(s) PROVE Undisturbed'
  BY <1>6, <1>c DEF RedisDraw, Undisturbed, Alone, OfferedAt, Streaming, Offers, Busy
<1>7. ASSUME NEW s \in Socket, RedisWrite(s) PROVE Undisturbed'
  <2>1. pc[s] \in {"user", "answer"} /\ drawn[s] \in Nat /\ held[s] = conv /\ conv \in Record
    BY <1>7, <1>a, <1>d, <1>e DEF RedisWrite, TypeOK, OfferedAt
  <2> QED
    BY <1>3, <1>7, <2>1 DEF RedisWrite, Appended
<1>8. ASSUME NEW s \in Socket, Reget(s) PROVE Undisturbed'
  <2>1. /\ pc[s] = "reget" /\ pc'[s] \in {"log", "save"} /\ copy'[s] = Reopened(conv)
        /\ UNCHANGED <<conv, agent, patch, held, event>> /\ \A t \in Socket \ {s} : pc'[t] = pc[t]
    BY <1>8, <1>d DEF Reget, LogAndSave, GoTo
  <2>2. event[s].kind = "turn" /\ ~copy'[s].awaiting /\ held[s] = None
    BY <1>a, <1>e, <2>1 DEF AnswerAt, Reopened, Record, TypeOK
  <2>3. conv' # None /\ Offers(conv)' /\ OfferedAt(s)'
    BY <1>e, <2>1, <2>2 DEF OfferedAt, Streaming, Offers
  <2> QED
    BY <1>a, <1>c, <2>1, <2>3, AloneStep
<1>9. ASSUME NEW s \in Socket, Log(s) PROVE Undisturbed'
  <2>1. /\ pc[s] = "log" /\ pc'[s] = "save" /\ UNCHANGED <<conv, agent, patch, held, event, copy>>
        /\ \A t \in Socket \ {s} : pc'[t] = pc[t]
    BY <1>9, <1>d DEF Log, GoTo
  <2>2. conv' # None /\ Offers(conv)' /\ OfferedAt(s)'
    BY <1>e, <2>1 DEF OfferedAt, Streaming, Offers
  <2> QED
    BY <1>a, <1>c, <2>1, <2>2, AloneStep
<1>10. ASSUME NEW s \in Socket, SaveCopy(s) PROVE Undisturbed'
  <2>1. /\ pc[s] = "save" /\ pc'[s] = AfterSave(s) /\ conv' = copy[s]
        /\ UNCHANGED <<agent, patch, held, copy>> /\ \A t \in Socket \ {s} : pc'[t] = pc[t]
        /\ AfterSave(s) # "listen" => event' = event
    BY <1>10, <1>d DEF SaveCopy, Save, GoTo
  <2>2. held'[s] = None /\ conv' # None
    <3>1. held'[s] = None
      BY <2>1, <1>a DEF TypeOK
    <3>2. conv' # None
      BY <2>1, <1>d, ChatAssumption
    <3> QED
      BY <3>1, <3>2
  <2>3. event[s].kind \in {"turn", "task", "status", "result", "final"}
    BY <1>d DEF Event
  <2>4. Offers(conv)' /\ OfferedAt(s)'
    <3>1. CASE event[s].kind = "final"
      BY <1>e, <2>1, <2>2, <3>1 DEF OfferedAt, Streaming, Offers, AfterSave
    <3>2. CASE event[s].kind # "final"
      <4>1. ~conv'.awaiting /\ ~copy'[s].awaiting /\ pc'[s] \notin {"config", "log", "save"}
        BY <1>e, <2>1, <3>2 DEF OfferedAt, Streaming, AfterSave
      <4> QED
        BY <2>2, <4>1 DEF OfferedAt, Streaming, Offers
    <3> QED
      BY <3>1, <3>2
  <2> QED
    BY <1>a, <1>c, <2>1, <2>2, <2>4, AloneStep
<1>f. ASSUME NEW s \in Socket, Leave(s), pc[s] # "idle" PROVE Undisturbed'
  BY <1>a, <1>c, <1>f, AloneReturn DEF Leave
<1>11. ASSUME NEW s \in Socket, NotFound(s) PROVE Undisturbed'
  BY <1>f, <1>11 DEF NotFound
<1>12. ASSUME NEW s \in Socket, StartTask(s) PROVE Undisturbed'
  <2>1. /\ pc[s] = "start" /\ pc'[s] = "listen" /\ UNCHANGED <<conv, patch, held, copy>>
        /\ \A t \in Socket \ {s} : pc'[t] = pc[t]
    BY <1>12, <1>d DEF StartTask, GoTo
  <2>2. conv' # None /\ Offers(conv)' /\ OfferedAt(s)'
    BY <1>e, <2>1 DEF OfferedAt, Streaming, Offers
  <2> QED
    BY <1>a, <1>c, <2>1, <2>2, AloneStep
<1>13. ASSUME NEW s \in Socket, ContinueTask(s) PROVE Undisturbed'
  <2>1. CASE Leave(s)
    BY <1>f, <1>13, <2>1 DEF ContinueTask
  <2>2. CASE ~Leave(s)
    <3>1. /\ pc[s] = "start" /\ pc'[s] = "listen" /\ UNCHANGED <<conv, patch, held, copy>>
          /\ \A t \in Socket \ {s} : pc'[t] = pc[t]
      BY <1>13, <2>2, <1>d DEF ContinueTask, GoTo
    <3>2. conv' # None /\ Offers(conv)' /\ OfferedAt(s)'
      BY <1>e, <3>1 DEF OfferedAt, Streaming, Offers
    <3> QED
      BY <1>a, <1>c, <3>1, <3>2, AloneStep
  <2> QED
    BY <2>1, <2>2
<1>14. ASSUME NEW s \in Socket, TaskEvent(s) \/ StatusEvent(s) \/ ResultArtifact(s) PROVE Undisturbed'
  <2>1. /\ pc[s] = "listen" /\ UNCHANGED <<agent, conv, patch, held>>
        /\ \/ pc'[s] \in {"log", "save"} /\ event'[s].kind \in {"task", "status", "result"}
           \/ pc'[s] = "listen"
        /\ \A t \in Socket \ {s} : pc'[t] = pc[t]
    BY <1>14, <1>d DEF TaskEvent, StatusEvent, ResultArtifact, Handle, GoTo, LogAndSave, Plain
  <2>2. copy'[s] = copy[s] \/ copy'[s] = Reported(copy[s], task[s])
    BY <1>14, <1>d DEF TaskEvent, StatusEvent, ResultArtifact, Handle
  <2>3. ~conv'.awaiting /\ ~copy'[s].awaiting
    BY <1>d, <1>e, <2>1, <2>2 DEF OfferedAt, Streaming, Reported, Record
  <2>4. conv' # None /\ held'[s] = None
    BY <1>a, <1>e, <2>1 DEF TypeOK
  <2>5. Offers(conv)' /\ OfferedAt(s)'
    BY <2>1, <2>3, <2>4 DEF OfferedAt, Streaming, Offers
  <2> QED
    BY <1>a, <1>c, <2>1, <2>4, <2>5, AloneStep
<1>15. ASSUME NEW s \in Socket, FinalStatus(s) PROVE Undisturbed'
  <2>1. PICK state \in Outcomes, by \in Author :
          /\ agent' = [agent EXCEPT ![task[s]] = state]
          /\ Handle(s, [kind |-> "final", state |-> state, by |-> by],
                    Ended(copy[s], task[s], state), LogAndSave)
    BY <1>15 DEF FinalStatus
  <2>2. /\ pc[s] = "listen" /\ UNCHANGED <<conv, patch, held>> /\ pc'[s] \in {"log", "save"}
        /\ event'[s].kind = "final" /\ copy'[s] = Ended(copy[s], task[s], state)
        /\ \A t \in Socket \ {s} : pc'[t] = pc[t]
    BY <1>15, <2>1, <1>d DEF FinalStatus, Handle, GoTo, LogAndSave
  <2>3. task[s] \in Task /\ agent'[task[s]] = state
    BY <1>a, <1>d, <2>1, <2>2 DEF TaskInv, Streaming
  <2>4. copy'[s].awaiting = (state = "input-required")
        /\ (state = "input-required" => copy'[s].resume = task[s])
    BY <1>d, <2>2 DEF Ended, Record
  <2>5. Offers(copy[s])'
    BY <2>3, <2>4 DEF Offers
  <2>6. ~conv'.awaiting /\ conv' # None /\ held'[s] = None
    BY <1>a, <1>e, <2>2 DEF OfferedAt, Streaming, TypeOK
  <2>7. Offers(conv)' /\ OfferedAt(s)'
    BY <2>2, <2>5, <2>6 DEF OfferedAt, Streaming, Offers
  <2> QED
    BY <1>a, <1>c, <2>2, <2>6, <2>7, AloneStep
<1>16. ASSUME NEW s \in Socket, Charge(s) PROVE Undisturbed'
  BY <1>16, <1>a, <1>c, AloneReturn DEF Charge
<1>17. ASSUME NEW t \in Task, AgentAlone(t) PROVE Undisturbed'
  <2>1. /\ agent[t] = "working" /\ \A u \in Task \ {t} : agent'[u] = agent[u]
        /\ UNCHANGED <<conv, pc, event, copy, held, patch>>
    BY <1>17, <1>d DEF AgentAlone
  <2>2. \A r \in {conv, patch} \cup {copy[s] : s \in Socket} :
          Offers(r) => (r.awaiting => r.resume \in Task /\ agent'[r.resume] = "input-required")
    BY <2>1 DEF Offers
  <2> QED
    BY <1>c, <2>1, <2>2 DEF Undisturbed, Alone, OfferedAt, Streaming, Offers, Busy
<1>18. CASE PatchRead
  BY <1>18, <1>c, <1>d DEF PatchRead, Overlaps, Undisturbed, Alone, OfferedAt, Streaming, Offers, Busy
<1>19. CASE PatchSave
  <2>1. Busy = {} /\ patch # None /\ Offers(patch) /\ \A s \in Socket : held[s] = None
    BY <1>19, <1>a, <1>c DEF PatchSave, Undisturbed, Alone, Busy, TypeOK
  <2>2. /\ conv' = patch \/ conv' = None
        /\ UNCHANGED <<agent, pc, held>> /\ patch' = None
    BY <1>19 DEF PatchSave, Save
  <2>3. Alone'
    BY <2>1, <2>2 DEF Alone, Busy
  <2>4. \A s \in Socket : OfferedAt(s)'
    BY <2>1, <2>2 DEF OfferedAt, Streaming, Busy
  <2> QED
    BY <2>1, <2>2, <2>3, <2>4 DEF Undisturbed, Offers
<1>20. CASE DeleteConversation
  <2>1. Busy = {} /\ patch = None /\ \A s \in Socket : held[s] = None
    BY <1>20, <1>a DEF DeleteConversation, Overlaps, Busy, TypeOK
  <2>2. conv' = None /\ UNCHANGED <<pc, held, patch>>
    BY <1>20 DEF DeleteConversation
  <2> QED
    BY <2>1, <2>2 DEF Undisturbed, Alone, OfferedAt, Streaming, Busy
<1>21. CASE UNCHANGED vars
  <2>1. UNCHANGED <<conv, agent, pc, copy, held, event, patch>>
    BY <1>21 DEF vars
  <2>2. Alone' /\ (conv' # None => Offers(conv)')
    BY <1>c, <2>1 DEF Undisturbed, Alone, Offers, Busy
  <2>3. \A s \in Socket : OfferedAt(s)'
    BY <1>c, <2>1 DEF Undisturbed, OfferedAt, Streaming, Offers
  <2> QED
    BY <2>2, <2>3 DEF Undisturbed
<1>22. ASSUME NEW s \in Socket, Stream(s) PROVE Undisturbed'
  BY <1>2, <1>4, <1>5, <1>6, <1>7, <1>8, <1>9, <1>10, <1>11, <1>12, <1>13, <1>14, <1>15, <1>16,
     <1>22 DEF Stream
<1>23. ASSUME NEW s \in Socket, Abandon(s) PROVE Undisturbed'
  BY <1>f, <1>23 DEF Abandon
<1> QED
  BY <1>1, <1>17, <1>18, <1>19, <1>20, <1>21, <1>22, <1>23 DEF Next

\* A new conversation offers nothing.
LEMMA OfferInit == Init => OfferFacts
<1> SUFFICES ASSUME Init PROVE OfferFacts
  OBVIOUS
<1>1. \A s \in Socket : pc[s] = "idle" /\ held[s] = None
  BY DEF Init
<1>2. TaskInv
  BY <1>1 DEF TaskInv, Streaming
<1>3. Busy = {} /\ patch = None /\ ~conv.awaiting
  BY <1>1 DEF Init, Busy
<1>4. Undisturbed
  BY <1>1, <1>3 DEF Undisturbed, Alone, OfferedAt, Streaming, Offers
<1> QED
  BY <1>2, <1>4, ChatInvInit DEF OfferFacts, OfferInv

\* While no two actors hold a copy of the record at a time, a task it offers to
\* resume waits for input, whichever turns were left half-way.
THEOREM OfferedWaits == Spec => []OffersWaitingTask
<1>1. Init => OfferFacts
  BY OfferInit
<1>2. OfferFacts /\ [Next]_vars => OfferFacts'
  BY ChatInvStep, TaskStep, OfferStep DEF OfferFacts
<1>3. OfferFacts => OffersWaitingTask
  BY ChatAssumption DEF OfferFacts, OfferInv, Undisturbed, Offers, OffersWaitingTask
<1> QED
  BY <1>1, <1>2, <1>3, PTL DEF Spec

-----------------------------------------------------------------------------
(* What an undisturbed record says of the last task and of its messages *)

\* The record says of its last task what the agent, which is done with it, says.
Tells(record) ==
  /\ record.last \in Task /\ record.state = agent[record.last]
  /\ record.state \in Outcomes
  /\ record.awaiting <=> record.state = "input-required"

\* From the final status on the copy tells it, and once it is saved the store.
ToldAt(s) ==
  /\ pc[s] # "idle" => turn[s] = turns
  /\ pc[s] \in {"log", "save"} /\ event[s].kind = "final" => Tells(copy[s]) /\ copy[s].last = task[s]
  /\ pc[s] = "answer" /\ event[s].kind = "final" => Tells(conv) /\ conv.last = task[s]
  /\ pc[s] = "charge" => Tells(conv)

\* The numbers and the role at the end of the messages.
LastNumber == messages[Len(messages)].sequence
NumberBefore == messages[Len(messages) - 1].sequence
LastRole == messages[Len(messages)].role

\* An answer follows the message of the user.
Answered == Len(messages) >= 2 /\ LastRole = "assistant"

\* The record counts up to the last message, or up to the one before the answer.
Counts == conv.count = LastNumber \/ (Answered /\ conv.count = NumberBefore)

\* Behind the message of the user the copy counts up to it, and so does the store
\* until the answer.
CountedAt(s) ==
  /\ pc[s] # "idle" /\ event[s].kind = "turn" => ~persisted[s]
  /\ pc[s] \notin {"idle", "config", "user"} =>
       /\ messages # <<>>
       /\ ~persisted[s] => conv.count = LastNumber /\ (pc[s] # "reget" => copy[s].count = LastNumber)
       /\ persisted[s] => Answered /\ copy[s].count = NumberBefore

\* What is read from the store and held stays what is stored.
Unmoved == (patch # None => patch = conv) /\ \A s \in Socket : pc[s] = "config" => copy[s] = conv

Faithful ==
  /\ Unmoved
  /\ \A s \in Socket : ToldAt(s) /\ CountedAt(s)
  /\ conv # None /\ messages # <<>> => Counts
  /\ conv # None /\ Busy = {} /\ turns > 0 /\ turns \notin abandoned => Tells(conv)

FaithInv == ~overlapped => Faithful

\* All that is known of the record, for the two properties below.
RecordFacts == OfferFacts /\ FaithInv

\* A step of the one turn under way, which goes on: what its record says has to be
\* shown for that turn and for the count.
LEMMA FaithfulStep ==
  ASSUME Undisturbed, NEW s \in Socket, pc[s] # "idle", pc'[s] \notin {"idle", "config"},
         \A t \in Socket \ {s} : pc'[t] = pc[t],
         UNCHANGED patch, ToldAt(s)', CountedAt(s)', messages' # <<>> => Counts'
  PROVE  Faithful'
<1>1. \A t \in Socket \ {s} : pc'[t] = "idle"
  BY DEF Undisturbed, Alone, Busy
<1>2. patch' = None /\ Busy' # {}
  BY DEF Undisturbed, Alone, Busy
<1>3. \A t \in Socket \ {s} : ToldAt(t)' /\ CountedAt(t)'
  BY <1>1 DEF ToldAt, CountedAt
<1>4. Unmoved'
  BY <1>1, <1>2 DEF Unmoved
<1> QED
  BY <1>2, <1>3, <1>4 DEF Faithful

\* One that leaves the store alone.
LEMMA ListeningStep ==
  ASSUME Undisturbed, Faithful, NEW s \in Socket, pc[s] # "idle", pc'[s] \notin {"idle", "config"},
         \A t \in Socket \ {s} : pc'[t] = pc[t],
         UNCHANGED <<patch, conv, messages>>, ToldAt(s)', CountedAt(s)'
  PROVE  Faithful'
<1>1. conv # None
  BY DEF Undisturbed, Alone, Busy
<1>2. messages' # <<>> => Counts'
  BY <1>1 DEF Faithful, Counts, Answered, LastNumber, NumberBefore, LastRole
<1> QED
  BY <1>2, FaithfulStep

\* The end of the turn, half-way or with the record that tells its task.
LEMMA FaithfulReturn ==
  ASSUME TypeOK, Undisturbed, Faithful, NEW s \in Socket, pc[s] # "idle", Return(s),
         UNCHANGED <<conv, messages, agent, patch, turns>>,
         turns \in abandoned' \/ Tells(conv)
  PROVE  Faithful'
<1>1. \A t \in Socket : pc'[t] = "idle"
  BY DEF Return, GoTo, TypeOK, Undisturbed, Alone, Busy
<1>2. patch' = None /\ conv # None
  BY DEF Undisturbed, Alone, Busy
<1>3. \A t \in Socket : ToldAt(t)' /\ CountedAt(t)'
  BY <1>1 DEF ToldAt, CountedAt
<1>4. Unmoved'
  BY <1>1, <1>2 DEF Unmoved
<1>5. messages' # <<>> => Counts'
  BY <1>2 DEF Faithful, Counts, Answered, LastNumber, NumberBefore, LastRole
<1>6. turns' \notin abandoned' => Tells(conv)'
  BY DEF Tells
<1> QED
  BY <1>3, <1>4, <1>5, <1>6 DEF Faithful

\* A message at the end, and what is before it.
LEMMA AppendedMessages ==
  ASSUME TypeOK, NEW s \in Socket, NEW r \in Record, NEW n \in Nat, Store(s, r, n)
  PROVE  /\ messages' # <<>> /\ Len(messages') = Len(messages) + 1 /\ Len(messages) \in Nat
         /\ LastNumber' = n /\ LastRole' = IF pc[s] = "user" THEN "user" ELSE "assistant"
         /\ messages # <<>> => NumberBefore' = LastNumber /\ Len(messages') >= 2
         /\ conv'.count = n
         /\ conv'.last = IF Named(s) = None THEN r.last ELSE Named(s)
         /\ conv'.state = r.state /\ conv'.awaiting = r.awaiting
<1>1. messages \in Seq([role : {"user", "assistant"}, turn : Nat, sequence : Nat])
  BY DEF TypeOK
<1>2. messages' = Append(messages, Message(s, n))
  BY DEF Store
<1>3. /\ Len(messages') = Len(messages) + 1 /\ Len(messages) \in Nat
      /\ messages'[Len(messages')] = Message(s, n)
      /\ \A i \in 1..Len(messages) : messages'[i] = messages[i]
  BY <1>1, <1>2
<1>4. messages # <<>> => Len(messages) \in 1..Len(messages)
  BY <1>1, <1>3
<1>5. messages # <<>> => messages'[Len(messages') - 1] = messages[Len(messages)]
  BY <1>3, <1>4
<1>6. Message(s, n).sequence = n /\ Message(s, n).role = IF pc[s] = "user" THEN "user" ELSE "assistant"
  BY DEF Message
<1>7. conv' = [r EXCEPT !.count = n, !.last = IF Named(s) = None THEN @ ELSE Named(s)]
  BY DEF Store
<1>8. /\ conv'.count = n /\ conv'.last = IF Named(s) = None THEN r.last ELSE Named(s)
      /\ conv'.state = r.state /\ conv'.awaiting = r.awaiting
  BY <1>7 DEF Record
<1> QED
  BY <1>3, <1>4, <1>5, <1>6, <1>8 DEF LastNumber, LastRole, NumberBefore

\* The append of a message by the one turn under way.
LEMMA FaithfulAppend ==
  ASSUME ChatInv, Undisturbed, Faithful, NEW s \in Socket, NEW n \in Nat,
         pc[s] \in {"user", "answer"}, conv \in Record, conv # None,
         Store(s, conv, n), Appended(s), UNCHANGED agent
  PROVE  Faithful'
<1>1. TypeOK /\ AnswerAt(s) /\ ToldAt(s) /\ CountedAt(s)
  BY DEF ChatInv, AnswerInv, Faithful
<1>2. /\ pc \in [Socket -> Phases] /\ persisted \in [Socket -> BOOLEAN]
      /\ task \in [Socket -> Task \cup {None}]
  BY <1>1 DEF TypeOK
<1>3. /\ messages' # <<>> /\ Len(messages') = Len(messages) + 1 /\ Len(messages) \in Nat
      /\ LastNumber' = n /\ LastRole' = IF pc[s] = "user" THEN "user" ELSE "assistant"
      /\ messages # <<>> => NumberBefore' = LastNumber /\ Len(messages') >= 2
      /\ conv'.count = n
      /\ conv'.last = IF Named(s) = None THEN conv.last ELSE Named(s)
      /\ conv'.state = conv.state /\ conv'.awaiting = conv.awaiting
  BY <1>1, AppendedMessages
<1>4. /\ \A t \in Socket \ {s} : pc'[t] = pc[t]
      /\ UNCHANGED <<patch, copy, turns, turn, task>>
      /\ persisted'[s] = (persisted[s] \/ pc[s] = "answer")
  BY <1>2 DEF Appended, GoTo, Remembered, patching
<1>5. messages' # <<>> => Counts'
  BY <1>3 DEF Counts
<1>6. turn'[s] = turns'
  BY <1>1, <1>4 DEF ToldAt
<1>7. CASE pc[s] = "user"
  <2>1. pc'[s] = "reget" /\ event' = event
    BY <1>2, <1>7 DEF Appended, GoTo
  <2>2. ~persisted[s]
    BY <1>1, <1>7 DEF AnswerAt, CountedAt
  <2>3. ToldAt(s)'
    BY <1>6, <2>1 DEF ToldAt
  <2>4. CountedAt(s)'
    BY <1>3, <1>4, <1>7, <2>1, <2>2 DEF CountedAt
  <2> QED
    BY <1>4, <1>5, <1>7, <2>1, <2>3, <2>4, FaithfulStep
<1>8. CASE pc[s] = "answer"
  <2>1. \/ event[s].kind = "final" /\ pc'[s] = "charge"
        \/ event[s].kind = "result" /\ pc'[s] = "listen"
    BY <1>1, <1>2, <1>8 DEF Appended, GoTo, AnswerAt
  <2>2. ~persisted[s] /\ persisted'[s]
    BY <1>1, <1>4, <1>8 DEF AnswerAt
  <2>3. messages # <<>> /\ copy[s].count = LastNumber
    BY <1>1, <1>8, <2>2 DEF CountedAt
  <2>4. CountedAt(s)'
    <3>1. event \in [Socket -> Event]
      BY <1>1 DEF TypeOK
    <3>2. event'[s].kind # "turn"
      BY <2>1, <3>1 DEF Appended, Done, Plain
    <3> QED
      BY <1>3, <1>4, <1>8, <2>2, <2>3, <3>2 DEF CountedAt, Answered
  <2>5. event[s].kind = "final" => Tells(conv) /\ conv.last = task[s] /\ task[s] # None
    BY <1>1, <1>8, ChatAssumption DEF ToldAt, Tells
  <2>6. event[s].kind = "final" => Tells(conv)'
    BY <1>3, <1>8, <2>5 DEF Tells, Named
  <2>7. ToldAt(s)'
    BY <1>6, <2>1, <2>6 DEF ToldAt
  <2> QED
    BY <1>4, <1>5, <1>8, <2>1, <2>4, <2>7, FaithfulStep
<1> QED
  BY <1>7, <1>8

\* No step of one actor alone makes the record untrue.
LEMMA FaithStep == RecordFacts /\ [Next]_vars => FaithInv'
<1> SUFFICES ASSUME RecordFacts, [Next]_vars, ~overlapped' PROVE Faithful'
  BY DEF FaithInv
<1>a. ChatInv /\ TypeOK /\ TypeOK' /\ TaskInv
  BY TypesStep DEF RecordFacts, OfferFacts, ChatInv
<1> USE DEF database, local, append, patching, history
<1>b. ~overlapped /\ Undisturbed /\ Faithful
  BY OverlapStep DEF RecordFacts, OfferFacts, OfferInv, FaithInv
<1>c. /\ pc \in [Socket -> Phases] /\ event \in [Socket -> Event]
      /\ copy \in [Socket -> Record \cup {None}] /\ held \in [Socket -> Record \cup {None}]
      /\ agent \in [Task -> Outcomes \cup {"working", "unused"}]
      /\ task \in [Socket -> Task \cup {None}] /\ turn \in [Socket -> Nat] /\ turns \in Nat
      /\ \A s \in Socket : pc[s] # "idle" => copy[s] \in Record
      /\ conv \in Record \cup {None}
  BY <1>a DEF TypeOK, Busy
<1>d. ASSUME NEW s \in Socket, pc[s] # "idle"
      PROVE  /\ conv # None /\ conv \in Record /\ OfferedAt(s) /\ AnswerAt(s)
             /\ ToldAt(s) /\ CountedAt(s) /\ (messages # <<>> => Counts)
  BY <1>a, <1>b, <1>c, <1>d DEF Undisturbed, Alone, Busy, ChatInv, AnswerInv, Faithful
<1>1. ASSUME NEW s \in Socket, Receive(s) PROVE Faithful'
  <2>1. Busy = {} /\ patch = None /\ conv # None
    BY <1>1 DEF Receive, Overlaps
  <2>2. /\ pc'[s] = "config" /\ copy'[s] = conv /\ \A t \in Socket \ {s} : pc'[t] = "idle"
        /\ turn'[s] = turns' /\ ~persisted'[s] /\ UNCHANGED <<conv, messages, patch>>
    BY <1>1, <1>a, <1>c, <2>1 DEF Receive, GoTo, Busy, ChatInv, AnswerInv, AnswerAt
  <2>3. Unmoved' /\ Busy' # {}
    BY <2>1, <2>2 DEF Unmoved, Busy
  <2>4. \A t \in Socket : ToldAt(t)' /\ CountedAt(t)'
    BY <2>2 DEF ToldAt, CountedAt
  <2>5. messages' # <<>> => Counts'
    BY <1>b, <2>1, <2>2 DEF Faithful, Counts, Answered, LastNumber, NumberBefore, LastRole
  <2> QED
    BY <2>3, <2>4, <2>5 DEF Faithful
<1>2. ASSUME NEW s \in Socket, SaveConfig(s) PROVE Faithful'
  <2>1. /\ pc[s] = "config" /\ pc'[s] = "user" /\ conv' = copy[s]
        /\ UNCHANGED <<patch, messages, turn, turns, event, persisted>> /\ \A t \in Socket \ {s} : pc'[t] = pc[t]
    BY <1>2, <1>c DEF SaveConfig, Save, GoTo
  <2>2. UNCHANGED conv
    BY <1>b, <2>1 DEF Faithful, Unmoved
  <2>3. ToldAt(s)' /\ CountedAt(s)'
    BY <1>d, <2>1 DEF ToldAt, CountedAt
  <2> QED
    BY <1>b, <2>1, <2>2, <2>3, ListeningStep
<1>3. ASSUME NEW s \in Socket, AppendMessage(s) PROVE Faithful'
  <2>1. /\ pc[s] \in {"user", "answer"} /\ conv \in Record /\ conv # None /\ Len(messages) + 1 \in Nat
        /\ Store(s, conv, Len(messages) + 1) /\ Appended(s) /\ UNCHANGED agent
    BY <1>3, <1>a, <1>c DEF AppendMessage, TypeOK, Appended
  <2> QED
    BY <1>a, <1>b, <2>1, FaithfulAppend
<1>4. ASSUME NEW s \in Socket, RedisRead(s) \/ RedisDraw(s) PROVE Faithful'
  <2>1. /\ pc[s] \in {"user", "answer"}
        /\ UNCHANGED <<conv, messages, agent, turns, turn, pc, patch, copy, event, task, persisted>>
    BY <1>4, <1>a DEF RedisRead, RedisDraw, TypeOK
  <2>2. ToldAt(s)' /\ CountedAt(s)'
    BY <1>d, <2>1 DEF ToldAt, CountedAt, Tells, Answered, LastNumber, NumberBefore, LastRole
  <2> QED
    BY <1>b, <2>1, <2>2, ListeningStep
<1>5. ASSUME NEW s \in Socket, RedisWrite(s) PROVE Faithful'
  <2>1. pc[s] \in {"user", "answer"} /\ drawn[s] \in Nat /\ held[s] # None
    BY <1>5, <1>a DEF RedisWrite, TypeOK
  <2>2. held[s] = conv /\ conv \in Record /\ conv # None
    BY <1>d, <2>1 DEF OfferedAt
  <2>3. Store(s, conv, drawn[s]) /\ Appended(s) /\ UNCHANGED agent
    BY <1>5, <2>2 DEF RedisWrite, Appended
  <2> QED
    BY <1>a, <1>b, <2>1, <2>2, <2>3, FaithfulAppend
<1>6. ASSUME NEW s \in Socket, Reget(s) PROVE Faithful'
  <2>1. /\ pc[s] = "reget" /\ pc'[s] \in {"log", "save"} /\ copy'[s] = Reopened(conv)
        /\ UNCHANGED <<conv, messages, patch, event, persisted, turn, turns>>
        /\ \A t \in Socket \ {s} : pc'[t] = pc[t]
    BY <1>6, <1>c DEF Reget, LogAndSave, GoTo
  <2>2. copy'[s].count = conv.count
    BY <1>d, <2>1 DEF Reopened, Record
  <2>3. event[s].kind = "turn" /\ ~persisted[s]
    BY <1>d, <2>1 DEF AnswerAt, CountedAt
  <2>4. ToldAt(s)' /\ CountedAt(s)'
    BY <1>d, <2>1, <2>2, <2>3 DEF ToldAt, CountedAt, Answered, LastNumber, NumberBefore, LastRole
  <2> QED
    BY <1>b, <2>1, <2>4, ListeningStep
<1>7. ASSUME NEW s \in Socket, Log(s) PROVE Faithful'
  <2>1. /\ pc[s] = "log" /\ pc'[s] = "save"
        /\ UNCHANGED <<conv, messages, agent, patch, event, copy, task, persisted, turn, turns>>
        /\ \A t \in Socket \ {s} : pc'[t] = pc[t]
    BY <1>7, <1>c DEF Log, GoTo
  <2>2. ToldAt(s)' /\ CountedAt(s)'
    BY <1>d, <2>1 DEF ToldAt, CountedAt, Tells, Answered, LastNumber, NumberBefore, LastRole
  <2> QED
    BY <1>b, <2>1, <2>2, ListeningStep
<1>8. ASSUME NEW s \in Socket, SaveCopy(s) PROVE Faithful'
  <2>1. /\ pc[s] = "save" /\ pc'[s] = AfterSave(s) /\ conv' = copy[s]
        /\ UNCHANGED <<messages, agent, patch, copy, task, persisted, turn, turns>>
        /\ \A t \in Socket \ {s} : pc'[t] = pc[t]
        /\ event'[s] = IF AfterSave(s) = "listen" THEN Plain("status") ELSE event[s]
    BY <1>8, <1>c DEF SaveCopy, Save, GoTo, Done
  <2>2. AfterSave(s) \in {"start", "listen", "answer", "charge"}
    BY DEF AfterSave
  <2>3. /\ messages # <<>>
        /\ ~persisted[s] => copy[s].count = LastNumber
        /\ persisted[s] => Answered /\ copy[s].count = NumberBefore
    BY <1>d, <2>1 DEF CountedAt
  <2>4. UNCHANGED <<LastNumber, NumberBefore, LastRole, Answered>>
    BY <2>1 DEF LastNumber, NumberBefore, LastRole, Answered
  <2>5. messages' # <<>> => Counts'
    BY <2>1, <2>3, <2>4 DEF Counts
  <2>6. CountedAt(s)'
    <3>1. event'[s].kind = "turn" => ~persisted'[s]
      BY <1>d, <2>1 DEF CountedAt, Plain
    <3> QED
      BY <2>1, <2>3, <2>4, <3>1 DEF CountedAt
  <2>7. ToldAt(s)'
    <3>1. CASE event[s].kind = "final"
      <4>1. AfterSave(s) \in {"answer", "charge"} /\ Tells(copy[s]) /\ copy[s].last = task[s]
        BY <1>d, <2>1, <3>1 DEF AfterSave, ToldAt
      <4>2. Tells(conv)' /\ conv'.last = task'[s]
        BY <2>1, <4>1 DEF Tells
      <4> QED
        BY <1>d, <2>1, <4>1, <4>2 DEF ToldAt
    <3>2. CASE event[s].kind # "final"
      <4>1. AfterSave(s) # "charge" /\ event'[s].kind # "final"
        BY <2>1, <3>2 DEF AfterSave, Plain
      <4> QED
        BY <1>d, <2>1, <2>2, <4>1 DEF ToldAt
    <3> QED
      BY <3>1, <3>2
  <2> QED
    BY <1>b, <2>1, <2>2, <2>5, <2>6, <2>7, FaithfulStep
<1>f. ASSUME NEW s \in Socket, Leave(s), pc[s] # "idle" PROVE Faithful'
  <2>1. turns \in abandoned'
    BY <1>d, <1>f DEF Leave, ToldAt
  <2> QED
    BY <1>a, <1>b, <1>f, <2>1, FaithfulReturn DEF Leave
<1>9. ASSUME NEW s \in Socket, NotFound(s) \/ Abandon(s) PROVE Faithful'
  BY <1>f, <1>9 DEF NotFound, Abandon
<1>10. ASSUME NEW s \in Socket, StartTask(s) \/ (ContinueTask(s) /\ ~Leave(s)) PROVE Faithful'
  <2>1. /\ pc[s] = "start" /\ pc'[s] = "listen"
        /\ UNCHANGED <<conv, messages, patch, event, copy, persisted, turn, turns>>
        /\ \A t \in Socket \ {s} : pc'[t] = pc[t]
    BY <1>10, <1>c DEF StartTask, ContinueTask, GoTo
  <2>2. ToldAt(s)' /\ CountedAt(s)'
    BY <1>d, <2>1 DEF ToldAt, CountedAt, Answered, LastNumber, NumberBefore, LastRole
  <2> QED
    BY <1>b, <2>1, <2>2, ListeningStep
<1>11. ASSUME NEW s \in Socket, ContinueTask(s) PROVE Faithful'
  <2>1. CASE Leave(s)
    BY <1>f, <1>11, <2>1 DEF ContinueTask
  <2>2. CASE ~Leave(s)
    BY <1>10, <1>11, <2>2
  <2> QED
    BY <2>1, <2>2
<1>12. ASSUME NEW s \in Socket, TaskEvent(s) \/ StatusEvent(s) \/ ResultArtifact(s) PROVE Faithful'
  <2>1. /\ pc[s] = "listen" /\ pc'[s] \in {"log", "save", "listen"}
        /\ event'[s].kind \in {"task", "status", "result"}
        /\ UNCHANGED <<conv, messages, patch, persisted, turn, turns>>
        /\ \A t \in Socket \ {s} : pc'[t] = pc[t]
    BY <1>12, <1>c DEF TaskEvent, StatusEvent, ResultArtifact, Handle, GoTo, LogAndSave, Plain
  <2>2. copy'[s] = copy[s] \/ copy'[s] = Reported(copy[s], task[s])
    BY <1>12, <1>c DEF TaskEvent, StatusEvent, ResultArtifact, Handle
  <2>3. copy'[s].count = copy[s].count
    BY <1>c, <2>1, <2>2 DEF Reported, Record
  <2>4. ToldAt(s)' /\ CountedAt(s)'
    BY <1>d, <2>1, <2>3 DEF ToldAt, CountedAt, Answered, LastNumber, NumberBefore, LastRole
  <2> QED
    BY <1>b, <2>1, <2>4, ListeningStep
<1>13. ASSUME NEW s \in Socket, FinalStatus(s) PROVE Faithful'
  <2>1. PICK state \in Outcomes, by \in Author :
          /\ agent' = [agent EXCEPT ![task[s]] = state]
          /\ Handle(s, [kind |-> "final", state |-> state, by |-> by],
                    Ended(copy[s], task[s], state), LogAndSave)
    BY <1>13 DEF FinalStatus
  <2>2. /\ pc[s] = "listen" /\ pc'[s] \in {"log", "save"} /\ event'[s].kind = "final"
        /\ copy'[s] = Ended(copy[s], task[s], state)
        /\ UNCHANGED <<conv, messages, patch, persisted, task, turn, turns>>
        /\ \A t \in Socket \ {s} : pc'[t] = pc[t]
    BY <1>13, <2>1, <1>c DEF FinalStatus, Handle, GoTo, LogAndSave
  <2>3. task[s] \in Task /\ agent'[task[s]] = state
    BY <1>a, <1>c, <2>1, <2>2 DEF TaskInv, Streaming
  <2>4. /\ copy'[s].last = task[s] /\ copy'[s].state = state /\ copy'[s].count = copy[s].count
        /\ copy'[s].awaiting = (state = "input-required")
    BY <1>c, <2>2 DEF Ended, Record
  <2>5. Tells(copy[s])' /\ copy'[s].last = task'[s]
    BY <2>2, <2>3, <2>4 DEF Tells
  <2>6. ToldAt(s)' /\ CountedAt(s)'
    BY <1>d, <2>2, <2>4, <2>5 DEF ToldAt, CountedAt, Answered, LastNumber, NumberBefore, LastRole
  <2> QED
    BY <1>b, <2>2, <2>6, ListeningStep
<1>14. ASSUME NEW s \in Socket, Charge(s) PROVE Faithful'
  <2>1. pc[s] = "charge" /\ Tells(conv) /\ Return(s) /\ UNCHANGED <<conv, messages, agent, patch, turns>>
    BY <1>d, <1>14 DEF Charge, ToldAt
  <2> QED
    BY <1>a, <1>b, <2>1, FaithfulReturn
<1>15. ASSUME NEW t \in Task, AgentAlone(t) PROVE Faithful'
  <2>1. /\ agent[t] = "working" /\ \A u \in Task \ {t} : agent'[u] = agent[u]
        /\ UNCHANGED <<conv, messages, pc, event, copy, held, patch, task, persisted, turn, turns, abandoned>>
    BY <1>15, <1>c DEF AgentAlone
  <2>2. \A r : Tells(r) => Tells(r)'
    BY <2>1 DEF Tells, Outcomes
  <2>3. \A s \in Socket : ToldAt(s)' /\ CountedAt(s)'
    BY <1>b, <2>1, <2>2 DEF Faithful, ToldAt, CountedAt, Answered, LastNumber, NumberBefore, LastRole
  <2>4. messages' # <<>> /\ conv' # None => Counts'
    BY <1>b, <2>1 DEF Faithful, Counts, Answered, LastNumber, NumberBefore, LastRole
  <2>5. Unmoved'
    BY <1>b, <2>1 DEF Faithful, Unmoved
  <2> QED
    BY <1>b, <2>1, <2>2, <2>3, <2>4, <2>5 DEF Faithful, Busy
<1>g. CASE /\ UNCHANGED <<conv, messages, agent, pc, event, copy, held, task, persisted, turn, turns, abandoned>>
           /\ patch' \in {patch, conv, None}
  <2>1. \A s \in Socket : ToldAt(s)' /\ CountedAt(s)'
    BY <1>b, <1>g DEF Faithful, ToldAt, CountedAt, Tells, Answered, LastNumber, NumberBefore, LastRole
  <2>2. messages' # <<>> /\ conv' # None => Counts'
    BY <1>b, <1>g DEF Faithful, Counts, Answered, LastNumber, NumberBefore, LastRole
  <2>3. Unmoved'
    BY <1>b, <1>g DEF Faithful, Unmoved
  <2> QED
    BY <1>b, <1>g, <2>1, <2>2, <2>3 DEF Faithful, Busy, Tells
<1>16. CASE PatchRead
  BY <1>g, <1>16 DEF PatchRead
<1>17. CASE PatchSave
  <2>1. patch = conv
    BY <1>b, <1>17 DEF PatchSave, Faithful, Unmoved
  <2> QED
    BY <1>g, <1>17, <2>1 DEF PatchSave, Save
<1>18. CASE DeleteConversation
  <2>1. Busy = {} /\ patch = None
    BY <1>18 DEF DeleteConversation, Overlaps
  <2>2. conv' = None /\ UNCHANGED <<pc, patch>> /\ \A s \in Socket : pc[s] = "idle"
    BY <1>18, <2>1 DEF DeleteConversation, Busy
  <2> QED
    BY <2>1, <2>2 DEF Faithful, Unmoved, ToldAt, CountedAt
<1>19. CASE UNCHANGED vars
  BY <1>g, <1>19 DEF vars
<1>20. ASSUME NEW s \in Socket, Stream(s) PROVE Faithful'
  BY <1>2, <1>3, <1>4, <1>5, <1>6, <1>7, <1>8, <1>9, <1>10, <1>11, <1>12, <1>13, <1>14, <1>20 DEF Stream
<1> QED
  BY <1>1, <1>9, <1>15, <1>16, <1>17, <1>18, <1>19, <1>20 DEF Next

\* A new conversation has no messages to count and no task to tell of.
LEMMA FaithInit == Init => RecordFacts
<1> SUFFICES ASSUME Init PROVE RecordFacts
  OBVIOUS
<1>1. \A s \in Socket : pc[s] = "idle"
  BY DEF Init
<1>2. patch = None /\ turns = 0 /\ messages = <<>>
  BY DEF Init
<1>3. Faithful
  BY <1>1, <1>2 DEF Faithful, Unmoved, ToldAt, CountedAt
<1> QED
  BY <1>3, OfferInit DEF RecordFacts, FaithInv

\* The facts about an undisturbed record hold throughout.
LEMMA FaithAlways == Spec => []RecordFacts
<1>1. Init => RecordFacts
  BY FaithInit
<1>2. RecordFacts /\ [Next]_vars => RecordFacts'
  BY ChatInvStep, TaskStep, OfferStep, FaithStep DEF RecordFacts, OfferFacts
<1> QED
  BY <1>1, <1>2, PTL DEF Spec

\* At rest behind a turn that was not left half-way, the conversation says of its
\* last task what the agent says of it, and waits for the user exactly when the task
\* does: no save of an older copy follows the one of the final status.
THEOREM RestTells == Spec => []RestTellsTheTask
<1>1. RecordFacts => RestTellsTheTask
  <2> SUFFICES ASSUME RecordFacts, ~overlapped, Busy = {}, conv # None, turns > 0, turns \notin abandoned
               PROVE  /\ conv.last # None /\ conv.state = agent[conv.last]
                      /\ conv.awaiting <=> agent[conv.last] = "input-required"
    BY DEF RestTellsTheTask
  <2>1. Tells(conv)
    BY DEF RecordFacts, FaithInv, Faithful
  <2> QED
    BY <2>1, ChatAssumption DEF Tells
<1> QED
  BY <1>1, FaithAlways, PTL

\* The count of an undisturbed record is never further behind than by the answer its
\* turn stored, which the next save of the turn's copy takes back.
THEOREM CountLags == Spec => []CountLagsByAnswer
<1>1. RecordFacts => CountLagsByAnswer
  <2> SUFFICES ASSUME RecordFacts, ~overlapped, conv # None, messages # <<>>
               PROVE  \/ conv.count = LastNumber
                      \/ LastRole = "assistant" /\ conv.count = NumberBefore
    BY DEF CountLagsByAnswer, LastNumber, NumberBefore, LastRole
  <2>1. Counts
    BY DEF RecordFacts, FaithInv, Faithful
  <2> QED
    BY <2>1 DEF Counts, Answered
<1> QED
  BY <1>1, FaithAlways, PTL

=============================================================================
