-------------------------------- MODULE Client --------------------------------
(***************************************************************************)
(* Ka2aClient of client.py: calls and streams over Kafka.  A request is    *)
(* registered under its id, sent, and waits for the first response that    *)
(* carries the id; a stream then reads every response that carries it.     *)
(* One reader loop hands the responses of the reply topic out.             *)
(*                                                                         *)
(* Responses of one request have its id as their key and so lie in one     *)
(* partition, in the order they were sent; different requests are          *)
(* unordered, so the topic is one log per request.  The agent is external: *)
(* it answers, and for a stream forwards records, concurrently (the model  *)
(* of it is AgentRuntime).  Kafka may hand a request to the agent again    *)
(* and rewind the reply consumer to its last commit.                       *)
(***************************************************************************)
EXTENDS Integers, Sequences

CONSTANTS
  Req,        \* requests
  Timed,      \* those with a time limit
  MaxEvents,  \* records an execution forwards before its final one
  MaxRepeats  \* redelivered requests and rewinds of the reader

ASSUME ClientAssumption ==
  /\ Timed \subseteq Req
  /\ MaxEvents \in Nat /\ MaxRepeats \in Nat

Execs == 1 .. MaxRepeats + 1
Items == {"ok", "error", "event", "final"}
None == "none"
Gone == <<"gone">>

VARIABLES
  kind,     \* of a request: made by call(), or by one of the three that stream
  pc,       \* of a request at its caller
  pending,  \* _pending
  answer,   \* the result of a request's future; "canceled" when wait_for gave it up
  queue,    \* _streams: the queue of a request, or Gone
  got,      \* what the caller's iterator has yielded
  reading,  \* the reader loop: "joining", "on" or "off"
  pos,      \* the reader's position in the log of a request
  topic,    \* the reply topic
  agent,    \* executions: the answer due, and the forwarder
  spent     \* redeliveries and rewinds so far

vars == <<kind, pc, pending, answer, queue, got, reading, pos, topic, agent, spent>>
local == <<kind, pc, pending, answer, queue, got>>
remote == <<topic, agent>>

Fresh == [due |-> "no", forward |-> "new", sent |-> 0]

Init ==
  /\ kind \in [Req -> {"call", "stream"}]
  /\ pc = [r \in Req |-> "new"]
  /\ pending = {}
  /\ answer = [r \in Req |-> None]
  /\ queue = [r \in Req |-> Gone]
  /\ got = [r \in Req |-> <<>>]
  /\ reading = "joining"
  /\ pos = [r \in Req |-> 0]
  /\ topic = [r \in Req |-> <<>>]
  /\ agent = [r \in Req |-> [e \in Execs |-> Fresh]]
  /\ spent = [redelivery |-> 0, rewind |-> 0]

Streaming(r) == kind[r] = "stream"
MayRepeat == spent.redelivery + spent.rewind < MaxRepeats

Become(r, phase) == UNCHANGED kind /\ pc' = [pc EXCEPT ![r] = phase]
Forget(r) == queue' = [queue EXCEPT ![r] = Gone]

-----------------------------------------------------------------------------
(* The caller *)

\* Registration, up to the await of the producer.
Register(r) ==
  /\ pc[r] = "new"
  /\ Become(r, "sending")
  /\ pending' = pending \cup {r}
  /\ queue' = [queue EXCEPT ![r] = IF Streaming(r) THEN <<>> ELSE Gone]
  /\ UNCHANGED <<answer, got, reading, pos, remote, spent>>

Sent(r) ==
  /\ pc[r] = "sending" /\ Become(r, "waiting")
  /\ UNCHANGED <<pending, answer, queue, got, reading, pos, remote, spent>>

\* The producer raises, though the broker may have the request: both entries stay.
SendFails(r) ==
  /\ pc[r] = "sending" /\ Become(r, "failed")
  /\ UNCHANGED <<pending, answer, queue, got, reading, pos, remote, spent>>

\* Mutant of Resume: an error answer leaves the stream's queue registered.
ResumeKeepingQueue(r) ==
  /\ pc[r] = "waiting" /\ answer[r] # None
  /\ Become(r, IF answer[r] = "error" THEN "error"
               ELSE IF Streaming(r) THEN "open" ELSE "answered")
  /\ UNCHANGED <<pending, answer, queue, got, reading, pos, remote, spent>>

\* The future is resolved.
Resume(r) ==
  /\ pc[r] = "waiting" /\ answer[r] # None
  /\ \/ answer[r] = "error" /\ Become(r, "error") /\ Forget(r)
     \/ answer[r] # "error" /\ ~Streaming(r) /\ Become(r, "answered") /\ UNCHANGED queue
     \/ answer[r] # "error" /\ Streaming(r) /\ Become(r, "open") /\ UNCHANGED queue
  /\ UNCHANGED <<pending, answer, got, reading, pos, remote, spent>>

\* Mutant of Timeout: only calls have a time limit.
TimeoutOfCall(r) ==
  /\ pc[r] = "waiting" /\ r \in Timed /\ ~Streaming(r)
  /\ Become(r, "timedout")
  /\ answer' = [answer EXCEPT ![r] = IF @ = None THEN "canceled" ELSE @]
  /\ UNCHANGED <<pending, queue, got, reading, pos, remote, spent>>

\* wait_for gives up, possibly with the answer there but not yet seen; the
\* entries stay.
Timeout(r) ==
  /\ pc[r] = "waiting" /\ r \in Timed
  /\ Become(r, "timedout")
  /\ answer' = [answer EXCEPT ![r] = IF @ = None THEN "canceled" ELSE @]
  /\ UNCHANGED <<pending, queue, got, reading, pos, remote, spent>>

\* The caller is cancelled while it waits: the future goes with it, the entries stay.
Interrupted(r) ==
  /\ pc[r] = "waiting" /\ Become(r, "failed")
  /\ answer' = [answer EXCEPT ![r] = IF @ = None THEN "canceled" ELSE @]
  /\ UNCHANGED <<pending, queue, got, reading, pos, remote, spent>>

\* Mutant of Pull: a final status is like any other.
PullOn(r) ==
  /\ pc[r] = "open" /\ queue[r] # <<>>
  /\ IF Head(queue[r]) = "error" THEN Become(r, "error") /\ Forget(r) /\ UNCHANGED got
     ELSE /\ got' = [got EXCEPT ![r] = Append(@, Head(queue[r]))]
          /\ queue' = [queue EXCEPT ![r] = Tail(@)]
          /\ UNCHANGED <<kind, pc>>
  /\ UNCHANGED <<pending, answer, reading, pos, remote, spent>>

\* One round of the iterator: an error is raised, a final status is the last.
Pull(r) ==
  /\ pc[r] = "open" /\ queue[r] # <<>>
  /\ LET item == Head(queue[r]) IN
     /\ got' = [got EXCEPT ![r] = IF item = "error" THEN @ ELSE Append(@, item)]
     /\ \/ item = "error" /\ Become(r, "error") /\ Forget(r)
        \/ item = "final" /\ Become(r, "done") /\ Forget(r)
        \/ /\ item \notin {"error", "final"}
           /\ queue' = [queue EXCEPT ![r] = Tail(@)] /\ UNCHANGED <<kind, pc>>
  /\ UNCHANGED <<pending, answer, reading, pos, remote, spent>>

\* The caller leaves the iterator: its finally block runs only if it was started.
Abandon(r) ==
  /\ pc[r] = "open" /\ Become(r, "abandoned")
  /\ \/ Forget(r)
     \/ got[r] = <<>> /\ UNCHANGED queue
  /\ UNCHANGED <<pending, answer, got, reading, pos, remote, spent>>

-----------------------------------------------------------------------------
(* The reader loop *)

\* auto_offset_reset is latest: what came before the join is never read.
Join ==
  /\ reading = "joining" /\ reading' = "on"
  /\ pos' = [r \in Req |-> Len(topic[r])]
  /\ UNCHANGED <<local, remote, spent>>

Resolves(r, item) ==
  /\ pending' = pending \ {r}
  /\ answer' = [answer EXCEPT ![r] = IF r \in pending /\ @ = None THEN item ELSE @]

\* Mutant of Receive: the response that resolves the future is not queued.
ReceiveOnce(r) ==
  /\ reading = "on" /\ pos[r] < Len(topic[r])
  /\ pos' = [pos EXCEPT ![r] = @ + 1]
  /\ LET item == topic[r][pos[r] + 1] IN
     /\ queue' = [queue EXCEPT ![r] = IF @ = Gone \/ r \in pending THEN @ ELSE Append(@, item)]
     /\ Resolves(r, item)
  /\ UNCHANGED <<kind, pc, got, reading, remote, spent>>

\* One response: into the stream's queue, if there is one, and to the future,
\* if nobody has resolved it.
Receive(r) ==
  /\ reading = "on" /\ pos[r] < Len(topic[r])
  /\ pos' = [pos EXCEPT ![r] = @ + 1]
  /\ LET item == topic[r][pos[r] + 1] IN
     /\ queue' = [queue EXCEPT ![r] = IF @ = Gone THEN @ ELSE Append(@, item)]
     /\ Resolves(r, item)
  /\ UNCHANGED <<kind, pc, got, reading, remote, spent>>

\* The consumer is back at its last commit.
Rewind(r) ==
  /\ reading = "on" /\ MayRepeat
  /\ \E p \in 0 .. pos[r] - 1 : pos' = [pos EXCEPT ![r] = p]
  /\ spent' = [spent EXCEPT !.rewind = @ + 1]
  /\ UNCHANGED <<local, reading, remote>>

\* The consumer raises and nobody looks at its task, or stop() cancels it.
ReaderEnds ==
  /\ reading # "off" /\ reading' = "off"
  /\ UNCHANGED <<local, pos, remote, spent>>

-----------------------------------------------------------------------------
(* The agent *)

Execution(r, e, x) == agent' = [agent EXCEPT ![r][e] = x]
Publish(r, item) == topic' = [topic EXCEPT ![r] = Append(@, item)]

\* The request reaches the agent, for the first time or again.
Deliver(r, e) ==
  /\ pc[r] # "new" /\ agent[r][e] = Fresh
  /\ e > 1 => agent[r][e - 1] # Fresh /\ MayRepeat
  /\ spent' = [spent EXCEPT !.redelivery = IF e > 1 THEN @ + 1 ELSE @]
  /\ \E due \in {"ok", "error"}, forward \in {"on", "off"} :
       /\ ~Streaming(r) => forward = "off"
       /\ Streaming(r) /\ due = "ok" => forward = "on"
       /\ Execution(r, e, [due |-> due, forward |-> forward, sent |-> 0])
  /\ UNCHANGED <<local, reading, pos, topic>>

Respond(r, e) ==
  /\ agent[r][e].due # "no" /\ Publish(r, agent[r][e].due)
  /\ Execution(r, e, [agent[r][e] EXCEPT !.due = "no"])
  /\ UNCHANGED <<local, reading, pos, spent>>

Forward(r, e) ==
  /\ agent[r][e].forward = "on"
  /\ \/ /\ agent[r][e].sent < MaxEvents /\ Publish(r, "event")
        /\ Execution(r, e, [agent[r][e] EXCEPT !.sent = @ + 1])
     \/ /\ Publish(r, "final")
        /\ Execution(r, e, [agent[r][e] EXCEPT !.forward = "off"])
  /\ UNCHANGED <<local, reading, pos, spent>>

-----------------------------------------------------------------------------
Caller(r) == Resume(r) \/ Pull(r) \/ Sent(r)

Next ==
  \/ \E r \in Req : \/ Register(r) \/ Caller(r) \/ SendFails(r) \/ Timeout(r)
                    \/ Interrupted(r) \/ Abandon(r)
                    \/ Receive(r) \/ Rewind(r)
                    \/ \E e \in Execs : Deliver(r, e) \/ Respond(r, e) \/ Forward(r, e)
  \/ Join \/ ReaderEnds

Spec == Init /\ [][Next]_vars

\* The caller's coroutines go on and timers fire; nothing is promised of Kafka
\* and the agent.
FairSpec == Spec /\ \A r \in Req : WF_vars(Caller(r)) /\ WF_vars(Timeout(r))

-----------------------------------------------------------------------------
(* Properties *)

\* Every variable keeps its type; an iterator raises an error and never yields it.
TypeOK ==
  /\ kind \in [Req -> {"call", "stream"}]
  /\ pc \in [Req -> {"new", "sending", "waiting", "open", "answered", "error", "done",
                     "timedout", "failed", "abandoned"}]
  /\ pending \subseteq Req
  /\ answer \in [Req -> {None, "ok", "error", "event", "final", "canceled"}]
  /\ queue \in [Req -> Seq(Items) \cup {Gone}]
  /\ got \in [Req -> Seq(Items \ {"error"})]
  /\ topic \in [Req -> Seq(Items)]
  /\ reading \in {"joining", "on", "off"}
  /\ pos \in [Req -> Nat] /\ \A r \in Req : pos[r] \in 0 .. Len(topic[r])

\* A request that ended with an answer, an error or its final status is in neither
\* map any more, and a pending one has no answer: what comes late or twice meets
\* nobody.  (One that timed out, failed to be sent, or was given up before the
\* first item may stay.)
SettledIsForgotten ==
  \A r \in Req :
    /\ pc[r] \in {"answered", "error", "done"} => r \notin pending /\ queue[r] = Gone
    /\ r \in pending => answer[r] \in {None, "canceled"} /\ pc[r] # "open"

\* Without a rewind, what a stream has yielded and has queued is, without a
\* gap, what lies before the reader's position; and a final status is the last
\* item it yields, even if the agent handled the request twice.
StreamIsFaithful ==
  \A r \in Req :
    /\ \A i \in 1 .. Len(got[r]) - 1 : got[r][i] # "final"
    /\ spent.rewind = 0 /\ pc[r] = "open" =>
         LET window == got[r] \o queue[r] IN
         /\ window # <<>> /\ answer[r] = window[1]
         /\ window = SubSeq(topic[r], pos[r] - Len(window) + 1, pos[r])

\* A request with a time limit, once sent, ends or opens its stream, whatever
\* becomes of the agent, of Kafka and of the reader.
CallsSettle ==
  \A r \in Timed : pc[r] \in {"sending", "waiting"} ~> pc[r] \notin {"sending", "waiting"}

\* A stream whose final status or error was received ends.
ReceivedEndIsSeen ==
  \A r \in Req :
    (pc[r] = "open" /\ \E i \in 1 .. Len(queue[r]) : queue[r][i] \in {"final", "error"})
      ~> pc[r] # "open"
=============================================================================
