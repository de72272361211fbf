----------------------------- MODULE ClientProofs -----------------------------
(***************************************************************************)
(* What the client has finished it has forgotten: for all requests, time   *)
(* limits and numbers of records, repeats and executions.                  *)
(***************************************************************************)
EXTENDS Client, TLAPS

\* The executions of the external agent have answers and records to send.
ExecutionType ==
  [due : {"no", "ok", "error"}, forward : {"new", "on", "off"}, sent : Nat]

\* Every execution is one.
AgentOK == agent \in [Req -> [Execs -> ExecutionType]]

\* What the maps hold of a request in each phase of its caller.
MapsInv ==
  \A r \in Req :
    /\ pc[r] = "new" => r \notin pending /\ queue[r] = Gone /\ answer[r] = None
    /\ pc[r] = "sending" => answer[r] # "canceled"
    /\ pc[r] = "waiting" => answer[r] # "canceled"
    /\ r \in pending => answer[r] \in {None, "canceled"}
    /\ pc[r] \in {"open", "answered", "error", "done"} => answer[r] \notin {None, "canceled"}
    /\ pc[r] \in {"answered", "error", "done"} => queue[r] = Gone
    /\ ~Streaming(r) => queue[r] = Gone
    /\ Streaming(r) /\ pc[r] \in {"sending", "waiting"} => queue[r] # Gone
    /\ pc[r] = "open" => Streaming(r) /\ queue[r] # Gone

ClientInv == TypeOK /\ AgentOK /\ MapsInv

-----------------------------------------------------------------------------
\* An item read from the reply topic is an item of a response.
LEMMA ItemRead ==
  ASSUME TypeOK, NEW r \in Req, pos[r] < Len(topic[r])
  PROVE  /\ topic[r][pos[r] + 1] \in Items
         /\ pos[r] + 1 \in 0 .. Len(topic[r])
<1>1. topic[r] \in Seq(Items) /\ pos[r] \in 0 .. Len(topic[r])
  BY DEF TypeOK
<1>2. Len(topic[r]) \in Nat /\ pos[r] + 1 \in 1 .. Len(topic[r])
  BY <1>1
<1> QED BY <1>1, <1>2

\* The mark of a request without a queue is not a queue.
LEMMA GoneIsNoQueue == Gone \notin Seq(Items)
<1> SUFFICES ASSUME Gone \in Seq(Items) PROVE FALSE
  OBVIOUS
<1>1. Len(Gone) = 1 /\ Gone[1] = "gone"
  BY DEF Gone
<1>2. Gone[1] \in Items
  BY <1>1
<1> QED BY <1>1, <1>2 DEF Items

\* The invariant holds initially.
LEMMA ClientInit == Init => ClientInv
<1> SUFFICES ASSUME Init PROVE ClientInv
  OBVIOUS
<1> USE DEF Init
<1>1. /\ queue \in [Req -> Seq(Items) \cup {Gone}]
      /\ got \in [Req -> Seq(Items \ {"error"})]
      /\ topic \in [Req -> Seq(Items)]
  BY DEF Items
<1>2. TypeOK
  BY <1>1 DEF TypeOK, None
<1>3. AgentOK
  BY DEF AgentOK, ExecutionType, Fresh
<1>4. MapsInv
  BY DEF MapsInv, Streaming
<1> QED BY <1>2, <1>3, <1>4 DEF ClientInv

-----------------------------------------------------------------------------
\* The steps of a caller that leave its iterator alone keep the types.
LEMMA CallerTypes ==
  ASSUME TypeOK, NEW r \in Req,
         Register(r) \/ Sent(r) \/ SendFails(r) \/ Resume(r) \/ Timeout(r) \/ Interrupted(r)
           \/ Abandon(r)
  PROVE  TypeOK'
<1>1. <<>> \in Seq(Items)
  OBVIOUS
<1>2. CASE Register(r)
  BY <1>1, <1>2 DEF TypeOK, Register, Become, remote
<1>3. CASE Sent(r)
  BY <1>3 DEF TypeOK, Sent, Become, remote
<1>4. CASE SendFails(r)
  BY <1>4 DEF TypeOK, SendFails, Become, remote
<1>5. CASE Resume(r)
  BY <1>5 DEF TypeOK, Resume, Become, Forget, remote
<1>6. CASE Timeout(r)
  BY <1>6 DEF TypeOK, Timeout, Become, remote
<1>7. CASE Interrupted(r)
  BY <1>7 DEF TypeOK, Interrupted, Become, remote
<1>8. CASE Abandon(r)
  BY <1>8 DEF TypeOK, Abandon, Become, Forget, remote
<1> QED BY <1>2, <1>3, <1>4, <1>5, <1>6, <1>7, <1>8

\* What an open stream has queued are items of responses.
LEMMA QueueItem ==
  ASSUME ClientInv, NEW r \in Req, pc[r] = "open", queue[r] # <<>>
  PROVE  /\ Head(queue[r]) \in Items
         /\ Tail(queue[r]) \in Seq(Items)
<1>1. queue[r] \in Seq(Items)
  BY DEF ClientInv, MapsInv, TypeOK
<1> QED BY <1>1

\* A round of the iterator keeps the types: it takes an item, and yields no error.
LEMMA PullTypes == ASSUME ClientInv, NEW r \in Req, Pull(r) PROVE TypeOK'
<1> DEFINE item == Head(queue[r])
<1>1. item \in Items /\ Tail(queue[r]) \in Seq(Items)
  BY QueueItem DEF Pull
<1>2. TypeOK
  BY DEF ClientInv
<1>3. queue' \in [Req -> Seq(Items) \cup {Gone}]
  BY <1>1, <1>2 DEF TypeOK, Pull, Forget
<1>4. got' \in [Req -> Seq(Items \ {"error"})]
  <2>1. got[r] \in Seq(Items \ {"error"})
    BY <1>2 DEF TypeOK
  <2>2. item # "error" => Append(got[r], item) \in Seq(Items \ {"error"})
    BY <2>1, <1>1
  <2>3. got' = [got EXCEPT ![r] = IF item = "error" THEN got[r] ELSE Append(got[r], item)]
    BY DEF Pull
  <2> QED BY <1>2, <2>1, <2>2, <2>3 DEF TypeOK
<1>5. pc' = pc \/ pc' = [pc EXCEPT ![r] = "error"] \/ pc' = [pc EXCEPT ![r] = "done"]
  BY DEF Pull, Become
<1>6. UNCHANGED <<kind, pending, answer, reading, pos, topic>>
  BY DEF Pull, Become, remote
<1> QED BY <1>2, <1>3, <1>4, <1>5, <1>6 DEF TypeOK

\* The reader's steps keep the types.
LEMMA ReaderTypes ==
  ASSUME TypeOK, NEW r \in Req, Join \/ Receive(r) \/ Rewind(r) \/ ReaderEnds
  PROVE  TypeOK'
<1>1. CASE Join
  BY <1>1 DEF TypeOK, Join, local, remote
<1>2. CASE Receive(r)
  <2> DEFINE item == topic[r][pos[r] + 1]
  <2>1. item \in Items /\ pos[r] + 1 \in 0 .. Len(topic[r])
    BY <1>2, ItemRead DEF Receive
  <2>2. queue' \in [Req -> Seq(Items) \cup {Gone}]
    <3>1. queue[r] # Gone => Append(queue[r], item) \in Seq(Items)
      BY <2>1 DEF TypeOK
    <3> QED BY <3>1, <1>2 DEF TypeOK, Receive
  <2>3. answer' \in [Req -> {None, "ok", "error", "event", "final", "canceled"}]
    BY <2>1, <1>2 DEF TypeOK, Receive, Resolves, Items
  <2>4. pending' \subseteq Req
    BY <1>2 DEF TypeOK, Receive, Resolves
  <2>5. pos' \in [Req -> Nat] /\ \A q \in Req : pos'[q] \in 0 .. Len(topic[q])
    BY <2>1, <1>2 DEF TypeOK, Receive
  <2> QED BY <2>2, <2>3, <2>4, <2>5, <1>2 DEF TypeOK, Receive, remote
<1>3. CASE Rewind(r)
  <2>1. PICK p \in 0 .. pos[r] - 1 : pos' = [pos EXCEPT ![r] = p]
    BY <1>3 DEF Rewind
  <2>2. pos' \in [Req -> Nat] /\ \A q \in Req : pos'[q] \in 0 .. Len(topic[q])
    BY <2>1 DEF TypeOK
  <2> QED BY <2>2, <1>3 DEF TypeOK, Rewind, local, remote
<1>4. CASE ReaderEnds
  BY <1>4 DEF TypeOK, ReaderEnds, local, remote
<1> QED BY <1>1, <1>2, <1>3, <1>4

\* The agent's steps keep the types, and its executions.
LEMMA AgentTypes ==
  ASSUME TypeOK, AgentOK, NEW r \in Req, NEW e \in Execs,
         Deliver(r, e) \/ Respond(r, e) \/ Forward(r, e)
  PROVE  TypeOK' /\ AgentOK'
<1>1. ASSUME NEW item \in Items, Publish(r, item)
      PROVE  /\ topic' \in [Req -> Seq(Items)]
             /\ \A q \in Req : Len(topic'[q]) \in Nat /\ Len(topic[q]) <= Len(topic'[q])
  BY <1>1 DEF TypeOK, Publish
<1>2. ASSUME NEW item \in Items, Publish(r, item), UNCHANGED <<local, reading, pos>>
      PROVE  TypeOK'
  <2>1. \A q \in Req : pos'[q] \in 0 .. Len(topic'[q])
    BY <1>1, <1>2 DEF TypeOK
  <2> QED BY <1>1, <1>2, <2>1 DEF TypeOK, local
<1>0. /\ agent[r][e] \in ExecutionType
      /\ \A x \in ExecutionType : Execution(r, e, x) => AgentOK'
  BY DEF AgentOK, Execution
<1>3. CASE Deliver(r, e)
  <2>1. TypeOK'
    BY <1>3 DEF TypeOK, Deliver, local
  <2>2. PICK due \in {"ok", "error"}, forward \in {"on", "off"} :
               Execution(r, e, [due |-> due, forward |-> forward, sent |-> 0])
    BY <1>3 DEF Deliver
  <2> QED BY <2>1, <2>2, <1>0 DEF ExecutionType
<1>4. CASE Respond(r, e)
  <2>1. agent[r][e].due \in Items
    BY <1>4, <1>0 DEF Respond, Items, ExecutionType
  <2>2. TypeOK'
    BY <2>1, <1>2, <1>4 DEF Respond
  <2>3. [agent[r][e] EXCEPT !.due = "no"] \in ExecutionType
    BY <1>0 DEF ExecutionType
  <2> QED BY <2>2, <2>3, <1>0, <1>4 DEF Respond
<1>5. CASE Forward(r, e)
  <2>1. TypeOK'
    BY <1>2, <1>5 DEF Forward, Items
  <2>2. /\ [agent[r][e] EXCEPT !.sent = @ + 1] \in ExecutionType
        /\ [agent[r][e] EXCEPT !.forward = "off"] \in ExecutionType
    BY <1>0 DEF ExecutionType
  <2> QED BY <2>1, <2>2, <1>0, <1>5 DEF Forward
<1> QED BY <1>3, <1>4, <1>5

-----------------------------------------------------------------------------
\* A caller's step keeps the bookkeeping of its request, and of all others.
LEMMA CallerMaps ==
  ASSUME ClientInv, NEW r \in Req,
         Register(r) \/ Sent(r) \/ SendFails(r) \/ Resume(r) \/ Timeout(r) \/ Interrupted(r)
           \/ Pull(r) \/ Abandon(r)
  PROVE  MapsInv'
<1> USE DEF ClientInv, MapsInv, TypeOK, Become, Forget, Streaming
<1>1. CASE Register(r)
  BY <1>1, GoneIsNoQueue DEF Register, Gone, None
<1>2. CASE Sent(r)
  BY <1>2 DEF Sent
<1>3. CASE SendFails(r)
  BY <1>3 DEF SendFails
<1>4. CASE Resume(r)
  BY <1>4 DEF Resume
<1>5. CASE Timeout(r)
  BY <1>5 DEF Timeout, None
<1>6. CASE Interrupted(r)
  BY <1>6 DEF Interrupted, None
<1>7. CASE Pull(r)
  <2>1. pc[r] = "open" /\ Tail(queue[r]) \in Seq(Items) /\ Tail(queue[r]) # Gone
    BY <1>7, QueueItem, GoneIsNoQueue DEF Pull
  <2>2. CASE Become(r, "error") /\ Forget(r)
    BY <1>7, <2>1, <2>2 DEF Pull
  <2>3. CASE Become(r, "done") /\ Forget(r)
    BY <1>7, <2>1, <2>3 DEF Pull
  <2>4. CASE queue' = [queue EXCEPT ![r] = Tail(@)] /\ UNCHANGED <<kind, pc>>
    BY <1>7, <2>1, <2>4 DEF Pull
  <2> QED BY <1>7, <2>2, <2>3, <2>4 DEF Pull
<1>8. CASE Abandon(r)
  BY <1>8 DEF Abandon
<1> QED BY <1>1, <1>2, <1>3, <1>4, <1>5, <1>6, <1>7, <1>8

\* A response read resolves the future of a request that waits for it, and no other.
LEMMA ReceiveMaps == ASSUME ClientInv, NEW r \in Req, Receive(r) PROVE MapsInv'
<1> DEFINE item == topic[r][pos[r] + 1]
<1>1. item \in Items
  BY ItemRead DEF ClientInv, Receive
<1>2. item \notin {None, "canceled"}
  BY <1>1 DEF Items, None
<1>3. queue[r] # Gone => Append(queue[r], item) \in Seq(Items)
  BY <1>1 DEF ClientInv, TypeOK
<1>4. \A q \in Req : (queue'[q] = Gone) = (queue[q] = Gone)
  BY <1>3, GoneIsNoQueue DEF ClientInv, TypeOK, Receive
<1>5. /\ pending' = pending \ {r}
      /\ answer' = [answer EXCEPT ![r] = IF r \in pending /\ answer[r] = None THEN item
                                         ELSE answer[r]]
      /\ UNCHANGED <<kind, pc>>
  BY DEF Receive, Resolves
<1>6. answer'[r] = answer[r] \/ answer'[r] = item
  BY <1>5 DEF ClientInv, TypeOK
<1> QED BY <1>2, <1>4, <1>5, <1>6 DEF ClientInv, MapsInv, TypeOK, Streaming

\* The steps that touch nothing of the caller's keep the bookkeeping.
LEMMA OtherMaps == ASSUME MapsInv, UNCHANGED local PROVE MapsInv'
BY DEF MapsInv, local, Streaming

\* Every step keeps the invariant.
LEMMA ClientNext == ClientInv /\ [Next]_vars => ClientInv'
<1> SUFFICES ASSUME ClientInv, [Next]_vars PROVE ClientInv'
  OBVIOUS
<1> USE DEF ClientInv
<1>1. ASSUME NEW r \in Req,
             Register(r) \/ Caller(r) \/ SendFails(r) \/ Timeout(r) \/ Interrupted(r) \/ Abandon(r)
      PROVE  ClientInv'
  <2>1. MapsInv'
    BY <1>1, CallerMaps DEF Caller
  <2>2. TypeOK'
    BY <1>1, CallerTypes, PullTypes DEF Caller
  <2>3. AgentOK'
    BY <1>1 DEF AgentOK, Caller, Register, Sent, SendFails, Resume, Timeout, Interrupted, Pull,
                Abandon, remote
  <2> QED BY <2>1, <2>2, <2>3
<1>2. ASSUME NEW r \in Req, Receive(r) PROVE ClientInv'
  <2>1. TypeOK' /\ MapsInv'
    BY <1>2, ReaderTypes, ReceiveMaps
  <2> QED BY <2>1, <1>2 DEF AgentOK, Receive, remote
<1>3. ASSUME NEW r \in Req, Rewind(r) PROVE ClientInv'
  <2>1. TypeOK' /\ MapsInv'
    BY <1>3, ReaderTypes, OtherMaps DEF Rewind
  <2> QED BY <2>1, <1>3 DEF AgentOK, Rewind, remote
<1>4. ASSUME NEW r \in Req, NEW e \in Execs, Deliver(r, e) \/ Respond(r, e) \/ Forward(r, e)
      PROVE  ClientInv'
  <2>1. TypeOK' /\ AgentOK'
    BY <1>4, AgentTypes
  <2>2. MapsInv'
    BY <1>4, OtherMaps DEF Deliver, Respond, Forward
  <2> QED BY <2>1, <2>2
<1>5. CASE Join
  <2>1. MapsInv'
    BY <1>5, OtherMaps DEF Join
  <2>2. TypeOK' /\ AgentOK'
    BY <1>5 DEF TypeOK, AgentOK, Join, local, remote
  <2> QED BY <2>1, <2>2
<1>6. CASE ReaderEnds
  <2>1. MapsInv'
    BY <1>6, OtherMaps DEF ReaderEnds
  <2>2. TypeOK' /\ AgentOK'
    BY <1>6 DEF TypeOK, AgentOK, ReaderEnds, local, remote
  <2> QED BY <2>1, <2>2
<1>7. CASE UNCHANGED vars
  <2>1. MapsInv'
    BY <1>7, OtherMaps DEF vars, local
  <2>2. TypeOK' /\ AgentOK'
    BY <1>7 DEF TypeOK, AgentOK, vars
  <2> QED BY <2>1, <2>2
<1> QED BY <1>1, <1>2, <1>3, <1>4, <1>5, <1>6, <1>7 DEF Next

-----------------------------------------------------------------------------
(* What a stream yields *)

\* The items a stream has yielded and has queued, while its caller reads them.
Window(r) == got[r] \o queue[r]
Reads(r)  == Streaming(r) /\ pc[r] \in {"sending", "waiting", "open"}

\* Nothing is yielded before the stream is open, and nothing after a final status.
YieldInv ==
  \A r \in Req :
    /\ pc[r] \in {"new", "sending", "waiting"} => got[r] = <<>>
    /\ \A i \in 1 .. Len(got[r]) : got[r][i] = "final" => i = Len(got[r]) /\ pc[r] # "open"

\* The window ends at the reader's position, and its first item resolved the future.
Faithful(r) ==
  /\ Len(Window(r)) <= pos[r]
  /\ \A i \in 1 .. Len(Window(r)) : Window(r)[i] = topic[r][pos[r] - Len(Window(r)) + i]
  /\ r \in pending => Window(r) = <<>>
  /\ r \notin pending => Window(r) # <<>> /\ answer[r] = Window(r)[1]
  /\ reading = "joining" => r \in pending

WindowInv == spent.rewind = 0 => \A r \in Req : Reads(r) => Faithful(r)

SpentOK   == spent \in [redelivery : Nat, rewind : Nat]
StreamInv == ClientInv /\ SpentOK /\ YieldInv /\ WindowInv

\* A stream that is read has a queue.
LEMMA ReadsQueue ==
  ASSUME ClientInv, NEW r \in Req, Reads(r)
  PROVE  /\ queue[r] \in Seq(Items) /\ queue[r] # Gone /\ got[r] \in Seq(Items)
         /\ topic[r] \in Seq(Items) /\ pos[r] \in 0 .. Len(topic[r]) /\ Window(r) \in Seq(Items)
<1>1. queue[r] # Gone /\ queue[r] \in Seq(Items)
  BY DEF ClientInv, MapsInv, TypeOK, Reads
<1>2. got[r] \in Seq(Items)
  BY DEF ClientInv, TypeOK
<1>3. topic[r] \in Seq(Items) /\ pos[r] \in 0 .. Len(topic[r])
  BY DEF ClientInv, TypeOK
<1>4. Window(r) \in Seq(Items)
  BY <1>1, <1>2 DEF Window
<1> QED BY <1>1, <1>2, <1>3, <1>4

\* Yielding the head of the queue leaves the window as it is.
LEMMA WindowKept ==
  ASSUME NEW g \in Seq(Items), NEW q \in Seq(Items), q # <<>>
  PROVE  Append(g, Head(q)) \o Tail(q) = g \o q
<1>1. Head(q) \in Items /\ Tail(q) \in Seq(Items)
  OBVIOUS
<1> QED BY <1>1, SMTT(40)

\* A queued item is appended to the window.
LEMMA WindowGrows ==
  ASSUME NEW g \in Seq(Items), NEW q \in Seq(Items), NEW x \in Items
  PROVE  g \o Append(q, x) = Append(g \o q, x)
BY SMTT(40)

\* A stream whose window, position and future a step leaves alone stays faithful.
LEMMA FaithfulFrame ==
  ASSUME ClientInv, NEW r \in Req, Reads(r), Faithful(r),
         Window(r)' = Window(r), pos'[r] = pos[r], answer'[r] = answer[r],
         r \in pending' <=> r \in pending,
         topic'[r] = topic[r] \/ \E x \in Items : topic'[r] = Append(topic[r], x),
         reading' = "joining" => reading = "joining"
  PROVE  Faithful(r)'
<1>1. /\ topic[r] \in Seq(Items) /\ pos[r] \in 0 .. Len(topic[r])
      /\ Window(r) \in Seq(Items) /\ Len(Window(r)) \in Nat
  BY ReadsQueue
<1>2. \A k \in 1 .. pos[r] : topic'[r][k] = topic[r][k]
  <2>1. \A k \in 1 .. pos[r] : k \in 1 .. Len(topic[r])
    BY <1>1
  <2>2. ASSUME NEW x \in Items PROVE \A k \in 1 .. Len(topic[r]) : Append(topic[r], x)[k] = topic[r][k]
    BY <1>1
  <2> QED BY <2>1, <2>2, Zenon
<1>3. ASSUME NEW i \in 1 .. Len(Window(r))
      PROVE  Window(r)[i] = topic'[r][pos[r] - Len(Window(r)) + i]
  <2>1. pos[r] - Len(Window(r)) + i \in 1 .. pos[r]
    BY <1>1 DEF Faithful
  <2> QED BY <1>2, <2>1 DEF Faithful
<1> QED BY <1>3 DEF Faithful

\* A step of a caller that pulls nothing: what was yielded stays, and only its
\* own phase changes.
LEMMA CallerYields ==
  ASSUME StreamInv, NEW r \in Req,
         Register(r) \/ Sent(r) \/ SendFails(r) \/ Resume(r) \/ Timeout(r) \/ Interrupted(r)
           \/ Abandon(r)
  PROVE  YieldInv' /\ WindowInv'
<1>1. /\ UNCHANGED <<kind, got, pos, topic, spent, reading>>
      /\ \A q \in Req \ {r} : /\ pc'[q] = pc[q] /\ queue'[q] = queue[q] /\ answer'[q] = answer[q]
                              /\ q \in pending' <=> q \in pending
  BY DEF Register, Sent, SendFails, Resume, Timeout, Interrupted, Abandon, Become, Forget, remote,
         StreamInv, ClientInv, TypeOK
<1>2. /\ pc'[r] \in {"new", "sending", "waiting", "open"} =>
           \/ Register(r) /\ pc'[r] = "sending" /\ pc[r] = "new"
           \/ /\ pc[r] \in {"sending", "waiting"} /\ pc'[r] \in {"waiting", "open"}
              /\ UNCHANGED <<queue, answer, pending>>
  BY DEF Register, Sent, SendFails, Resume, Timeout, Interrupted, Abandon, Become, StreamInv,
         ClientInv, TypeOK
<1>3. YieldInv'
  <2>1. got[r] = <<>> \/ pc'[r] \notin {"new", "sending", "waiting", "open"}
    BY <1>2 DEF StreamInv, YieldInv
  <2> QED BY <1>1, <2>1 DEF StreamInv, YieldInv
<1>4. ASSUME spent'.rewind = 0, NEW q \in Req, Reads(q)' PROVE Faithful(q)'
  <2>1. CASE q = r /\ Register(r)
    <3>1. kind' = kind /\ Streaming(r)
      BY <1>1, <1>4, <2>1 DEF Reads, Streaming
    <3>2. got'[r] = <<>> /\ queue'[r] = <<>> /\ r \in pending' /\ pos'[r] \in Nat
      BY <1>1, <2>1, <3>1 DEF Register, StreamInv, YieldInv, ClientInv, TypeOK
    <3>3. Window(r)' = <<>>
      BY <3>2 DEF Window
    <3> QED BY <2>1, <3>2, <3>3 DEF Faithful
  <2>2. CASE q # r \/ ~Register(r)
    <3>1. /\ Reads(q) /\ queue'[q] = queue[q] /\ answer'[q] = answer[q]
          /\ q \in pending' <=> q \in pending
      BY <1>1, <1>2, <1>4, <2>2 DEF Reads, Streaming
    <3>2. Faithful(q)
      BY <1>1, <1>4, <3>1 DEF StreamInv, WindowInv
    <3> QED BY <1>1, <3>1, <3>2, FaithfulFrame DEF StreamInv, Window
  <2> QED BY <2>1, <2>2
<1> QED BY <1>3, <1>4 DEF WindowInv

\* One round of the iterator moves an item from the queue to what was yielded.
LEMMA PullYields == ASSUME StreamInv, NEW r \in Req, Pull(r) PROVE YieldInv' /\ WindowInv'
<1> DEFINE item == Head(queue[r])
<1>1. /\ pc[r] = "open" /\ queue[r] # <<>> /\ item \in Items /\ Tail(queue[r]) \in Seq(Items)
      /\ got \in [Req -> Seq(Items \ {"error"})] /\ queue[r] \in Seq(Items)
  <2>1. pc[r] = "open" /\ queue[r] # <<>>
    BY DEF Pull
  <2>2. queue[r] \in Seq(Items) /\ got \in [Req -> Seq(Items \ {"error"})]
    BY <2>1 DEF StreamInv, ClientInv, TypeOK, MapsInv
  <2> QED BY <2>1, <2>2, QueueItem DEF StreamInv
<1>2. /\ UNCHANGED <<kind, pending, answer, pos, topic, spent, reading>>
      /\ got' = [got EXCEPT ![r] = IF item = "error" THEN got[r] ELSE Append(got[r], item)]
      /\ \A q \in Req \ {r} : pc'[q] = pc[q] /\ queue'[q] = queue[q] /\ got'[q] = got[q]
      /\ pc'[r] = (IF item = "error" THEN "error" ELSE IF item = "final" THEN "done" ELSE "open")
      /\ item \notin {"error", "final"} => queue'[r] = Tail(queue[r])
  BY <1>1 DEF Pull, Become, Forget, remote, StreamInv, ClientInv, TypeOK
<1> HIDE DEF item
<1>3. YieldInv'
  <2>1. ASSUME NEW i \in 1 .. Len(got'[r]), got'[r][i] = "final"
        PROVE  i = Len(got'[r]) /\ pc'[r] # "open"
    <3>1. \A j \in 1 .. Len(got[r]) : got[r][j] # "final"
      BY <1>1 DEF StreamInv, YieldInv
    <3>2. got'[r] = Append(got[r], item) /\ item # "error"
      BY <1>1, <1>2, <2>1, <3>1
    <3>3. Len(got'[r]) = Len(got[r]) + 1 /\ got'[r][Len(got[r]) + 1] = item
          /\ \A j \in 1 .. Len(got[r]) : got'[r][j] = got[r][j]
      BY <1>1, <3>2
    <3>4. i = Len(got[r]) + 1
      BY <1>1, <2>1, <3>1, <3>3
    <3> QED BY <1>2, <2>1, <3>2, <3>3, <3>4
  <2> QED BY <1>2, <2>1 DEF StreamInv, YieldInv
<1>4. ASSUME spent'.rewind = 0, NEW q \in Req, Reads(q)' PROVE Faithful(q)'
  <2>1. Reads(q) /\ Faithful(q)
    BY <1>1, <1>2, <1>4 DEF Reads, Streaming, StreamInv, WindowInv
  <2>2. Window(q)' = Window(q)
    <3>1. CASE q = r
      <4>1. item \notin {"error", "final"}
        BY <1>2, <1>4, <3>1 DEF Reads
      <4>2. got'[r] = Append(got[r], item) /\ queue'[r] = Tail(queue[r])
        BY <1>1, <1>2, <4>1
      <4>3. got[r] \in Seq(Items)
        BY <1>1
      <4>4. Append(got[r], item) \o Tail(queue[r]) = got[r] \o queue[r]
        BY <1>1, <4>3, WindowKept DEF item
      <4> QED BY <3>1, <4>2, <4>4 DEF Window
    <3>2. CASE q # r
      BY <1>2, <3>2 DEF Window
    <3> QED BY <3>1, <3>2
  <2> QED BY <1>2, <2>1, <2>2, FaithfulFrame DEF StreamInv
<1> QED BY <1>3, <1>4 DEF WindowInv

\* A response that is read is the next item of its stream's window.
LEMMA ReceiveYields == ASSUME StreamInv, NEW r \in Req, Receive(r) PROVE YieldInv' /\ WindowInv'
<1> DEFINE item == topic[r][pos[r] + 1]
<1>1. /\ item \in Items /\ UNCHANGED <<kind, pc, got, topic, spent, reading>>
      /\ reading = "on" /\ pos[r] \in Nat /\ pos' = [pos EXCEPT ![r] = pos[r] + 1]
      /\ pending' = pending \ {r}
      /\ answer' = [answer EXCEPT ![r] = IF r \in pending /\ answer[r] = None THEN item
                                         ELSE answer[r]]
      /\ queue' = [queue EXCEPT ![r] = IF queue[r] = Gone THEN queue[r] ELSE Append(queue[r], item)]
  BY ItemRead DEF Receive, Resolves, remote, StreamInv, ClientInv, TypeOK
<1> HIDE DEF item
<1>2. YieldInv'
  BY <1>1 DEF StreamInv, YieldInv
<1>3. ASSUME spent'.rewind = 0, NEW q \in Req, Reads(q)' PROVE Faithful(q)'
  <2>1. Reads(q) /\ Faithful(q)
    BY <1>1, <1>3 DEF Reads, Streaming, StreamInv, WindowInv
  <2>2. CASE q # r
    <3>1. /\ Window(q)' = Window(q) /\ pos'[q] = pos[q] /\ answer'[q] = answer[q]
          /\ q \in pending' <=> q \in pending
      BY <1>1, <2>2 DEF Window, StreamInv, ClientInv, TypeOK
    <3> QED BY <1>1, <2>1, <3>1, FaithfulFrame DEF StreamInv
  <2>3. CASE q = r
    <3> DEFINE w == Window(r)
    <3>1. /\ queue[r] \in Seq(Items) /\ queue[r] # Gone /\ got[r] \in Seq(Items) /\ w \in Seq(Items)
      BY <2>1, <2>3, ReadsQueue DEF StreamInv
    <3>2. queue'[r] = Append(queue[r], item) /\ pos'[r] = pos[r] + 1 /\ got'[r] = got[r]
      BY <1>1, <3>1 DEF StreamInv, ClientInv, TypeOK
    <3>3. Window(r)' = Append(w, item)
      <4>1. got[r] \o Append(queue[r], item) = Append(got[r] \o queue[r], item)
        BY <1>1, <3>1, WindowGrows
      <4> QED BY <3>2, <4>1 DEF Window
    <3>4. /\ Len(w) \in Nat /\ Len(w) <= pos[r]
          /\ \A i \in 1 .. Len(w) : w[i] = topic[r][pos[r] - Len(w) + i]
          /\ r \in pending => w = <<>>
          /\ r \notin pending => w # <<>> /\ answer[r] = w[1]
      BY <2>1, <2>3, <3>1 DEF Faithful
    <3> HIDE DEF w
    <3>5. /\ Len(Append(w, item)) = Len(w) + 1
          /\ \A i \in 1 .. Len(w) : Append(w, item)[i] = w[i]
          /\ Append(w, item)[Len(w) + 1] = item
          /\ Append(w, item) # <<>>
      BY <1>1, <3>1
    <3>6. ASSUME NEW i \in 1 .. Len(w) + 1
          PROVE  Append(w, item)[i] = topic[r][(pos[r] + 1) - (Len(w) + 1) + i]
      <4>1. (pos[r] + 1) - (Len(w) + 1) + i = pos[r] - Len(w) + i
        BY <1>1, <3>4
      <4>2. CASE i \in 1 .. Len(w)
        BY <3>4, <3>5, <4>1, <4>2
      <4>3. CASE i = Len(w) + 1
        <5>0. pos[r] \in Nat /\ Len(w) \in Nat
          BY <1>1, <3>4
        <5>1. pos[r] - Len(w) + i = pos[r] + 1
          BY <4>3, <5>0
        <5> QED BY <3>5, <4>1, <4>3, <5>1 DEF item
      <4> QED BY <3>4, <4>2, <4>3
    <3>7. answer'[r] = Append(w, item)[1]
      <4>1. CASE r \in pending
        <5>1. w = <<>> /\ answer[r] = None
          BY <2>1, <2>3, <3>4, <4>1 DEF StreamInv, ClientInv, MapsInv, Reads
        <5> QED BY <1>1, <3>5, <4>1, <5>1 DEF StreamInv, ClientInv, TypeOK
      <4>2. CASE r \notin pending
        <5>1. 1 \in 1 .. Len(w)
          BY <3>1, <3>4, <4>2
        <5> QED BY <1>1, <3>4, <3>5, <4>2, <5>1 DEF StreamInv, ClientInv, TypeOK
      <4> QED BY <4>1, <4>2
    <3>8. Len(w) + 1 <= pos[r] + 1
      BY <1>1, <3>4
    <3> QED BY <1>1, <2>3, <3>2, <3>3, <3>5, <3>6, <3>7, <3>8 DEF Faithful
  <2> QED BY <2>2, <2>3
<1> QED BY <1>2, <1>3 DEF WindowInv

\* What the agent does, and what the reader's consumer does, yields nothing.
LEMMA OtherYields ==
  ASSUME StreamInv, UNCHANGED local,
         reading' = "joining" => reading = "joining",
         spent'.rewind = 0 =>
           /\ spent.rewind = 0
           /\ \A q \in Req : pos'[q] = pos[q] \/ (reading = "joining" /\ reading' # "joining" /\ pos'[q] \in Nat),
         \A q \in Req : topic'[q] = topic[q] \/ \E x \in Items : topic'[q] = Append(topic[q], x)
  PROVE  YieldInv' /\ WindowInv'
<1>1. UNCHANGED <<kind, pc, pending, answer, queue, got>>
  BY DEF local
<1>2. YieldInv'
  BY <1>1 DEF StreamInv, YieldInv
<1>3. ASSUME spent'.rewind = 0, NEW q \in Req, Reads(q)' PROVE Faithful(q)'
  <2>1. Reads(q) /\ Faithful(q) /\ Window(q)' = Window(q)
    BY <1>1, <1>3 DEF Reads, Streaming, StreamInv, WindowInv, Window
  <2>2. CASE pos'[q] = pos[q]
    BY <1>1, <2>1, <2>2, FaithfulFrame DEF StreamInv
  <2>3. CASE reading = "joining" /\ reading' # "joining" /\ pos'[q] \in Nat
    <3>1. q \in pending' /\ Window(q)' = <<>>
      BY <1>1, <2>1, <2>3 DEF Faithful
    <3> QED BY <2>3, <3>1 DEF Faithful
  <2> QED BY <1>3, <2>2, <2>3
<1> QED BY <1>2, <1>3 DEF WindowInv

\* A step of an execution sends at most one response of its request.
LEMMA AgentTopic ==
  ASSUME StreamInv, NEW r \in Req, NEW e \in Execs, Deliver(r, e) \/ Respond(r, e) \/ Forward(r, e)
  PROVE  /\ \A q \in Req : topic'[q] = topic[q] \/ \E x \in Items : topic'[q] = Append(topic[q], x)
         /\ spent'.rewind = spent.rewind /\ SpentOK' /\ UNCHANGED <<local, reading, pos>>
<1>1. topic \in [Req -> Seq(Items)] /\ spent \in [redelivery : Nat, rewind : Nat]
      /\ agent \in [Req -> [Execs -> ExecutionType]]
  BY DEF StreamInv, SpentOK, ClientInv, TypeOK, AgentOK
<1>2. CASE Deliver(r, e)
  <2>1. UNCHANGED <<local, reading, pos, topic>>
    BY <1>2 DEF Deliver
  <2>2. \E n \in Nat : spent' = [spent EXCEPT !.redelivery = n]
    <3>1. spent.redelivery \in Nat /\ spent.redelivery + 1 \in Nat
      BY <1>1
    <3>2. spent' = [spent EXCEPT !.redelivery = IF e > 1 THEN @ + 1 ELSE @]
      BY <1>2 DEF Deliver
    <3> QED BY <3>1, <3>2
  <2>3. SpentOK' /\ spent'.rewind = spent.rewind
    BY <1>1, <2>2 DEF SpentOK
  <2> QED BY <2>1, <2>3
<1>3. CASE Respond(r, e)
  <2>1. agent[r][e].due \in Items
    BY <1>1, <1>3 DEF Respond, ExecutionType, Items
  <2> QED BY <1>1, <1>3, <2>1 DEF Respond, Publish, SpentOK
<1>4. CASE Forward(r, e)
  <2>1. \E x \in Items : Publish(r, x)
    BY <1>4 DEF Forward, Items
  <2> QED BY <1>1, <1>4, <2>1 DEF Forward, Publish, SpentOK
<1> QED BY <1>2, <1>3, <1>4

\* The invariant of the streams holds initially, and every step keeps it.
LEMMA StreamInit == Init => StreamInv
<1> SUFFICES ASSUME Init PROVE StreamInv
  OBVIOUS
<1>1. ClientInv
  BY ClientInit
<1>2. SpentOK /\ YieldInv /\ WindowInv
  BY DEF Init, SpentOK, YieldInv, WindowInv, Reads
<1> QED BY <1>1, <1>2 DEF StreamInv

\* Every step of the client, of Kafka and of the agent keeps the stream invariant.
LEMMA StreamNext == StreamInv /\ [Next]_vars => StreamInv'
<1> SUFFICES ASSUME StreamInv, [Next]_vars PROVE SpentOK' /\ YieldInv' /\ WindowInv'
  BY ClientNext DEF StreamInv
<1>0. SpentOK /\ pos \in [Req -> Nat] /\ topic \in [Req -> Seq(Items)]
  BY DEF StreamInv, ClientInv, TypeOK
<1>1. ASSUME NEW r \in Req,
             Register(r) \/ Caller(r) \/ SendFails(r) \/ Timeout(r) \/ Interrupted(r) \/ Abandon(r)
                \/ Receive(r)
      PROVE  SpentOK' /\ YieldInv' /\ WindowInv'
  <2>1. UNCHANGED spent
    BY <1>1 DEF Register, Caller, Sent, SendFails, Resume, Timeout, Interrupted, Pull, Abandon, Receive
  <2> QED BY <1>0, <1>1, <2>1, CallerYields, PullYields, ReceiveYields DEF Caller, SpentOK
<1>2. ASSUME NEW r \in Req, Rewind(r) PROVE SpentOK' /\ YieldInv' /\ WindowInv'
  <2>1. SpentOK' /\ spent'.rewind # 0
    BY <1>0, <1>2 DEF Rewind, SpentOK
  <2>2. UNCHANGED <<local, reading, topic>>
    BY <1>2 DEF Rewind, remote
  <2> QED BY <2>1, <2>2, OtherYields
<1>3. ASSUME NEW r \in Req, NEW e \in Execs, Deliver(r, e) \/ Respond(r, e) \/ Forward(r, e)
      PROVE  SpentOK' /\ YieldInv' /\ WindowInv'
  BY <1>3, AgentTopic, OtherYields
<1>4. CASE Join
  <2>1. /\ UNCHANGED <<local, topic, spent>> /\ reading = "joining" /\ reading' = "on"
        /\ \A q \in Req : pos'[q] \in Nat
    BY <1>0, <1>4 DEF Join, remote
  <2>2. SpentOK'
    BY <1>0, <2>1 DEF SpentOK
  <2> QED BY <2>1, <2>2, OtherYields
<1>5. CASE ReaderEnds \/ UNCHANGED vars
  <2>1. UNCHANGED <<local, topic, spent, pos>> /\ (reading' = "joining" => reading = "joining")
    BY <1>5 DEF ReaderEnds, remote, vars, local
  <2>2. SpentOK'
    BY <1>0, <2>1 DEF SpentOK
  <2> QED BY <2>1, <2>2, OtherYields
<1> QED BY <1>1, <1>2, <1>3, <1>4, <1>5 DEF Next

\* Every variable of the client keeps its type, and an iterator never yields an error.
THEOREM ClientTypes == Spec => []TypeOK
<1>1. ClientInv => TypeOK
  BY DEF ClientInv
<1> QED BY ClientInit, ClientNext, <1>1, PTL DEF Spec

\* A request that ended with an answer, an error or its final status is in neither map,
\* and a pending one has no answer, for any number of requests, repeats and records.
THEOREM EndedIsForgotten == Spec => []SettledIsForgotten
<1>1. ClientInv => SettledIsForgotten
  BY DEF ClientInv, MapsInv, SettledIsForgotten
<1> QED BY ClientInit, ClientNext, <1>1, PTL DEF Spec

\* The items before a position are a subsequence of the topic's log.
LEMMA SuffixIsSubSeq ==
  ASSUME NEW w \in Seq(Items), NEW t \in Seq(Items), NEW p \in 0 .. Len(t), Len(w) <= p,
         \A i \in 1 .. Len(w) : w[i] = t[p - Len(w) + i]
  PROVE  w = SubSeq(t, p - Len(w) + 1, p)
<1> DEFINE m == p - Len(w) + 1
           u == SubSeq(t, m, p)
<1>1. Len(w) \in Nat /\ Len(t) \in Nat /\ p \in Nat /\ p <= Len(t)
  OBVIOUS
<1>2. m \in 1 .. p + 1 /\ p - m + 1 = Len(w)
  BY <1>1
<1>3. \A k \in m .. p : k \in 1 .. Len(t)
  BY <1>1, <1>2
<1>4. u \in Seq(Items) /\ Len(u) = Len(w)
  BY <1>1, <1>2, <1>3
<1>5. \A i \in 1 .. Len(w) : u[i] = t[m + i - 1] /\ m + i - 1 = p - Len(w) + i
  BY <1>1, <1>2, <1>3
<1> HIDE DEF u, m
<1>6. \A i \in 1 .. Len(w) : w[i] = u[i]
  BY <1>5
<1>7. w = u
  BY <1>4, <1>6
<1> QED BY <1>7 DEF u, m

\* A stream yields what the reader read, from the response that opened it on, without
\* a gap, and a final status last, for any number of requests, redelivered requests
\* and records (_stream_after_response, _read_loop of client.py).
THEOREM StreamsAreFaithful == Spec => []StreamIsFaithful
<1>1. StreamInv => StreamIsFaithful
  <2> SUFFICES ASSUME StreamInv, NEW r \in Req
               PROVE  /\ \A i \in 1 .. Len(got[r]) - 1 : got[r][i] # "final"
                      /\ spent.rewind = 0 /\ pc[r] = "open" =>
                           /\ Window(r) # <<>> /\ answer[r] = Window(r)[1]
                           /\ Window(r) = SubSeq(topic[r], pos[r] - Len(Window(r)) + 1, pos[r])
    BY Zenon DEF StreamIsFaithful, Window
  <2>1. ASSUME NEW i \in 1 .. Len(got[r]) - 1 PROVE got[r][i] # "final"
    <3>1. got[r] \in Seq(Items \ {"error"}) /\ Len(got[r]) \in Nat
      BY DEF StreamInv, ClientInv, TypeOK
    <3>2. i \in 1 .. Len(got[r]) /\ i # Len(got[r])
      BY <3>1
    <3> QED BY <3>2 DEF StreamInv, YieldInv
  <2>2. ASSUME spent.rewind = 0, pc[r] = "open"
        PROVE  /\ Window(r) # <<>> /\ answer[r] = Window(r)[1]
               /\ Window(r) = SubSeq(topic[r], pos[r] - Len(Window(r)) + 1, pos[r])
    <3> DEFINE w == Window(r)
    <3>1. Reads(r) /\ r \notin pending
      BY <2>2 DEF Reads, StreamInv, ClientInv, MapsInv, None
    <3>2. Faithful(r) /\ w \in Seq(Items) /\ topic[r] \in Seq(Items) /\ pos[r] \in 0 .. Len(topic[r])
      BY <2>2, <3>1, ReadsQueue DEF StreamInv, WindowInv
    <3>3. /\ w # <<>> /\ answer[r] = w[1] /\ Len(w) <= pos[r]
          /\ \A i \in 1 .. Len(w) : w[i] = topic[r][pos[r] - Len(w) + i]
      BY <3>1, <3>2 DEF Faithful
    <3> HIDE DEF w
    <3>4. w = SubSeq(topic[r], pos[r] - Len(w) + 1, pos[r])
      BY <3>2, <3>3, SuffixIsSubSeq
    <3> QED BY <3>3, <3>4 DEF w
  <2> QED BY <2>1, <2>2
<1> QED BY StreamInit, StreamNext, <1>1, PTL DEF Spec
=============================================================================
