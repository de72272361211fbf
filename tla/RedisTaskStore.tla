---------------------------- MODULE RedisTaskStore ----------------------------
(***************************************************************************)
(* The task store of runtime/redis_task_store.py and the streams that read *)
(* it (_forward and _iter_local_stream of agent.py over iter_events).      *)
(*                                                                         *)
(* Every key of the store belongs to one task, so one task is modelled.    *)
(* Redis runs one command, or one MULTI, at a time; anything may happen    *)
(* between two commands of an append, and an append whose caller was       *)
(* cancelled or whose process died leaves its last command in flight.      *)
(* The task's document stands for the events folded into it: a status      *)
(* replaces the status and adds its message to the history, an artifact    *)
(* is added to the artifacts.                                              *)
(***************************************************************************)
EXTENDS Integers, Sequences, FiniteSets

CONSTANTS
  Writers,   \* calls of append_status and append_artifact under way at a time
  Readers,   \* iterators of iter_events
  Modes,     \* how a reader may read: "replay", "live" or "after"
  ReadCount, \* read_count, entries per XREAD
  States,    \* the statuses that are appended
  MaxSeq     \* bound: appends that draw a sequence number

ASSUME RedisAssumption ==
  /\ Modes \in [Readers -> SUBSET {"replay", "live", "after"}]
  /\ ReadCount \in Nat \ {0}
  /\ MaxSeq \in Nat

FinalStates == {"completed", "failed", "canceled", "rejected", "input_required", "auth_required"}

TaskEvent == [kind |-> "task", state |-> "submitted"]
Appended  == [kind : {"status"}, state : States] \cup {[kind |-> "artifact", state |-> "none"]}
Event     == Appended \cup {TaskEvent}
Final(e)  == e.kind = "status" /\ e.state \in FinalStates

Dollar == -1   \* the id "$": the last entry there is when the command runs

VARIABLES
  doc,                \* the task's document: the events folded into it
  seq,                \* the task's sequence counter
  stream,             \* the task's event stream: entries [seq, event]
  wpc, copy, mine,    \* appends: phase, local copy of the document, number drawn
  overlapped,         \* whether two appends were ever under way at once
  rpc,                \* readers: phase
  last, cursor,       \* the id a reader reads after, and what Redis took it for
  batch,              \* entries received and not processed
  after,              \* the sequence numbers a reader is not interested in
  torn,               \* whether a number was drawn and not written when it asked
  first, got          \* the first entry a reader is to see, and those it yielded

writerVars == <<wpc, copy, mine, overlapped>>
readerVars == <<rpc, last, cursor, batch, after, torn, first, got>>
vars == <<doc, seq, stream, writerVars, readerVars>>

-----------------------------------------------------------------------------
(* Appends *)

Exists == stream # <<>>
Quiet  == \A w \in Writers : wpc[w] = "idle"
Drawn  == {w \in Writers : wpc[w] = "exec"}   \* appends with a number and no entry

\* create_task: document, counter and first entry in one MULTI.
CreateTask ==
  /\ ~Exists
  /\ doc' = <<>>
  /\ seq' = 0
  /\ stream' = <<[seq |-> 0, event |-> TaskEvent]>>
  /\ UNCHANGED <<writerVars, readerVars>>

\* get_task at the start of an append: the document is changed locally.  Another
\* append may be under way (a cancel during a run).
Get(w, e) ==
  /\ Exists
  /\ wpc[w] = "idle"
  /\ overlapped' = (overlapped \/ ~Quiet)
  /\ wpc' = [wpc EXCEPT ![w] = "incr"]
  /\ copy' = [copy EXCEPT ![w] = Append(doc, e)]
  /\ UNCHANGED <<doc, seq, stream, mine, readerVars>>

Incr(w) ==
  /\ wpc[w] = "incr"
  /\ seq < MaxSeq
  /\ seq' = seq + 1
  /\ mine' = [mine EXCEPT ![w] = seq']
  /\ wpc' = [wpc EXCEPT ![w] = "exec"]
  /\ UNCHANGED <<doc, stream, copy, overlapped, readerVars>>

\* The append is over, one way or the other.
Leave(w) ==
  /\ wpc' = [wpc EXCEPT ![w] = "idle"]
  /\ copy' = [copy EXCEPT ![w] = <<>>]
  /\ mine' = [mine EXCEPT ![w] = 0]
  /\ UNCHANGED overlapped

Entry(w) == [seq |-> mine[w], event |-> copy[w][Len(copy[w])]]

\* Mutant of Exec: append_artifact adds the entry and forgets the document.
ExecStatusOnly(w) ==
  /\ wpc[w] = "exec"
  /\ doc' = IF Entry(w).event.kind = "artifact" THEN doc ELSE copy[w]
  /\ stream' = Append(stream, Entry(w))
  /\ Leave(w)
  /\ UNCHANGED <<seq, readerVars>>

\* SET of the document and XADD of the entry in one MULTI.
Exec(w) ==
  /\ wpc[w] = "exec"
  /\ doc' = copy[w]
  /\ stream' = Append(stream, Entry(w))
  /\ Leave(w)
  /\ UNCHANGED <<seq, readerVars>>

\* The caller is cancelled, loses its connection or dies between two commands.
Abandon(w) ==
  /\ wpc[w] # "idle"
  /\ Leave(w)
  /\ UNCHANGED <<doc, seq, stream, readerVars>>

-----------------------------------------------------------------------------
(* Readers *)

\* The reader is made.  One that continues a task asks for latest_sequence when
\* its own append has returned; another append may hold a number it has not written.
Start(r, mode) ==
  /\ Exists
  /\ rpc[r] = "idle"
  /\ rpc' = [rpc EXCEPT ![r] = "poll"]
  /\ last' = [last EXCEPT ![r] = IF mode = "live" THEN Dollar ELSE 0]
  /\ after' = [after EXCEPT ![r] = IF mode = "after" THEN seq ELSE -1]
  /\ torn' = [torn EXCEPT ![r] = mode = "after" /\ Drawn # {}]
  /\ first' = [first EXCEPT ![r] = CASE mode = "replay" -> 2
                                     [] mode = "after"  -> Len(stream) + 1
                                     [] mode = "live"   -> 0]
  /\ UNCHANGED <<doc, seq, stream, writerVars, cursor, batch, got>>

\* XREAD arrives; "$" is what the end of the stream is now.
Call(r) ==
  /\ rpc[r] = "poll"
  /\ cursor' = [cursor EXCEPT ![r] = IF last[r] = Dollar THEN Len(stream) ELSE last[r]]
  /\ rpc' = [rpc EXCEPT ![r] = "blocked"]
  /\ UNCHANGED <<doc, seq, stream, writerVars, last, batch, after, torn, first, got>>

Received(r, n) ==
  /\ rpc[r] = "blocked"
  /\ cursor[r] < Len(stream)
  /\ batch' = [batch EXCEPT ![r] = [i \in 1 .. n |-> cursor[r] + i]]
  /\ first' = [first EXCEPT ![r] = IF @ = 0 THEN cursor[r] + 1 ELSE @]
  /\ rpc' = [rpc EXCEPT ![r] = "batch"]
  /\ cursor' = [cursor EXCEPT ![r] = 0]
  /\ UNCHANGED <<doc, seq, stream, writerVars, last, after, torn, got>>

\* The entries behind the cursor, at most ReadCount of them.
Return(r) ==
  LET n == Len(stream) - cursor[r] IN Received(r, IF n < ReadCount THEN n ELSE ReadCount)

\* Nothing came in block_ms.
Expire(r) ==
  /\ rpc[r] = "blocked"
  /\ cursor[r] = Len(stream)
  /\ rpc' = [rpc EXCEPT ![r] = "poll"]
  /\ cursor' = [cursor EXCEPT ![r] = 0]
  /\ UNCHANGED <<doc, seq, stream, writerVars, last, batch, after, torn, first, got>>

\* Mutant of Reconnect: the reader starts again from the end of the stream.
ReconnectAtEnd(r) ==
  /\ rpc[r] = "blocked"
  /\ rpc' = [rpc EXCEPT ![r] = "poll"]
  /\ last' = [last EXCEPT ![r] = Dollar]
  /\ cursor' = [cursor EXCEPT ![r] = 0]
  /\ UNCHANGED <<doc, seq, stream, writerVars, batch, after, torn, first, got>>

\* ConnectionError: the reply is lost, the reader sleeps and asks again.
Reconnect(r) ==
  /\ rpc[r] = "blocked"
  /\ rpc' = [rpc EXCEPT ![r] = "poll"]
  /\ cursor' = [cursor EXCEPT ![r] = 0]
  /\ UNCHANGED <<doc, seq, stream, writerVars, last, batch, after, torn, first, got>>

\* What a stream does with the entry at position n of the stream, if it is not
\* filtered out: the task itself is not sent, a final status ends the stream.
Taken(r, n, wanted) ==
  LET e == stream[n].event
      yields == wanted /\ e.kind # "task"
      rest == Tail(batch[r])
  IN /\ batch' = [batch EXCEPT ![r] = rest]
     /\ got' = [got EXCEPT ![r] = IF yields THEN Append(@, n) ELSE @]
     /\ rpc' = [rpc EXCEPT ![r] = IF yields /\ Final(e) THEN "closed"
                                  ELSE IF rest = <<>> THEN "poll" ELSE @]

\* Mutant of Take: the id is not remembered while it is the initial one.
TakeForgetful(r) ==
  /\ rpc[r] = "batch"
  /\ LET n == Head(batch[r]) IN
     /\ last' = [last EXCEPT ![r] = IF @ \in {0, Dollar} THEN @ ELSE n]
     /\ Taken(r, n, stream[n].seq > after[r])
  /\ UNCHANGED <<doc, seq, stream, writerVars, cursor, after, torn, first>>

\* The next entry of the batch: its id is remembered first.
Take(r) ==
  /\ rpc[r] = "batch"
  /\ LET n == Head(batch[r]) IN
     /\ last' = [last EXCEPT ![r] = n]
     /\ Taken(r, n, stream[n].seq > after[r])
  /\ UNCHANGED <<doc, seq, stream, writerVars, cursor, after, torn, first>>

\* Another error, or the stream's consumer stops: the reader is gone.
Stop(r) ==
  /\ rpc[r] \in {"poll", "blocked", "batch"}
  /\ rpc' = [rpc EXCEPT ![r] = "closed"]
  /\ batch' = [batch EXCEPT ![r] = <<>>]
  /\ cursor' = [cursor EXCEPT ![r] = 0]
  /\ UNCHANGED <<doc, seq, stream, writerVars, last, after, torn, first, got>>

-----------------------------------------------------------------------------
Init ==
  /\ doc = <<>> /\ seq = 0 /\ stream = <<>>
  /\ wpc = [w \in Writers |-> "idle"] /\ copy = [w \in Writers |-> <<>>]
  /\ mine = [w \in Writers |-> 0] /\ overlapped = FALSE
  /\ rpc = [r \in Readers |-> "idle"]
  /\ last = [r \in Readers |-> 0] /\ cursor = [r \in Readers |-> 0]
  /\ batch = [r \in Readers |-> <<>>] /\ after = [r \in Readers |-> -1]
  /\ torn = [r \in Readers |-> FALSE]
  /\ first = [r \in Readers |-> 0] /\ got = [r \in Readers |-> <<>>]

Write(w) == (\E e \in Appended : Get(w, e)) \/ Incr(w) \/ Exec(w) \/ Abandon(w)

Read(r) ==
  (\E mode \in Modes[r] : Start(r, mode)) \/ Call(r) \/ Return(r) \/ Expire(r) \/ Reconnect(r) \/ Take(r) \/ Stop(r)

Next == CreateTask \/ (\E w \in Writers : Write(w)) \/ (\E r \in Readers : Read(r))

Spec == Init /\ [][Next]_vars

\* A reader goes on (its consumer takes what it yields), and of the polls it makes
\* while there is something to read not every one is cut off.
Fairness == \A r \in Readers : WF_vars(Call(r)) /\ WF_vars(Take(r)) /\ SF_vars(Return(r))

FairSpec == Spec /\ Fairness

-----------------------------------------------------------------------------
(* Properties *)

Positions == 1 .. Len(stream)

StoreType ==
  /\ doc \in Seq(Appended) /\ seq \in 0 .. MaxSeq
  /\ stream \in Seq([seq : 0 .. MaxSeq, event : Event])
  /\ wpc \in [Writers -> {"idle", "incr", "exec"}] /\ overlapped \in BOOLEAN
  /\ copy \in [Writers -> Seq(Appended)] /\ mine \in [Writers -> 0 .. MaxSeq]

ReaderType ==
  /\ rpc \in [Readers -> {"idle", "poll", "blocked", "batch", "closed"}]
  /\ last \in [Readers -> Positions \cup {0, Dollar}] /\ cursor \in [Readers -> Positions \cup {0}]
  /\ after \in [Readers -> -1 .. MaxSeq] /\ torn \in [Readers -> BOOLEAN]
  /\ first \in [Readers -> 0 .. Len(stream) + 1]
  /\ batch \in [Readers -> Seq(Positions)] /\ got \in [Readers -> Seq(Positions)]
  /\ \A r \in Readers : Len(batch[r]) <= ReadCount

\* The variables have their types, and a reader holds at most ReadCount entries.
TypeOK == StoreType /\ ReaderType

\* The stored task is the fold of its event stream: no status, message or
\* artifact that subscribers saw is missing from it (append_status and
\* append_artifact, as long as one follows the other; a crash between two
\* commands of one included).
DocumentIsFoldOfStream ==
  ~overlapped => doc = [i \in 1 .. Len(stream) - 1 |-> stream[i + 1].event]

\* Whatever overlaps, the entry added last is in the document, so a task whose
\* last event is a final status is final when it is read (SET and XADD are one
\* MULTI).
LastEntryIsInDocument ==
  Len(stream) > 1 => doc # <<>> /\ doc[Len(doc)] = stream[Len(stream)].event

\* No two entries carry the same sequence number, though appends overlap and
\* fail half way (INCR): a client can tell a replayed event from a new one.
SequenceNamesOneEntry ==
  \A i, j \in Positions : stream[i].seq = stream[j].seq => i = j

\* Streams over this store are streams over the event feed: gapless and without
\* duplicates from where they start, ended by a final status, whatever replies
\* are lost; a live one starts with the first entry it is ever given.  Left out are
\* the torn ones: behind the number such a stream asked for an entry may still come
\* whose number was drawn before, and it passes over that (StreamsAreSifted).
Feed == INSTANCE EventFeed WITH
  Stream <- Readers, Task <- {"task"},
  log <- [t \in {"task"} |-> [i \in Positions |-> stream[i].event]],
  watch <- [r \in Readers |-> IF torn[r] \/ first[r] = 0 THEN {} ELSE {"task"}],
  from <- [r \in Readers |-> IF torn[r] THEN 0 ELSE first[r]],
  received <- [r \in Readers |-> IF torn[r] THEN <<>>
                                 ELSE [i \in DOMAIN got[r] |-> stream[got[r][i]].event]]

ImplementsFeed == Feed!Spec

\* Whatever overlaps, a stream yields, in order and once each, exactly the entries
\* it has come to from its first one on whose number is above the one it asked for
\* (iter_events).  For a stream that is not torn those are all of them.
StreamsAreSifted ==
  \A r \in Readers :
    /\ \A j, k \in DOMAIN got[r] : j < k => got[r][j] < got[r][k]
    /\ \A i \in Positions :
         (\E k \in DOMAIN got[r] : got[r][k] = i)
           <=> first[r] # 0 /\ first[r] <= i /\ i <= last[r] /\ stream[i].seq > after[r]

\* A stream ends once a final status it is to see follows where it started, however
\* often its connection fails (the loop of iter_events).
StreamReachesFinal ==
  \A r \in Readers :
    (first[r] # 0 /\ \E i \in Positions : /\ i >= first[r] /\ stream[i].seq > after[r]
                                         /\ Final(stream[i].event))
      ~> rpc[r] = "closed"
=============================================================================
