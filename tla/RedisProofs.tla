----------------------------- MODULE RedisProofs -----------------------------
(***************************************************************************)
(* The Redis task store numbers its entries once, keeps its document in    *)
(* step with them, and its readers implement EventFeed: for any number of  *)
(* overlapping appends and of readers, lost replies and batch sizes.       *)
(***************************************************************************)
EXTENDS RedisTaskStore, TLAPS

\* Only a task that was created has a counter, a document or appends.
ExistInv ==
  /\ ~Exists => seq = 0 /\ doc = <<>> /\ Quiet
  /\ \A w \in Writers : wpc[w] # "idle" => copy[w] # <<>>
  /\ \A i \in Positions : stream[i].event = TaskEvent <=> i = 1

\* A number once drawn is drawn once: it is in one entry or in one append.
NumberInv ==
  /\ SequenceNamesOneEntry
  /\ \A i \in Positions : stream[i].seq <= seq
  /\ \A w \in Writers : wpc[w] = "exec" =>
       /\ mine[w] \in 1 .. seq
       /\ \A i \in Positions : stream[i].seq # mine[w]
       /\ \A v \in Writers \ {w} : wpc[v] = "exec" => mine[v] # mine[w]

\* Without overlap there is one append under way, and it has the document there is.
DocumentInv ==
  /\ LastEntryIsInDocument
  /\ ~overlapped =>
       /\ DocumentIsFoldOfStream
       /\ \A w \in Writers : wpc[w] # "idle" =>
            /\ \A v \in Writers \ {w} : wpc[v] = "idle"
            /\ \E e \in Appended : copy[w] = Append(doc, e)

\* What a reader passes over lies before its first entry, and, unless it is torn, all
\* that comes later behind it: the numbers of entries and of appends under way say
\* which is which.
Boundary(r) ==
  /\ rpc[r] = "idle" => first[r] = 0 /\ got[r] = <<>> /\ ~torn[r]
  /\ rpc[r] # "idle" => Exists /\ first[r] # 1
  /\ after[r] <= seq
  /\ torn[r] => after[r] # -1
  /\ ~torn[r] => /\ \A w \in Writers : wpc[w] = "exec" => after[r] < mine[w]
                 /\ \A i \in Positions : first[r] # 0 /\ i >= first[r] => after[r] < stream[i].seq
  /\ last[r] # Dollar /\ last[r] < first[r] =>
       \A i \in 2 .. first[r] - 1 : stream[i].seq <= after[r]

\* Where a reader goes on.
Upcoming(r) == IF last[r] = Dollar THEN first[r] ELSE last[r] + 1

\* A reader has yielded everything from its first entry up to where it goes on.
Progress(r) ==
  rpc[r] \in {"poll", "blocked", "batch"} =>
    /\ last[r] = Dollar => after[r] = -1 /\ got[r] = <<>>
    /\ last[r] = Dollar /\ rpc[r] # "batch" => first[r] = 0
    /\ last[r] # Dollar => /\ first[r] # 0
                           /\ last[r] < first[r] => got[r] = <<>>
                           /\ last[r] >= first[r] /\ ~torn[r] => Len(got[r]) = last[r] - first[r] + 1
    /\ rpc[r] = "blocked" => IF last[r] = Dollar THEN cursor[r] # 0 ELSE cursor[r] = last[r]
    /\ rpc[r] = "batch" => /\ batch[r] # <<>> /\ first[r] # 0
                           /\ \A i \in 1 .. Len(batch[r]) : batch[r][i] = Upcoming(r) + i - 1
    /\ \A i \in 1 .. Len(got[r]) : ~Final(stream[got[r][i]].event)

BoundaryInv == \A r \in Readers : Boundary(r)
ReaderInv   == \A r \in Readers : Progress(r)

StoreInv == TypeOK /\ ExistInv /\ NumberInv /\ DocumentInv /\ BoundaryInv /\ ReaderInv

-----------------------------------------------------------------------------
(* Types *)

\* An appended event is not the task event, and that is not final.
LEMMA EventFacts ==
  /\ TaskEvent \in Event /\ TaskEvent \notin Appended /\ ~Final(TaskEvent)
  /\ \A e \in Appended : e \in Event /\ e # TaskEvent /\ e.kind # "task"
  /\ TaskEvent.kind = "task"
BY DEF Event, Appended, TaskEvent, Final

\* What the entry of an append is.
LEMMA EntryType ==
  ASSUME TypeOK, ExistInv, NEW w \in Writers, wpc[w] = "exec"
  PROVE  /\ Entry(w) \in [seq : 0 .. MaxSeq, event : Event]
         /\ Entry(w).seq = mine[w] /\ Entry(w).event = copy[w][Len(copy[w])]
         /\ Entry(w).event \in Appended
<1>1. copy[w] \in Seq(Appended) /\ copy[w] # <<>> /\ mine[w] \in 0 .. MaxSeq
  BY DEF TypeOK, StoreType, ExistInv
<1>2. copy[w][Len(copy[w])] \in Appended
  BY <1>1
<1> QED BY <1>1, <1>2, EventFacts DEF Entry

\* The entries of the stream.
LEMMA EntriesTyped ==
  ASSUME TypeOK
  PROVE  \A i \in Positions : stream[i].seq \in Nat /\ stream[i].event \in Event
<1>1. SUFFICES ASSUME NEW i \in 1 .. Len(stream)
               PROVE  stream[i].seq \in Nat /\ stream[i].event \in Event
  BY DEF Positions
<1> DEFINE S == [seq : 0 .. MaxSeq, event : Event]
<1>2. stream \in Seq(S)
  BY DEF TypeOK, StoreType
<1> HIDE DEF S
<1>3. stream[i] \in S
  BY <1>2
<1> QED BY <1>3 DEF S

\* The entries of the stream, one appended.
LEMMA StreamGrows ==
  ASSUME TypeOK, NEW x \in [seq : 0 .. MaxSeq, event : Event], stream' = Append(stream, x)
  PROVE  /\ stream' \in Seq([seq : 0 .. MaxSeq, event : Event])
         /\ Len(stream) \in Nat /\ Len(stream') = Len(stream) + 1
         /\ \A i \in Positions : stream'[i] = stream[i]
         /\ stream'[Len(stream) + 1] = x
         /\ Positions' = Positions \cup {Len(stream) + 1}
         /\ \A i \in Positions' : i \in Positions \/ i = Len(stream) + 1
<1>1. stream \in Seq([seq : 0 .. MaxSeq, event : Event])
  BY DEF TypeOK, StoreType
<1> QED BY <1>1 DEF Positions

\* Readers keep their types when the stream grows.
LEMMA ReaderTypeGrows ==
  ASSUME TypeOK, UNCHANGED readerVars,
         stream' = stream \/ \E x \in [seq : 0 .. MaxSeq, event : Event] : stream' = Append(stream, x)
  PROVE  ReaderType'
<1>1. stream \in Seq([seq : 0 .. MaxSeq, event : Event]) /\ Len(stream) \in Nat
  BY DEF TypeOK, StoreType
<1>2. Len(stream') \in Nat /\ Len(stream) <= Len(stream')
  BY <1>1
<1>3. Positions \subseteq Positions' /\ 0 .. Len(stream) + 1 \subseteq 0 .. Len(stream') + 1
  BY <1>1, <1>2 DEF Positions
<1>4. Seq(Positions) \subseteq Seq(Positions')
  BY <1>3
<1>5. /\ last' \in [Readers -> Positions' \cup {0, Dollar}]
      /\ cursor' \in [Readers -> Positions' \cup {0}]
  BY <1>3 DEF TypeOK, ReaderType, readerVars
<1>6. first' \in [Readers -> 0 .. Len(stream') + 1]
  BY <1>3 DEF TypeOK, ReaderType, readerVars
<1>7. batch' \in [Readers -> Seq(Positions')] /\ got' \in [Readers -> Seq(Positions')]
  BY <1>4 DEF TypeOK, ReaderType, readerVars
<1> QED BY <1>5, <1>6, <1>7 DEF TypeOK, ReaderType, readerVars

\* The steps of an append keep the types.
LEMMA WriteTypes ==
  ASSUME RedisAssumption, TypeOK, ExistInv,
         CreateTask \/ \E w \in Writers : Write(w)
  PROVE  TypeOK'
<1> USE DEF TypeOK, StoreType
<1>1. CASE CreateTask
  <2>1. [seq |-> 0, event |-> TaskEvent] \in [seq : 0 .. MaxSeq, event : Event]
    BY EventFacts DEF RedisAssumption
  <2>2. stream' = Append(stream, [seq |-> 0, event |-> TaskEvent])
    BY <1>1 DEF CreateTask, Exists
  <2>3. ReaderType'
    BY <1>1, <2>1, <2>2, ReaderTypeGrows DEF CreateTask
  <2>4. StoreType'
    BY <1>1, <2>1 DEF CreateTask, writerVars, RedisAssumption
  <2> QED BY <2>3, <2>4
<1>2. ASSUME NEW w \in Writers, NEW e \in Appended, Get(w, e) PROVE TypeOK'
  <2>1. Append(doc, e) \in Seq(Appended)
    OBVIOUS
  <2>2. StoreType'
    BY <1>2, <2>1 DEF Get
  <2> QED BY <1>2, <2>2, ReaderTypeGrows DEF Get
<1>3. ASSUME NEW w \in Writers, Incr(w) PROVE TypeOK'
  <2>1. seq' \in 0 .. MaxSeq
    BY <1>3 DEF Incr, RedisAssumption
  <2>2. StoreType'
    BY <1>3, <2>1 DEF Incr
  <2> QED BY <1>3, <2>2, ReaderTypeGrows DEF Incr
<1>4. ASSUME NEW w \in Writers, Exec(w) PROVE TypeOK'
  <2>1. Entry(w) \in [seq : 0 .. MaxSeq, event : Event] /\ stream' = Append(stream, Entry(w))
    BY <1>4, EntryType DEF Exec
  <2>2. stream' \in Seq([seq : 0 .. MaxSeq, event : Event])
    BY <2>1
  <2>3. StoreType'
    BY <1>4, <2>2 DEF Exec, Leave, RedisAssumption
  <2> QED BY <1>4, <2>1, <2>3, ReaderTypeGrows DEF Exec
<1>5. ASSUME NEW w \in Writers, Abandon(w) PROVE TypeOK'
  <2>1. StoreType'
    BY <1>5 DEF Abandon, Leave, RedisAssumption
  <2> QED BY <1>5, <2>1, ReaderTypeGrows DEF Abandon
<1> QED BY <1>1, <1>2, <1>3, <1>4, <1>5 DEF Write

\* What a reader gets is a piece of the stream behind its cursor.
LEMMA BatchShape ==
  ASSUME RedisAssumption, TypeOK, NEW r \in Readers, Return(r)
  PROVE  \E n \in 1 .. ReadCount :
           LET b == [i \in 1 .. n |-> cursor[r] + i] IN
           /\ batch' = [batch EXCEPT ![r] = b] /\ b \in Seq(Positions) /\ Len(b) = n
           /\ cursor[r] + n <= Len(stream) /\ cursor[r] \in Nat
<1>1. cursor[r] \in Nat /\ Len(stream) \in Nat /\ cursor[r] < Len(stream) /\ ReadCount \in Nat \ {0}
  BY DEF TypeOK, StoreType, ReaderType, Positions, Return, Received, RedisAssumption
<1>2. PICK n \in 1 .. ReadCount : /\ cursor[r] + n <= Len(stream)
                                  /\ batch' = [batch EXCEPT ![r] = [i \in 1 .. n |-> cursor[r] + i]]
  <2> DEFINE left == Len(stream) - cursor[r]
             n == IF left < ReadCount THEN left ELSE ReadCount
  <2>1. n \in 1 .. ReadCount /\ cursor[r] + n <= Len(stream)
    BY <1>1
  <2>2. batch' = [batch EXCEPT ![r] = [i \in 1 .. n |-> cursor[r] + i]]
    BY DEF Return, Received
  <2> QED BY <2>1, <2>2
<1>3. \A i \in 1 .. n : cursor[r] + i \in Positions
  BY <1>1, <1>2 DEF Positions
<1>4. [i \in 1 .. n |-> cursor[r] + i] \in Seq(Positions) /\ Len([i \in 1 .. n |-> cursor[r] + i]) = n
  BY <1>3
<1> QED BY <1>1, <1>2, <1>4

\* The steps of a reader keep the types.
LEMMA ReadTypes ==
  ASSUME RedisAssumption, TypeOK, ReaderInv, NEW r \in Readers, Read(r)
  PROVE  TypeOK'
<1>1. UNCHANGED <<doc, seq, stream, writerVars>>
  BY DEF Read, Start, Call, Return, Received, Expire, Reconnect, Take, Stop
<1>2. StoreType'
  BY <1>1 DEF TypeOK, StoreType, writerVars
<1>3. Len(stream) \in Nat /\ seq \in 0 .. MaxSeq
  BY DEF TypeOK, StoreType
<1> DEFINE Good ==
      /\ rpc' \in [Readers -> {"idle", "poll", "blocked", "batch", "closed"}]
      /\ last' \in [Readers -> Positions \cup {0, Dollar}]
      /\ cursor' \in [Readers -> Positions \cup {0}]
      /\ after' \in [Readers -> -1 .. MaxSeq] /\ torn' \in [Readers -> BOOLEAN]
      /\ first' \in [Readers -> 0 .. Len(stream) + 1]
      /\ batch' \in [Readers -> Seq(Positions)] /\ got' \in [Readers -> Seq(Positions)]
      /\ \A x \in Readers : Len(batch'[x]) <= ReadCount
<1>a. SUFFICES Good
  <2>1. Good => ReaderType'
    BY <1>1 DEF ReaderType, Positions
  <2> QED BY <1>2, <2>1 DEF TypeOK
<1> USE DEF ReaderType, TypeOK
<1>4. ASSUME NEW mode \in Modes[r], Start(r, mode) PROVE Good
  <2>1. mode \in {"replay", "live", "after"}
    BY DEF RedisAssumption
  <2>2. /\ (IF mode = "live" THEN Dollar ELSE 0) \in Positions \cup {0, Dollar}
        /\ (IF mode = "after" THEN seq ELSE -1) \in -1 .. MaxSeq
    BY <1>3 DEF RedisAssumption
  <2>3. first'[r] \in {0, 2, Len(stream) + 1} /\ first' = [first EXCEPT ![r] = first'[r]]
    BY <1>4, <2>1 DEF Start
  <2>4. 2 <= Len(stream) + 1
    BY <1>3, <1>4 DEF Start, Exists, StoreType
  <2>5. first'[r] \in 0 .. Len(stream) + 1
    BY <1>3, <2>3, <2>4
  <2>6. first' \in [Readers -> 0 .. Len(stream) + 1]
    BY <2>3, <2>5
  <2> QED BY <1>4, <2>2, <2>6 DEF Start
<1>5. CASE Call(r)
  <2>1. Exists => Len(stream) \in Positions \cup {0}
    BY <1>3 DEF Positions
  <2>2. cursor'[r] \in Positions \cup {0} /\ cursor' = [cursor EXCEPT ![r] = cursor'[r]]
    BY <1>3, <1>5 DEF Call, Positions, Dollar
  <2> QED BY <1>5, <2>2 DEF Call
<1>6. CASE Return(r)
  <2>1. PICK b \in Seq(Positions) : batch' = [batch EXCEPT ![r] = b] /\ Len(b) <= ReadCount
    <3>1. PICK n \in 1 .. ReadCount :
            LET b == [i \in 1 .. n |-> cursor[r] + i] IN
            batch' = [batch EXCEPT ![r] = b] /\ b \in Seq(Positions) /\ Len(b) = n
      BY <1>6, BatchShape
    <3>2. n <= ReadCount
      BY DEF RedisAssumption
    <3> QED BY <3>1, <3>2
  <2>2. cursor[r] + 1 \in 0 .. Len(stream) + 1
    <3>1. cursor[r] \in Nat /\ cursor[r] < Len(stream)
      BY <1>6 DEF Return, Received, Positions
    <3> QED BY <1>3, <3>1
  <2>3. first' \in [Readers -> 0 .. Len(stream) + 1]
    BY <1>6, <2>2 DEF Return, Received
  <2>4. cursor' \in [Readers -> Positions \cup {0}]
    BY <1>6 DEF Return, Received
  <2>5. \A x \in Readers : Len(batch'[x]) <= ReadCount
    BY <2>1
  <2>6. batch' \in [Readers -> Seq(Positions)]
    BY <2>1
  <2> QED BY <1>6, <2>3, <2>4, <2>5, <2>6 DEF Return, Received
<1>7. CASE Expire(r) \/ Reconnect(r)
  BY <1>7 DEF Expire, Reconnect
<1>8. CASE Take(r)
  <2> DEFINE n == Head(batch[r])
  <2>1. batch[r] \in Seq(Positions) /\ batch[r] # <<>>
    BY <1>8 DEF Take, ReaderInv, Progress
  <2>2. n \in Positions /\ Tail(batch[r]) \in Seq(Positions) /\ Len(Tail(batch[r])) <= Len(batch[r])
    BY <2>1
  <2>3. last' = [last EXCEPT ![r] = n] /\ batch' = [batch EXCEPT ![r] = Tail(batch[r])]
        /\ UNCHANGED <<cursor, after, torn, first>>
    BY <1>8 DEF Take, Taken
  <2>4. Append(got[r], n) \in Seq(Positions)
    BY <2>2
  <2>5. got' \in [Readers -> Seq(Positions)]
    BY <1>8, <2>4 DEF Take, Taken
  <2>6. rpc' \in [Readers -> {"idle", "poll", "blocked", "batch", "closed"}]
    BY <1>8 DEF Take, Taken
  <2>7. Len(Tail(batch[r])) <= ReadCount
    <3>1. Len(batch[r]) \in Nat /\ Len(Tail(batch[r])) \in Nat /\ Len(batch[r]) <= ReadCount
      BY <2>1, <2>2
    <3> QED BY <2>2, <3>1 DEF RedisAssumption
  <2>8. \A x \in Readers : Len(batch'[x]) <= ReadCount
    BY <2>3, <2>7
  <2>9. last' \in [Readers -> Positions \cup {0, Dollar}] /\ batch' \in [Readers -> Seq(Positions)]
    BY <2>2, <2>3
  <2> QED BY <2>3, <2>5, <2>6, <2>8, <2>9
<1>9. CASE Stop(r)
  <2>1. <<>> \in Seq(Positions) /\ Len(<<>>) <= ReadCount
    BY DEF RedisAssumption
  <2> QED BY <1>9, <2>1 DEF Stop
<1> QED BY <1>4, <1>5, <1>6, <1>7, <1>8, <1>9 DEF Read

-----------------------------------------------------------------------------
(* What appends keep *)

\* The steps of readers touch nothing of the appends.
LEMMA ReadKeeps ==
  ASSUME StoreInv, NEW r \in Readers, Read(r) \/ UNCHANGED vars
  PROVE  UNCHANGED <<doc, seq, stream, writerVars>>
BY DEF Read, Start, Call, Return, Received, Expire, Reconnect, Take, Stop, vars

\* A step that writes nothing keeps the invariants of the store.
LEMMA KeptStore ==
  ASSUME StoreInv, UNCHANGED <<doc, seq, stream, writerVars>>
  PROVE  ExistInv' /\ NumberInv' /\ DocumentInv'
BY DEF StoreInv, ExistInv, NumberInv, DocumentInv, SequenceNamesOneEntry, LastEntryIsInDocument,
       DocumentIsFoldOfStream, Positions, Exists, Quiet, writerVars

\* Copies and entries: only an append that has begun has a copy, and the task event
\* is the first entry.
LEMMA WriteExists ==
  ASSUME RedisAssumption, StoreInv, CreateTask \/ \E w \in Writers : Write(w)
  PROVE  ExistInv'
<1>0. /\ wpc \in [Writers -> {"idle", "incr", "exec"}] /\ copy \in [Writers -> Seq(Appended)]
      /\ stream \in Seq([seq : 0 .. MaxSeq, event : Event]) /\ doc \in Seq(Appended)
  BY DEF StoreInv, TypeOK, StoreType
<1>1. CASE CreateTask
  <2>1. stream' = <<[seq |-> 0, event |-> TaskEvent]>> /\ Quiet /\ UNCHANGED <<wpc, copy>>
    BY <1>1 DEF CreateTask, writerVars, StoreInv, ExistInv
  <2> QED BY <2>1 DEF ExistInv, Exists, Quiet, Positions
<1>2. ASSUME NEW w \in Writers, NEW e \in Appended, Get(w, e) PROVE ExistInv'
  <2>1. Append(doc, e) # <<>>
    <3>1. Len(Append(doc, e)) = Len(doc) + 1 /\ Len(doc) \in Nat
      BY <1>0
    <3> QED BY <3>1
  <2>2. UNCHANGED stream /\ Exists /\ copy' = [copy EXCEPT ![w] = Append(doc, e)]
        /\ wpc' = [wpc EXCEPT ![w] = "incr"]
    BY <1>2 DEF Get
  <2> QED BY <1>0, <2>1, <2>2 DEF StoreInv, ExistInv, Exists, Positions
<1>3. ASSUME NEW w \in Writers, Incr(w) PROVE ExistInv'
  BY <1>0, <1>3 DEF Incr, StoreInv, ExistInv, Exists, Quiet, Positions
<1>4. ASSUME NEW w \in Writers, Exec(w) PROVE ExistInv'
  <2>1. /\ Entry(w) \in [seq : 0 .. MaxSeq, event : Event] /\ stream' = Append(stream, Entry(w))
        /\ Entry(w).event # TaskEvent
    BY <1>4, EntryType, EventFacts DEF Exec, StoreInv
  <2>2. /\ \A i \in Positions : stream'[i] = stream[i]
        /\ stream'[Len(stream) + 1].event # TaskEvent /\ Len(stream) \in Nat
        /\ \A i \in Positions' : i \in Positions \/ i = Len(stream) + 1
        /\ Len(stream') = Len(stream) + 1
    BY <2>1, StreamGrows DEF StoreInv
  <2>3. stream # <<>> /\ stream' # <<>>
    <3>1. wpc[w] # "idle"
      BY <1>4 DEF Exec
    <3>2. stream # <<>>
      BY <3>1 DEF StoreInv, ExistInv, Exists, Quiet
    <3> QED BY <1>0, <2>2, <3>2
  <2>4. \A i \in Positions' : stream'[i].event = TaskEvent <=> i = 1
    <3>1. 1 \in Positions
      BY <1>0, <2>3 DEF Positions
    <3> QED BY <2>2, <3>1 DEF StoreInv, ExistInv, Positions
  <2>5. \A v \in Writers : wpc'[v] # "idle" => copy'[v] # <<>>
    BY <1>0, <1>4 DEF Exec, Leave, StoreInv, ExistInv
  <2> QED BY <2>3, <2>4, <2>5 DEF ExistInv, Exists
<1>5. ASSUME NEW w \in Writers, Abandon(w) PROVE ExistInv'
  BY <1>0, <1>5 DEF Abandon, Leave, StoreInv, ExistInv, Exists, Quiet, Positions
<1> QED BY <1>1, <1>2, <1>3, <1>4, <1>5 DEF Write

\* Numbers: INCR draws one above all those in entries and in appends under way.
LEMMA WriteNumbers ==
  ASSUME RedisAssumption, StoreInv, CreateTask \/ \E w \in Writers : Write(w)
  PROVE  NumberInv'
<1>0. /\ wpc \in [Writers -> {"idle", "incr", "exec"}] /\ mine \in [Writers -> 0 .. MaxSeq]
      /\ stream \in Seq([seq : 0 .. MaxSeq, event : Event]) /\ seq \in Nat
      /\ \A i \in Positions : stream[i].seq \in Nat
  <2>1. /\ wpc \in [Writers -> {"idle", "incr", "exec"}] /\ mine \in [Writers -> 0 .. MaxSeq]
        /\ stream \in Seq([seq : 0 .. MaxSeq, event : Event]) /\ seq \in Nat
    BY DEF StoreInv, TypeOK, StoreType
  <2>2. \A i \in Positions : stream[i].seq \in Nat
    BY EntriesTyped DEF StoreInv
  <2> QED BY <2>1, <2>2
<1>00. NumberInv
  BY DEF StoreInv
<1>1. CASE CreateTask
  <2>1. stream' = <<[seq |-> 0, event |-> TaskEvent]>> /\ seq' = 0 /\ wpc' = wpc /\ Quiet
    BY <1>1 DEF CreateTask, writerVars, StoreInv, ExistInv
  <2> QED BY <2>1 DEF NumberInv, SequenceNamesOneEntry, Quiet, Positions
<1>2. ASSUME UNCHANGED <<stream, seq>>,
             \A w \in Writers : wpc'[w] = "exec" => wpc[w] = "exec" /\ mine'[w] = mine[w]
      PROVE  NumberInv'
  BY <1>00, <1>2 DEF NumberInv, SequenceNamesOneEntry, Positions
<1>3. ASSUME NEW w \in Writers, NEW e \in Appended, Get(w, e) PROVE NumberInv'
  BY <1>0, <1>2, <1>3 DEF Get
<1>4. ASSUME NEW w \in Writers, Incr(w) PROVE NumberInv'
  <2>1. /\ seq' = seq + 1 /\ stream' = stream /\ mine' = [mine EXCEPT ![w] = seq + 1]
        /\ wpc' = [wpc EXCEPT ![w] = "exec"] /\ wpc[w] = "incr"
    BY <1>4 DEF Incr
  <2>2. \A i \in Positions : stream[i].seq <= seq /\ stream[i].seq # seq + 1
    BY <1>0, <1>00 DEF NumberInv
  <2>3. \A v \in Writers \ {w} : wpc[v] = "exec" => mine[v] \in 1 .. seq /\ mine[v] # seq + 1
    BY <1>0, <1>00 DEF NumberInv
  <2>4. SequenceNamesOneEntry' /\ \A i \in Positions' : stream'[i].seq <= seq'
    BY <1>0, <1>00, <2>1, <2>2 DEF NumberInv, SequenceNamesOneEntry, Positions
  <2>5. ASSUME NEW v \in Writers, wpc'[v] = "exec"
        PROVE  /\ mine'[v] \in 1 .. seq'
               /\ \A i \in Positions' : stream'[i].seq # mine'[v]
               /\ \A u \in Writers \ {v} : wpc'[u] = "exec" => mine'[u] # mine'[v]
    <3>1. CASE v = w
      BY <1>0, <2>1, <2>2, <2>3, <3>1 DEF Positions
    <3>2. CASE v # w
      <4>1. wpc[v] = "exec" /\ mine'[v] = mine[v]
        BY <1>0, <2>1, <2>5, <3>2
      <4>2. mine[v] \in 1 .. seq + 1 /\ \A i \in Positions : stream[i].seq # mine[v]
        BY <1>0, <1>00, <4>1 DEF NumberInv
      <4>3. \A u \in Writers \ {v} : wpc'[u] = "exec" => mine'[u] # mine[v]
        BY <1>0, <1>00, <2>1, <2>3, <4>1 DEF NumberInv
      <4> QED BY <2>1, <4>1, <4>2, <4>3 DEF Positions
    <3> QED BY <3>1, <3>2
  <2> QED BY <2>4, <2>5 DEF NumberInv
<1>5. ASSUME NEW w \in Writers, Exec(w) PROVE NumberInv'
  <2>1. /\ Entry(w) \in [seq : 0 .. MaxSeq, event : Event] /\ stream' = Append(stream, Entry(w))
        /\ Entry(w).seq = mine[w] /\ seq' = seq /\ wpc[w] = "exec"
        /\ wpc' = [wpc EXCEPT ![w] = "idle"] /\ mine' = [mine EXCEPT ![w] = 0]
    BY <1>5, EntryType DEF Exec, Leave, StoreInv
  <2>2. /\ \A i \in Positions : stream'[i].seq = stream[i].seq
        /\ stream'[Len(stream) + 1].seq = mine[w]
        /\ \A i \in Positions' : i \in Positions \/ i = Len(stream) + 1
    BY <2>1, StreamGrows DEF StoreInv
  <2>3. /\ mine[w] \in 1 .. seq /\ \A i \in Positions : stream[i].seq # mine[w]
        /\ \A v \in Writers \ {w} : wpc[v] = "exec" => mine[v] # mine[w]
    BY <1>00, <2>1 DEF NumberInv
  <2>4. SequenceNamesOneEntry'
    BY <1>00, <2>2, <2>3 DEF NumberInv, SequenceNamesOneEntry
  <2>5. \A i \in Positions' : stream'[i].seq <= seq'
    <3>1. mine[w] <= seq /\ \A i \in Positions : stream[i].seq <= seq
      BY <1>00, <2>3 DEF NumberInv
    <3>2. seq' = seq
      BY <2>1
    <3> QED BY <2>2, <3>1, <3>2
  <2>6. ASSUME NEW v \in Writers, wpc'[v] = "exec"
        PROVE  /\ mine'[v] \in 1 .. seq'
               /\ \A i \in Positions' : stream'[i].seq # mine'[v]
               /\ \A u \in Writers \ {v} : wpc'[u] = "exec" => mine'[u] # mine'[v]
    <3>1. v # w /\ wpc[v] = "exec" /\ mine'[v] = mine[v]
      BY <1>0, <2>1, <2>6
    <3>2. \A u \in Writers \ {v} : wpc'[u] = "exec" => u # w /\ wpc[u] = "exec" /\ mine'[u] = mine[u]
      BY <1>0, <2>1
    <3>3. /\ mine[v] \in 1 .. seq /\ mine[v] # mine[w]
          /\ \A i \in Positions : stream[i].seq # mine[v]
          /\ \A u \in Writers \ {v} : wpc[u] = "exec" => mine[u] # mine[v]
      BY <1>00, <2>3, <3>1 DEF NumberInv
    <3>4. mine'[v] \in 1 .. seq'
      BY <2>1, <3>1, <3>3
    <3>5. \A i \in Positions' : stream'[i].seq # mine'[v]
      BY <2>2, <3>1, <3>3
    <3>6. \A u \in Writers \ {v} : wpc'[u] = "exec" => mine'[u] # mine'[v]
      BY <3>1, <3>2, <3>3
    <3> QED BY <3>4, <3>5, <3>6
  <2> QED BY <2>4, <2>5, <2>6 DEF NumberInv
<1>6. ASSUME NEW w \in Writers, Abandon(w) PROVE NumberInv'
  BY <1>0, <1>2, <1>6 DEF Abandon, Leave
<1> QED BY <1>1, <1>3, <1>4, <1>5, <1>6 DEF Write

\* The document: the append that is alone has the document there is, and one entry more.
LEMMA WriteDocument ==
  ASSUME RedisAssumption, StoreInv, CreateTask \/ \E w \in Writers : Write(w)
  PROVE  DocumentInv'
<1>0. /\ wpc \in [Writers -> {"idle", "incr", "exec"}] /\ copy \in [Writers -> Seq(Appended)]
      /\ stream \in Seq([seq : 0 .. MaxSeq, event : Event]) /\ doc \in Seq(Appended)
  BY DEF StoreInv, TypeOK, StoreType
<1>00. DocumentInv
  BY DEF StoreInv
<1>1. CASE CreateTask
  <2>1. stream' = <<[seq |-> 0, event |-> TaskEvent]>> /\ doc' = <<>> /\ wpc' = wpc /\ Quiet
    BY <1>1 DEF CreateTask, writerVars, StoreInv, ExistInv
  <2>2. Len(stream') = 1
    BY <2>1
  <2> QED BY <2>1, <2>2 DEF DocumentInv, LastEntryIsInDocument, DocumentIsFoldOfStream, Quiet
<1>2. ASSUME NEW w \in Writers, NEW e \in Appended, Get(w, e) PROVE DocumentInv'
  <2>1. /\ UNCHANGED <<stream, doc>> /\ wpc' = [wpc EXCEPT ![w] = "incr"]
        /\ copy' = [copy EXCEPT ![w] = Append(doc, e)] /\ wpc[w] = "idle"
        /\ overlapped' = (overlapped \/ ~Quiet)
    BY <1>2 DEF Get
  <2>2. ~overlapped' => ~overlapped /\ Quiet
    BY <2>1
  <2>3. LastEntryIsInDocument' /\ (~overlapped' => DocumentIsFoldOfStream')
    BY <1>00, <2>1, <2>2 DEF DocumentInv, LastEntryIsInDocument, DocumentIsFoldOfStream
  <2>4. ASSUME Quiet, NEW v \in Writers, wpc'[v] # "idle"
        PROVE  (\A u \in Writers \ {v} : wpc'[u] = "idle") /\ copy'[v] = Append(doc', e)
    BY <1>0, <2>1, <2>4 DEF Quiet
  <2> QED BY <2>2, <2>3, <2>4 DEF DocumentInv
<1>3. ASSUME UNCHANGED <<stream, doc, overlapped>>,
             \A w \in Writers : wpc'[w] # "idle" => wpc[w] # "idle" /\ copy'[w] = copy[w]
      PROVE  DocumentInv'
  BY <1>00, <1>3 DEF DocumentInv, LastEntryIsInDocument, DocumentIsFoldOfStream
<1>4. ASSUME NEW w \in Writers, Incr(w) PROVE DocumentInv'
  BY <1>0, <1>3, <1>4 DEF Incr
<1>5. ASSUME NEW w \in Writers, Exec(w) PROVE DocumentInv'
  <2>1. /\ Entry(w) \in [seq : 0 .. MaxSeq, event : Event] /\ stream' = Append(stream, Entry(w))
        /\ Entry(w).event = copy[w][Len(copy[w])] /\ doc' = copy[w] /\ overlapped' = overlapped
        /\ wpc[w] = "exec" /\ wpc' = [wpc EXCEPT ![w] = "idle"] /\ copy[w] # <<>>
    BY <1>5, EntryType DEF Exec, Leave, StoreInv, ExistInv
  <2>2. /\ \A i \in Positions : stream'[i] = stream[i]
        /\ stream'[Len(stream) + 1] = Entry(w) /\ Len(stream) \in Nat
        /\ Len(stream') = Len(stream) + 1
    BY <2>1, StreamGrows DEF StoreInv
  <2>3. LastEntryIsInDocument'
    BY <2>1, <2>2 DEF LastEntryIsInDocument
  <2>4. ASSUME ~overlapped'
        PROVE  /\ DocumentIsFoldOfStream'
               /\ \A v \in Writers : wpc'[v] = "idle"
    <3>1. /\ doc = [i \in 1 .. Len(stream) - 1 |-> stream[i + 1].event]
          /\ \A v \in Writers \ {w} : wpc[v] = "idle"
      BY <1>00, <2>1, <2>4 DEF DocumentInv, DocumentIsFoldOfStream
    <3>2. PICK e \in Appended : copy[w] = Append(doc, e)
      BY <1>00, <2>1, <2>4 DEF DocumentInv
    <3>3. stream # <<>> /\ Len(stream) >= 1
      <4>1. stream # <<>>
        BY <2>1 DEF StoreInv, ExistInv, Exists, Quiet
      <4> QED BY <1>0, <4>1
    <3>4. Len(doc) = Len(stream) - 1
      BY <2>2, <3>1, <3>3
    <3>5. Len(copy[w]) = Len(stream) /\ copy[w][Len(stream)] = e
          /\ \A i \in 1 .. Len(stream) - 1 : copy[w][i] = doc[i]
      BY <1>0, <2>2, <3>2, <3>3, <3>4
    <3>6. \A i \in 1 .. Len(stream) : copy[w][i] = stream'[i + 1].event
      <4>1. copy[w][Len(stream)] = stream'[Len(stream) + 1].event
        BY <2>1, <2>2, <3>5
      <4>2. ASSUME NEW i \in 1 .. Len(stream) - 1 PROVE copy[w][i] = stream'[i + 1].event
        <5>1. i + 1 \in Positions
          BY <2>2 DEF Positions
        <5> QED BY <2>2, <3>1, <3>5, <5>1
      <4> QED BY <2>2, <3>3, <4>1, <4>2
    <3>7. doc' = [i \in 1 .. Len(stream') - 1 |-> stream'[i + 1].event]
      <4>1. copy[w] \in Seq(Appended)
        BY <1>0
      <4>2. copy[w] = [i \in 1 .. Len(stream) |-> copy[w][i]]
        BY <3>5, <4>1
      <4>3. Len(stream') - 1 = Len(stream)
        BY <2>2
      <4> QED BY <2>1, <3>6, <4>2, <4>3
    <3> QED BY <1>0, <2>1, <3>1, <3>7 DEF DocumentIsFoldOfStream
  <2> QED BY <2>3, <2>4 DEF DocumentInv
<1>6. ASSUME NEW w \in Writers, Abandon(w) PROVE DocumentInv'
  BY <1>0, <1>3, <1>6 DEF Abandon, Leave
<1> QED BY <1>1, <1>2, <1>4, <1>5, <1>6 DEF Write

-----------------------------------------------------------------------------
(* What readers keep *)

\* The ranges of a reader's variables.
LEMMA ReaderFacts ==
  ASSUME TypeOK, NEW r \in Readers
  PROVE  /\ last[r] \in Nat \/ last[r] = Dollar
         /\ last[r] <= Len(stream) /\ Len(stream) \in Nat /\ Dollar = -1
         /\ cursor[r] \in Nat /\ first[r] \in 0 .. Len(stream) + 1 /\ after[r] \in -1 .. MaxSeq
         /\ batch[r] \in Seq(Positions) /\ got[r] \in Seq(Positions)
         /\ Len(got[r]) \in Nat /\ Len(batch[r]) \in Nat
         /\ \A i \in 1 .. Len(got[r]) : got[r][i] \in Positions
<1> DEFINE S == [seq : 0 .. MaxSeq, event : Event]
<1>1. stream \in Seq(S)
  BY DEF TypeOK, StoreType
<1>2. /\ last[r] \in Positions \cup {0, Dollar} /\ cursor[r] \in Positions \cup {0}
      /\ first[r] \in 0 .. Len(stream) + 1 /\ after[r] \in -1 .. MaxSeq
      /\ batch[r] \in Seq(Positions) /\ got[r] \in Seq(Positions)
  BY DEF TypeOK, ReaderType
<1> HIDE DEF S
<1>3. Len(stream) \in Nat
  BY <1>1
<1>4. /\ last[r] \in Nat \/ last[r] = Dollar
      /\ last[r] <= Len(stream) /\ Dollar = -1 /\ cursor[r] \in Nat
  BY <1>2, <1>3 DEF Positions, Dollar
<1>5. /\ Len(got[r]) \in Nat /\ Len(batch[r]) \in Nat
      /\ \A i \in 1 .. Len(got[r]) : got[r][i] \in Positions
  BY <1>2
<1> QED BY <1>2, <1>3, <1>4, <1>5

\* A reader that was made and is not torn.
Open(r) == rpc[r] # "idle" /\ ~torn[r]

\* An append leaves readers where they are when its number is behind their boundary.
LEMMA AppendBehind ==
  ASSUME StoreInv, UNCHANGED readerVars, seq' \in Nat, seq <= seq',
         \A w \in Writers, r \in Readers : wpc'[w] = "exec" /\ ~torn[r] => after[r] < mine'[w],
         \/ stream' = stream
         \/ \E x \in [seq : 0 .. MaxSeq, event : Event] :
              stream' = Append(stream, x) /\ \A r \in Readers : Open(r) => after[r] < x.seq
  PROVE  BoundaryInv' /\ ReaderInv'
<1>1. /\ \A i \in Positions : stream'[i] = stream[i]
      /\ Exists => Exists'
      /\ \A i \in Positions' : i \in Positions \/ \A r \in Readers : Open(r) => after[r] < stream'[i].seq
  <2>1. CASE stream' = stream
    BY <2>1 DEF Exists, Positions
  <2>2. ASSUME NEW x \in [seq : 0 .. MaxSeq, event : Event], stream' = Append(stream, x),
               \A r \in Readers : Open(r) => after[r] < x.seq
        PROVE  <1>1
    <3>1. /\ \A i \in Positions : stream'[i] = stream[i]
          /\ stream'[Len(stream) + 1] = x /\ Len(stream') = Len(stream) + 1 /\ Len(stream) \in Nat
          /\ \A i \in Positions' : i \in Positions \/ i = Len(stream) + 1
      BY <2>2, StreamGrows DEF StoreInv
    <3>2. Exists'
      BY <3>1 DEF Exists
    <3> QED BY <2>2, <3>1, <3>2
  <2> QED BY <2>1, <2>2
<1>2. ASSUME NEW r \in Readers PROVE Boundary(r)' /\ Progress(r)'
  <2>0. /\ last'[r] = last[r] /\ cursor'[r] = cursor[r] /\ batch'[r] = batch[r] /\ rpc'[r] = rpc[r]
        /\ after'[r] = after[r] /\ first'[r] = first[r] /\ got'[r] = got[r]
        /\ torn'[r] = torn[r]
    BY DEF readerVars
  <2>1. Boundary(r) /\ Progress(r)
    BY DEF StoreInv, BoundaryInv, ReaderInv
  <2>2. /\ last[r] \in Nat \/ last[r] = Dollar
        /\ first[r] \in 0 .. Len(stream) + 1 /\ after[r] \in Int /\ Len(stream) \in Nat
        /\ \A i \in 1 .. Len(got[r]) : got[r][i] \in Positions
    BY ReaderFacts DEF StoreInv
  <2>3. Progress(r)'
    <3>1. \A i \in 1 .. Len(got[r]) : stream'[got[r][i]] = stream[got[r][i]]
      BY <1>1, <2>2
    <3> QED BY <2>0, <2>1, <3>1 DEF Progress, Upcoming
  <2>4. ~torn[r] => \A i \in Positions' : first[r] # 0 /\ i >= first[r] => after[r] < stream'[i].seq
    <3>1. first[r] # 0 => rpc[r] # "idle"
      BY <2>1 DEF Boundary
    <3> QED BY <1>1, <2>1, <3>1 DEF Boundary, Open
  <2>5. last[r] # Dollar /\ last[r] < first[r] =>
         \A i \in 2 .. first[r] - 1 : stream'[i].seq <= after[r]
    <3>1. \A i \in 2 .. first[r] - 1 : i \in Positions
      BY <2>2 DEF Positions
    <3> QED BY <1>1, <2>1, <3>1 DEF Boundary
  <2>6. after[r] <= seq'
    <3>1. after[r] <= seq /\ seq \in Nat
      BY <2>1 DEF Boundary, StoreInv, TypeOK, StoreType
    <3> QED BY <2>2, <3>1
  <2>7. Boundary(r)'
    BY <1>1, <2>0, <2>1, <2>4, <2>5, <2>6 DEF Boundary
  <2> QED BY <2>3, <2>7
<1> QED BY <1>2 DEF BoundaryInv, ReaderInv

\* The steps of appends: numbers are drawn above every reader's boundary.
LEMMA WriteReaders ==
  ASSUME RedisAssumption, StoreInv, CreateTask \/ \E w \in Writers : Write(w)
  PROVE  BoundaryInv' /\ ReaderInv'
<1>0. /\ wpc \in [Writers -> {"idle", "incr", "exec"}] /\ mine \in [Writers -> 0 .. MaxSeq]
      /\ seq \in Nat
  BY DEF StoreInv, TypeOK, StoreType
<1>1. \A r \in Readers : /\ rpc[r] # "idle" => Exists
                         /\ after[r] <= seq /\ after[r] \in Int
                         /\ ~torn[r] => \A w \in Writers : wpc[w] = "exec" => after[r] < mine[w]
  BY DEF StoreInv, BoundaryInv, Boundary, TypeOK, ReaderType
<1>2. CASE CreateTask
  <2> DEFINE x == [seq |-> 0, event |-> TaskEvent]
  <2>1. /\ stream' = Append(stream, x) /\ seq' = 0 /\ seq = 0 /\ wpc' = wpc /\ Quiet
        /\ UNCHANGED readerVars /\ ~Exists
    BY <1>2 DEF CreateTask, Exists, writerVars, StoreInv, ExistInv
  <2>2. x \in [seq : 0 .. MaxSeq, event : Event]
    BY EventFacts DEF RedisAssumption
  <2>3. \A w \in Writers : wpc'[w] # "exec"
    BY <2>1 DEF Quiet
  <2>4. \A r \in Readers : Open(r) => after[r] < x.seq
    BY <1>1, <2>1 DEF Open
  <2> QED BY <2>1, <2>2, <2>3, <2>4, AppendBehind
<1>3. ASSUME NEW w \in Writers, NEW e \in Appended, Get(w, e) PROVE BoundaryInv' /\ ReaderInv'
  <2>1. /\ stream' = stream /\ seq' = seq /\ mine' = mine /\ UNCHANGED readerVars
        /\ wpc' = [wpc EXCEPT ![w] = "incr"]
    BY <1>3 DEF Get
  <2>2. \A v \in Writers, r \in Readers : wpc'[v] = "exec" /\ ~torn[r] => after[r] < mine'[v]
    BY <1>0, <1>1, <2>1
  <2> QED BY <1>0, <2>1, <2>2, AppendBehind
<1>4. ASSUME NEW w \in Writers, Incr(w) PROVE BoundaryInv' /\ ReaderInv'
  <2>1. /\ stream' = stream /\ seq' = seq + 1 /\ mine' = [mine EXCEPT ![w] = seq + 1]
        /\ UNCHANGED readerVars /\ wpc' = [wpc EXCEPT ![w] = "exec"]
    BY <1>4 DEF Incr
  <2>2. \A v \in Writers, r \in Readers : wpc'[v] = "exec" /\ ~torn[r] => after[r] < mine'[v]
    BY <1>0, <1>1, <2>1
  <2>3. seq' \in Nat /\ seq <= seq'
    BY <1>0, <2>1
  <2> QED BY <2>1, <2>2, <2>3, AppendBehind
<1>5. ASSUME NEW w \in Writers, Exec(w) PROVE BoundaryInv' /\ ReaderInv'
  <2>1. /\ stream' = Append(stream, Entry(w)) /\ seq' = seq /\ mine' = [mine EXCEPT ![w] = 0]
        /\ UNCHANGED readerVars /\ wpc' = [wpc EXCEPT ![w] = "idle"]
        /\ Entry(w) \in [seq : 0 .. MaxSeq, event : Event] /\ Entry(w).seq = mine[w]
        /\ wpc[w] = "exec"
    BY <1>5, EntryType DEF Exec, Leave, StoreInv
  <2>2. \A v \in Writers, r \in Readers : wpc'[v] = "exec" /\ ~torn[r] => after[r] < mine'[v]
    BY <1>0, <1>1, <2>1
  <2>3. \A r \in Readers : Open(r) => after[r] < Entry(w).seq
    BY <1>1, <2>1 DEF Open
  <2> QED BY <1>0, <2>1, <2>2, <2>3, AppendBehind
<1>6. ASSUME NEW w \in Writers, Abandon(w) PROVE BoundaryInv' /\ ReaderInv'
  <2>1. /\ stream' = stream /\ seq' = seq /\ mine' = [mine EXCEPT ![w] = 0]
        /\ UNCHANGED readerVars /\ wpc' = [wpc EXCEPT ![w] = "idle"]
    BY <1>6 DEF Abandon, Leave
  <2>2. \A v \in Writers, r \in Readers : wpc'[v] = "exec" /\ ~torn[r] => after[r] < mine'[v]
    BY <1>0, <1>1, <2>1
  <2> QED BY <1>0, <2>1, <2>2, AppendBehind
<1> QED BY <1>2, <1>3, <1>4, <1>5, <1>6 DEF Write

\* What reader r has, before a step of it.
LEMMA ReaderBefore ==
  ASSUME StoreInv, NEW r \in Readers
  PROVE  /\ Boundary(r) /\ Progress(r)
         /\ Exists => Len(stream) >= 1
         /\ Len(stream) \in Nat /\ seq \in Nat
         /\ \A i \in Positions : stream[i].seq \in Nat /\ stream[i].seq <= seq
<1>1. stream \in Seq([seq : 0 .. MaxSeq, event : Event]) /\ seq \in Nat
  BY DEF StoreInv, TypeOK, StoreType
<1>2. \A i \in Positions : stream[i].seq \in Nat
  BY EntriesTyped DEF StoreInv
<1>3. Exists => Len(stream) >= 1
  BY <1>1 DEF Exists
<1> QED BY <1>1, <1>2, <1>3 DEF StoreInv, BoundaryInv, ReaderInv, NumberInv

\* A reader that is made starts behind what it passes over.
LEMMA StartReader ==
  ASSUME RedisAssumption, StoreInv, NEW r \in Readers, NEW mode \in Modes[r], Start(r, mode)
  PROVE  Boundary(r)' /\ Progress(r)'
<1>0. rpc \in [Readers -> {"idle", "poll", "blocked", "batch", "closed"}]
      /\ DOMAIN last = Readers /\ DOMAIN after = Readers /\ DOMAIN first = Readers
      /\ DOMAIN torn = Readers
  BY DEF StoreInv, TypeOK, ReaderType
<1>1. mode \in {"replay", "live", "after"}
  BY DEF RedisAssumption
<1>2. /\ Boundary(r) /\ Len(stream) \in Nat /\ Len(stream) >= 1 /\ seq \in Nat
      /\ \A i \in Positions : stream[i].seq \in Nat /\ stream[i].seq <= seq
  BY ReaderBefore DEF Start
<1>3. /\ rpc'[r] = "poll" /\ UNCHANGED <<stream, seq, wpc, mine>> /\ Exists
      /\ got'[r] = <<>>
      /\ last'[r] = IF mode = "live" THEN Dollar ELSE 0
      /\ after'[r] = IF mode = "after" THEN seq ELSE -1
      /\ mode = "replay" => first'[r] = 2
      /\ torn'[r] = (mode = "after" /\ Drawn # {})
      /\ mode = "after" => first'[r] = Len(stream) + 1
      /\ mode = "live" => first'[r] = 0
  BY <1>0, <1>1, <1>2 DEF Start, Boundary, writerVars
<1>4. first'[r] # 1 /\ after'[r] <= seq
  BY <1>1, <1>2, <1>3
<1>5. /\ torn'[r] => after'[r] # -1
      /\ ~torn'[r] => \A w \in Writers : wpc[w] = "exec" => after'[r] < mine[w]
  <2>1. \A w \in Writers : mine[w] \in Nat
    BY DEF StoreInv, TypeOK, StoreType
  <2>2. CASE mode = "after"
    <3>1. after'[r] = seq /\ (~torn'[r] => Drawn = {})
      BY <1>3, <2>2
    <3> QED BY <1>2, <3>1 DEF Drawn
  <2>3. CASE mode # "after"
    <3>1. after'[r] = -1 /\ ~torn'[r]
      BY <1>3, <2>3
    <3> QED BY <2>1, <3>1
  <2> QED BY <2>2, <2>3
<1>6. \A i \in Positions : first'[r] # 0 /\ i >= first'[r] => after'[r] < stream[i].seq
  <2>1. CASE mode = "after"
    BY <1>2, <1>3, <2>1 DEF Positions
  <2>2. CASE mode # "after"
    BY <1>2, <1>3, <2>2
  <2> QED BY <2>1, <2>2
<1>7. last'[r] # Dollar => \A i \in 2 .. first'[r] - 1 : stream[i].seq <= after'[r]
  <2>1. CASE mode = "after"
    <3>1. \A i \in 2 .. first'[r] - 1 : i \in Positions
      BY <1>2, <1>3, <2>1 DEF Positions
    <3> QED BY <1>2, <1>3, <2>1, <3>1
  <2>2. CASE mode # "after"
    BY <1>1, <1>3, <2>2
  <2> QED BY <2>1, <2>2
<1>8. Boundary(r)'
  BY <1>3, <1>4, <1>5, <1>6, <1>7 DEF Boundary, Exists, Positions
<1>9. Progress(r)'
  <2>1. Len(got'[r]) = 0
    BY <1>3
  <2>2. last'[r] # Dollar => last'[r] = 0 /\ first'[r] >= 2
    BY <1>1, <1>2, <1>3
  <2>3. last'[r] = Dollar => after'[r] = -1 /\ first'[r] = 0
    BY <1>1, <1>3 DEF Dollar
  <2> QED BY <1>3, <2>1, <2>2, <2>3 DEF Progress
<1> QED BY <1>8, <1>9

\* XREAD arrives, returns, expires or fails; the reader stops.
LEMMA PollReader ==
  ASSUME RedisAssumption, StoreInv, NEW r \in Readers,
         Call(r) \/ Expire(r) \/ Reconnect(r) \/ Stop(r)
  PROVE  Boundary(r)' /\ Progress(r)'
<1>0. rpc \in [Readers -> {"idle", "poll", "blocked", "batch", "closed"}] /\ DOMAIN cursor = Readers
  BY DEF StoreInv, TypeOK, ReaderType
<1>1. Boundary(r) /\ Progress(r) /\ Len(stream) \in Nat /\ (Exists => Len(stream) >= 1)
  BY ReaderBefore
<1>2. /\ rpc[r] \in {"poll", "blocked", "batch"} /\ rpc'[r] # "idle"
      /\ UNCHANGED <<stream, seq, wpc, mine, last, after, torn, first, got>>
  BY <1>0 DEF Call, Expire, Reconnect, Stop, writerVars
<1>3. Boundary(r)'
  BY <1>1, <1>2 DEF Boundary, Exists, Positions
<1>4. CASE Call(r)
  <2>1. rpc'[r] = "blocked" /\ rpc[r] = "poll"
        /\ cursor'[r] = IF last[r] = Dollar THEN Len(stream) ELSE last[r]
    BY <1>0, <1>4 DEF Call
  <2>2. Len(stream) # 0
    BY <1>1, <1>2 DEF Boundary
  <2> QED BY <1>1, <1>2, <1>3, <2>1, <2>2 DEF Progress
<1>5. CASE Expire(r) \/ Reconnect(r)
  <2>1. rpc'[r] = "poll" /\ rpc[r] = "blocked"
    BY <1>0, <1>5 DEF Expire, Reconnect
  <2> QED BY <1>1, <1>2, <1>3, <2>1 DEF Progress
<1>6. CASE Stop(r)
  <2>1. rpc'[r] = "closed"
    BY <1>0, <1>6 DEF Stop
  <2> QED BY <1>3, <2>1 DEF Progress
<1> QED BY <1>4, <1>5, <1>6

\* What XREAD returns goes on where the reader is, and a live reader starts there.
LEMMA ReturnReader ==
  ASSUME RedisAssumption, StoreInv, NEW r \in Readers, Return(r)
  PROVE  Boundary(r)' /\ Progress(r)'
<1>0. rpc \in [Readers -> {"idle", "poll", "blocked", "batch", "closed"}]
      /\ DOMAIN cursor = Readers /\ DOMAIN batch = Readers /\ DOMAIN first = Readers
  BY DEF StoreInv, TypeOK, ReaderType
<1>1. /\ Boundary(r) /\ Progress(r) /\ Len(stream) \in Nat
      /\ \A i \in Positions : stream[i].seq \in Nat
  BY ReaderBefore
<1>2. /\ rpc[r] = "blocked" /\ rpc'[r] = "batch"
      /\ UNCHANGED <<stream, seq, wpc, mine, last, after, torn, got>>
      /\ first'[r] = IF first[r] = 0 THEN cursor[r] + 1 ELSE first[r]
  BY <1>0 DEF Return, Received, writerVars
<1>3. PICK n \in 1 .. ReadCount : batch'[r] = [i \in 1 .. n |-> cursor[r] + i]
                                  /\ cursor[r] + n <= Len(stream) /\ cursor[r] \in Nat
                                  /\ Len(batch'[r]) = n
  <2>1. PICK n \in 1 .. ReadCount :
          LET b == [i \in 1 .. n |-> cursor[r] + i] IN
          /\ batch' = [batch EXCEPT ![r] = b] /\ Len(b) = n
          /\ cursor[r] + n <= Len(stream) /\ cursor[r] \in Nat
    BY BatchShape DEF StoreInv
  <2>2. batch'[r] = [i \in 1 .. n |-> cursor[r] + i]
    BY <1>0, <2>1
  <2> QED BY <2>1, <2>2
<1>4. first[r] \in Nat
  BY ReaderFacts DEF StoreInv
<1>5. CASE last[r] = Dollar
  <2>1. first[r] = 0 /\ after[r] = -1 /\ got[r] = <<>> /\ cursor[r] # 0 /\ ~torn[r]
    BY <1>1, <1>2, <1>5 DEF Progress, Boundary
  <2>2. first'[r] = cursor[r] + 1 /\ first'[r] # 1 /\ first'[r] # 0
    BY <1>2, <1>3, <2>1
  <2>3. \A i \in Positions : after[r] < stream[i].seq
    BY <1>1, <2>1
  <2>4. Boundary(r)'
    BY <1>1, <1>2, <1>5, <2>2, <2>3 DEF Boundary, Exists, Positions
  <2>5. \A i \in 1 .. Len(batch'[r]) : batch'[r][i] = first'[r] + i - 1
    BY <1>3, <2>2
  <2>6. batch'[r] # <<>>
    BY <1>3
  <2> QED BY <1>1, <1>2, <1>5, <2>1, <2>2, <2>4, <2>5, <2>6 DEF Progress, Upcoming
<1>6. CASE last[r] # Dollar
  <2>1. first[r] # 0 /\ cursor[r] = last[r] /\ first'[r] = first[r]
    BY <1>1, <1>2, <1>6 DEF Progress
  <2>2. Boundary(r)'
    BY <1>1, <1>2, <2>1 DEF Boundary, Exists, Positions
  <2>3. \A i \in 1 .. Len(batch'[r]) : batch'[r][i] = last'[r] + 1 + i - 1
    BY <1>2, <1>3, <2>1
  <2>4. batch'[r] # <<>>
    BY <1>3
  <2> QED BY <1>1, <1>2, <1>6, <2>1, <2>2, <2>3, <2>4 DEF Progress, Upcoming
<1> QED BY <1>5, <1>6

\* The entry a reader takes is the one it goes on with; it yields none before its first
\* entry, every later one its filter lets through, and all of these if it is not torn.
LEMMA TakeFacts ==
  ASSUME StoreInv, NEW r \in Readers, rpc[r] = "batch"
  PROVE  LET n == Head(batch[r])
             wanted == stream[n].seq > after[r]
         IN /\ n \in Positions /\ n = Upcoming(r) /\ first[r] # 0 /\ first[r] # 1
            /\ wanted /\ stream[n].event.kind # "task" <=> n >= first[r] /\ wanted
            /\ ~torn[r] /\ n >= first[r] => wanted /\ n = first[r] + Len(got[r])
            /\ n < first[r] => got[r] = <<>> /\ last[r] # Dollar
<1> DEFINE n == Head(batch[r])
<1>1. /\ Boundary(r) /\ Progress(r) /\ Len(stream) \in Nat
      /\ \A i \in Positions : stream[i].seq \in Nat
  BY ReaderBefore
<1>2. /\ last[r] \in Nat \/ last[r] = Dollar
      /\ Dollar = -1 /\ first[r] \in Nat /\ after[r] \in Int /\ batch[r] \in Seq(Positions)
  BY ReaderFacts DEF StoreInv
<1>3. /\ batch[r] # <<>> /\ first[r] # 0 /\ first[r] # 1
      /\ \A i \in 1 .. Len(batch[r]) : batch[r][i] = Upcoming(r) + i - 1
  BY <1>1 DEF Progress, Boundary
<1>4. n \in Positions /\ n = batch[r][1] /\ 1 \in 1 .. Len(batch[r])
  BY <1>2, <1>3
<1>5. n = Upcoming(r)
  <2>1. n = Upcoming(r) + 1 - 1 /\ Upcoming(r) \in Int
    BY <1>2, <1>3, <1>4 DEF Upcoming
  <2> QED BY <2>1
<1>6. stream[n].seq \in Nat /\ n \in Nat
  BY <1>1, <1>4 DEF Positions
<1>7. n # 1 => stream[n].event.kind # "task"
  <2>1. stream[n].event \in Event /\ (stream[n].event = TaskEvent <=> n = 1)
    BY <1>4, EntriesTyped DEF StoreInv, ExistInv
  <2> QED BY <2>1, EventFacts DEF Event
<1>8. CASE n >= first[r]
  <2>1. ~torn[r] => stream[n].seq > after[r]
    <3>1. ~torn[r] => after[r] < stream[n].seq
      BY <1>1, <1>3, <1>4, <1>8 DEF Boundary
    <3> QED BY <1>2, <1>6, <3>1
  <2>2. n # 1
    BY <1>2, <1>3, <1>6, <1>8
  <2>3. ~torn[r] => n = first[r] + Len(got[r])
    <3>0. SUFFICES ASSUME ~torn[r] PROVE n = first[r] + Len(got[r])
      OBVIOUS
    <3>1. CASE last[r] = Dollar
      <4>1. got[r] = <<>> /\ n = first[r]
        BY <1>1, <1>5, <3>1 DEF Progress, Upcoming
      <4> QED BY <1>2, <4>1
    <3>2. CASE last[r] # Dollar /\ last[r] < first[r]
      <4>1. got[r] = <<>> /\ n = last[r] + 1
        BY <1>1, <1>5, <3>2 DEF Progress, Upcoming
      <4> QED BY <1>2, <1>8, <3>2, <4>1
    <3>3. CASE last[r] # Dollar /\ last[r] >= first[r]
      <4>1. Len(got[r]) = last[r] - first[r] + 1 /\ n = last[r] + 1
        BY <1>1, <1>5, <3>0, <3>3 DEF Progress, Upcoming
      <4> QED BY <1>2, <3>3, <4>1
    <3> QED BY <1>2, <3>1, <3>2, <3>3
  <2> QED BY <1>3, <1>4, <1>5, <1>6, <1>7, <1>8, <2>1, <2>2, <2>3, <1>2
<1>9. CASE n < first[r]
  <2>1. last[r] # Dollar /\ n = last[r] + 1 /\ last[r] < first[r]
    BY <1>2, <1>5, <1>6, <1>9 DEF Upcoming
  <2>2. got[r] = <<>>
    BY <1>1, <1>3, <2>1 DEF Progress
  <2>3. n = 1 => stream[n].event.kind = "task"
    <3>1. stream[n].event = TaskEvent <=> n = 1
      BY <1>4 DEF StoreInv, ExistInv
    <3> QED BY <3>1, EventFacts
  <2>4. n # 1 => ~(stream[n].seq > after[r])
    <3>1. n # 1 => n \in 2 .. first[r] - 1
      BY <1>2, <1>4, <1>6, <1>9 DEF Positions
    <3>2. n # 1 => stream[n].seq <= after[r]
      BY <1>1, <2>1, <3>1 DEF Boundary
    <3> QED BY <1>2, <1>6, <3>2
  <2> QED BY <1>2, <1>3, <1>4, <1>5, <1>6, <1>9, <2>1, <2>2, <2>3, <2>4
<1> QED BY <1>2, <1>6, <1>8, <1>9

\* A reader that takes an entry goes on behind it.
LEMMA TakeReader ==
  ASSUME RedisAssumption, StoreInv, NEW r \in Readers, Take(r)
  PROVE  Boundary(r)' /\ Progress(r)'
<1> DEFINE n == Head(batch[r])
           e == stream[n].event
           yields == n >= first[r] /\ stream[n].seq > after[r]
           rest == Tail(batch[r])
<1>0. rpc \in [Readers -> {"idle", "poll", "blocked", "batch", "closed"}]
      /\ DOMAIN last = Readers /\ DOMAIN batch = Readers /\ DOMAIN got = Readers
  BY DEF StoreInv, TypeOK, ReaderType
<1>1. Boundary(r) /\ Progress(r) /\ rpc[r] = "batch"
  BY ReaderBefore DEF Take
<1>2. /\ last[r] \in Nat \/ last[r] = Dollar
      /\ Dollar = -1 /\ first[r] \in Nat /\ batch[r] \in Seq(Positions)
      /\ got[r] \in Seq(Positions) /\ Len(stream) \in Nat
  BY ReaderFacts DEF StoreInv
<1>3. /\ n \in Positions /\ n = Upcoming(r) /\ first[r] # 0 /\ first[r] # 1
      /\ stream[n].seq > after[r] /\ e.kind # "task" <=> yields
      /\ ~torn[r] /\ n >= first[r] => yields /\ n = first[r] + Len(got[r])
      /\ n < first[r] => got[r] = <<>> /\ last[r] # Dollar
  BY <1>1, TakeFacts
<1>4. n \in Nat /\ n # Dollar
  BY <1>2, <1>3 DEF Positions
<1>5. /\ last'[r] = n /\ batch'[r] = rest
      /\ got'[r] = IF yields THEN Append(got[r], n) ELSE got[r]
      /\ rpc'[r] = IF yields /\ Final(e) THEN "closed" ELSE IF rest = <<>> THEN "poll" ELSE "batch"
      /\ UNCHANGED <<stream, seq, wpc, mine, cursor, after, torn, first>>
  <2>1. last' = [last EXCEPT ![r] = n]
    BY DEF Take
  <2>2. Taken(r, n, stream[n].seq > after[r])
    BY DEF Take
  <2>3. /\ batch' = [batch EXCEPT ![r] = rest]
        /\ got' = [got EXCEPT ![r] = IF yields THEN Append(@, n) ELSE @]
        /\ rpc' = [rpc EXCEPT ![r] = IF yields /\ Final(e) THEN "closed" ELSE IF rest = <<>> THEN "poll" ELSE @]
    BY <1>3, <2>2 DEF Taken
  <2> QED BY <1>0, <1>1, <2>1, <2>3 DEF Take, writerVars
<1>6. Boundary(r)'
  <2>1. n < first[r] => last[r] < first[r] /\ last[r] # Dollar
    BY <1>2, <1>3, <1>4 DEF Upcoming
  <2>2. ~torn[r] => \A i \in Positions : first[r] # 0 /\ i >= first[r] => after[r] < stream[i].seq
    BY <1>1 DEF Boundary
  <2>3. n < first[r] => \A i \in 2 .. first[r] - 1 : stream[i].seq <= after[r]
    BY <1>1, <2>1 DEF Boundary
  <2> QED BY <1>1, <1>3, <1>5, <2>2, <2>3 DEF Boundary, Exists, Positions
<1>7. Progress(r)'
  <2>1. n < first[r] => got'[r] = <<>>
    BY <1>2, <1>3, <1>4, <1>5
  <2>2. ~torn[r] /\ n >= first[r] => Len(got'[r]) = n - first[r] + 1
    <3>1. yields => Len(got'[r]) = Len(got[r]) + 1 /\ Len(got[r]) \in Nat
      BY <1>2, <1>4, <1>5
    <3> QED BY <1>2, <1>3, <1>4, <3>1
  <2>3. ASSUME rpc'[r] = "batch", NEW i \in 1 .. Len(rest) PROVE rest[i] = n + 1 + i - 1
    <3>1. batch[r] # <<>> /\ \A j \in 1 .. Len(batch[r]) : batch[r][j] = Upcoming(r) + j - 1
      BY <1>1 DEF Progress
    <3>2. Len(rest) = Len(batch[r]) - 1 /\ rest[i] = batch[r][i + 1] /\ i + 1 \in 1 .. Len(batch[r])
      BY <1>2, <3>1
    <3>3. rest[i] = n + (i + 1) - 1
      BY <1>3, <3>1, <3>2
    <3> QED BY <1>4, <3>3
  <2>4. ASSUME rpc'[r] # "closed", NEW i \in 1 .. Len(got'[r])
        PROVE  ~Final(stream[got'[r][i]].event)
    <3>1. \A j \in 1 .. Len(got[r]) : ~Final(stream[got[r][j]].event)
      BY <1>1 DEF Progress
    <3>2. CASE ~yields
      BY <1>5, <2>4, <3>1, <3>2
    <3>3. CASE yields
      <4>1. got'[r] = Append(got[r], n) /\ ~Final(e)
        BY <1>5, <2>4, <3>3
      <4>2. (i \in 1 .. Len(got[r]) /\ got'[r][i] = got[r][i]) \/ got'[r][i] = n
        BY <1>2, <4>1
      <4> QED BY <3>1, <4>1, <4>2
    <3> QED BY <3>2, <3>3
  <2>5. rpc'[r] = "batch" => rest # <<>>
    BY <1>5
  <2>6. rpc'[r] \in {"poll", "batch", "closed"}
    BY <1>5
  <2>7. ASSUME rpc'[r] # "closed" PROVE Progress(r)'
    <3>1. last'[r] # Dollar /\ first'[r] # 0 /\ last'[r] = n /\ first'[r] = first[r]
          /\ rpc'[r] # "blocked" /\ stream' = stream /\ batch'[r] = rest
      BY <1>3, <1>4, <1>5, <2>6
    <3>2. (n < first[r] => got'[r] = <<>>) /\ (n >= first[r] /\ ~torn'[r] => Len(got'[r]) = n - first[r] + 1)
      BY <1>2, <1>4, <1>5, <2>1, <2>2
    <3>3. \A i \in 1 .. Len(got'[r]) : ~Final(stream'[got'[r][i]].event)
      BY <2>4, <2>7, <3>1
    <3>4. rpc'[r] = "batch" => \A i \in 1 .. Len(batch'[r]) : batch'[r][i] = last'[r] + 1 + i - 1
      BY <2>3, <3>1
    <3> QED BY <2>5, <3>1, <3>2, <3>3, <3>4 DEF Progress, Upcoming
  <2> QED BY <2>6, <2>7 DEF Progress
<1> QED BY <1>6, <1>7

\* A step of one reader leaves the others alone.
LEMMA OtherReaders ==
  ASSUME StoreInv, NEW r \in Readers, Read(r), NEW x \in Readers, x # r
  PROVE  /\ rpc'[x] = rpc[x] /\ last'[x] = last[x] /\ cursor'[x] = cursor[x]
         /\ batch'[x] = batch[x] /\ after'[x] = after[x] /\ first'[x] = first[x] /\ got'[x] = got[x]
         /\ torn'[x] = torn[x]
BY DEF StoreInv, TypeOK, ReaderType, Read, Start, Call, Return, Received, Expire, Reconnect, Take, Taken, Stop

\* A reader's step keeps its own boundary and progress, and those of the others.
LEMMA ReadReaders ==
  ASSUME RedisAssumption, StoreInv, NEW r \in Readers, Read(r)
  PROVE  BoundaryInv' /\ ReaderInv'
<1>1. Boundary(r)' /\ Progress(r)'
  BY StartReader, PollReader, ReturnReader, TakeReader DEF Read
<1>2. ASSUME NEW x \in Readers, x # r PROVE Boundary(x)' /\ Progress(x)'
  <2>1. Boundary(x) /\ Progress(x)
    BY DEF StoreInv, BoundaryInv, ReaderInv
  <2>2. UNCHANGED <<stream, seq, wpc, mine>>
    BY ReadKeeps DEF writerVars
  <2>3. /\ rpc'[x] = rpc[x] /\ last'[x] = last[x] /\ cursor'[x] = cursor[x]
        /\ batch'[x] = batch[x] /\ after'[x] = after[x] /\ first'[x] = first[x] /\ got'[x] = got[x]
         /\ torn'[x] = torn[x]
    BY <1>2, OtherReaders
  <2> QED BY <2>1, <2>2, <2>3 DEF Boundary, Progress, Upcoming, Exists, Positions
<1> QED BY <1>1, <1>2 DEF BoundaryInv, ReaderInv

-----------------------------------------------------------------------------
(* The invariant *)

\* The empty store.
LEMMA StoreInit == RedisAssumption /\ Init => StoreInv
<1> SUFFICES ASSUME RedisAssumption, Init PROVE StoreInv
  OBVIOUS
<1>1. Positions = {} /\ stream = <<>> /\ ~Exists
  BY DEF Init, Positions, Exists
<1>2. TypeOK
  <2> DEFINE S == [seq : 0 .. MaxSeq, event : Event]
  <2>a. doc \in Seq(Appended) /\ stream \in Seq(S) /\ copy \in [Writers -> Seq(Appended)]
    <3> HIDE DEF S
    <3>1. <<>> \in Seq(Appended) /\ <<>> \in Seq(S)
      OBVIOUS
    <3> QED BY <3>1 DEF Init
  <2>b. seq \in 0 .. MaxSeq /\ mine \in [Writers -> 0 .. MaxSeq]
    BY DEF Init, RedisAssumption
  <2>1. StoreType
    BY <2>a, <2>b DEF Init, StoreType
  <2>2. ReaderType
    BY <1>1 DEF Init, ReaderType, RedisAssumption
  <2> QED BY <2>1, <2>2 DEF TypeOK
<1>3. ExistInv /\ NumberInv /\ DocumentInv
  BY <1>1 DEF Init, ExistInv, NumberInv, DocumentInv, SequenceNamesOneEntry, LastEntryIsInDocument,
              DocumentIsFoldOfStream, Quiet
<1>4. BoundaryInv /\ ReaderInv
  BY <1>1 DEF Init, BoundaryInv, ReaderInv, Boundary, Progress, Dollar
<1> QED BY <1>2, <1>3, <1>4 DEF StoreInv

\* Every command of a writer and every step of a reader keeps the invariant.
LEMMA StoreNext == RedisAssumption /\ StoreInv /\ [Next]_vars => StoreInv'
<1> SUFFICES ASSUME RedisAssumption, StoreInv, [Next]_vars PROVE StoreInv'
  OBVIOUS
<1>1. CASE CreateTask \/ \E w \in Writers : Write(w)
  <2>1. TypeOK'
    BY <1>1, WriteTypes DEF StoreInv
  <2> QED BY <1>1, <2>1, WriteExists, WriteNumbers, WriteDocument, WriteReaders DEF StoreInv
<1>2. ASSUME NEW r \in Readers, Read(r) PROVE StoreInv'
  <2>1. TypeOK'
    BY <1>2, ReadTypes DEF StoreInv
  <2>2. ExistInv' /\ NumberInv' /\ DocumentInv'
    BY <1>2, ReadKeeps, KeptStore
  <2> QED BY <1>2, <2>1, <2>2, ReadReaders DEF StoreInv
<1>3. CASE UNCHANGED vars
  <2>1. TypeOK'
    BY <1>3 DEF vars, writerVars, readerVars, StoreInv, TypeOK, StoreType, ReaderType, Positions
  <2>2. ExistInv' /\ NumberInv' /\ DocumentInv'
    BY <1>3, KeptStore DEF vars
  <2>3. BoundaryInv'
    BY <1>3 DEF vars, writerVars, readerVars, StoreInv, BoundaryInv, Boundary, Exists, Positions
  <2>4. ReaderInv'
    BY <1>3 DEF vars, readerVars, StoreInv, ReaderInv, Progress, Upcoming
  <2> QED BY <2>1, <2>2, <2>3, <2>4 DEF StoreInv
<1> QED BY <1>1, <1>2, <1>3 DEF Next

\* The inductive invariant.
THEOREM StoreIsSound == Spec => []StoreInv
<1>1. RedisAssumption
  BY RedisAssumption
<1>2. Init => StoreInv
  BY <1>1, StoreInit
<1>3. StoreInv /\ [Next]_vars => StoreInv'
  BY <1>1, StoreNext
<1> QED BY <1>2, <1>3, PTL DEF Spec

\* No two entries carry the same sequence number, however appends overlap and
\* fail between INCR and the MULTI that writes the entry.
THEOREM NumbersNameEntries == Spec => []SequenceNamesOneEntry
<1>1. StoreInv => SequenceNamesOneEntry
  BY DEF StoreInv, NumberInv
<1> QED BY <1>1, StoreIsSound, PTL

\* The entry added last is in the document, so a task whose last event is final is
\* final when it is read.
THEOREM LastEntryIsKept == Spec => []LastEntryIsInDocument
<1>1. StoreInv => LastEntryIsInDocument
  BY DEF StoreInv, DocumentInv
<1> QED BY <1>1, StoreIsSound, PTL

\* As long as appends follow one another the document is the fold of the stream,
\* those that failed half way included.
THEOREM DocumentFollowsStream == Spec => []DocumentIsFoldOfStream
<1>1. StoreInv => DocumentIsFoldOfStream
  BY DEF StoreInv, DocumentInv, DocumentIsFoldOfStream
<1> QED BY <1>1, StoreIsSound, PTL

-----------------------------------------------------------------------------
(* What a reader yields *)

\* A reader yields in order, nothing from beyond where it is, and what it yields is
\* its first entry or behind that, above the number it asked for; all of that it yields.
Sifted(r) ==
  /\ \A j, k \in 1 .. Len(got[r]) : j < k => got[r][j] < got[r][k]
  /\ \A k \in 1 .. Len(got[r]) :
       first[r] # 0 /\ first[r] <= got[r][k] /\ got[r][k] <= last[r] /\ stream[got[r][k]].seq > after[r]
  /\ \A i \in Positions :
       first[r] # 0 /\ first[r] <= i /\ i <= last[r] /\ stream[i].seq > after[r]
         => \E k \in 1 .. Len(got[r]) : got[r][k] = i

SiftInv == \A r \in Readers : Sifted(r)

\* The stream has a length.
LEMMA LengthFacts == ASSUME TypeOK PROVE Len(stream) \in Nat
<1> DEFINE S == [seq : 0 .. MaxSeq, event : Event]
<1>1. stream \in Seq(S)
  BY DEF TypeOK, StoreType
<1> HIDE DEF S
<1> QED BY <1>1

\* Entries that are added lie behind every reader.
LEMMA WriteSifts ==
  ASSUME RedisAssumption, StoreInv, SiftInv, CreateTask \/ \E w \in Writers : Write(w)
  PROVE  SiftInv'
<1>1. ASSUME UNCHANGED readerVars,
             stream' = stream \/ \E x \in [seq : 0 .. MaxSeq, event : Event] : stream' = Append(stream, x)
      PROVE  SiftInv'
  <2>1. /\ \A i \in Positions : stream'[i] = stream[i]
        /\ Positions' \subseteq Positions \cup {Len(stream) + 1} /\ Len(stream) \in Nat
    <3>1. CASE stream' = stream
      BY <3>1, LengthFacts DEF Positions, StoreInv
    <3>2. CASE \E x \in [seq : 0 .. MaxSeq, event : Event] : stream' = Append(stream, x)
      BY <3>2, StreamGrows DEF StoreInv
    <3> QED BY <1>1, <3>1, <3>2
  <2>2. ASSUME NEW r \in Readers PROVE Sifted(r)'
    <3>1. /\ last[r] <= Len(stream) /\ (last[r] \in Nat \/ last[r] = -1)
          /\ \A k \in 1 .. Len(got[r]) : got[r][k] \in Positions
      BY ReaderFacts DEF StoreInv
    <3>2. Sifted(r) /\ UNCHANGED <<last, after, first, got>>
      BY <1>1 DEF SiftInv, readerVars
    <3>3. \A i \in Positions' : i <= last[r] => i \in Positions
      BY <2>1, <3>1
    <3> QED BY <2>1, <3>1, <3>2, <3>3 DEF Sifted
  <2> QED BY <2>2 DEF SiftInv
<1>2. CASE CreateTask
  <2>1. [seq |-> 0, event |-> TaskEvent] \in [seq : 0 .. MaxSeq, event : Event]
    BY EventFacts DEF RedisAssumption
  <2>2. stream' = Append(stream, [seq |-> 0, event |-> TaskEvent]) /\ UNCHANGED readerVars
    BY <1>2 DEF CreateTask, Exists
  <2> QED BY <1>1, <2>1, <2>2
<1>3. ASSUME NEW w \in Writers, Exec(w) PROVE SiftInv'
  BY <1>1, <1>3, EntryType DEF Exec, StoreInv
<1>4. ASSUME NEW w \in Writers, Write(w), ~Exec(w) PROVE SiftInv'
  BY <1>1, <1>4 DEF Write, Get, Incr, Abandon
<1> QED BY <1>2, <1>3, <1>4

\* A reader that takes an entry yields it when its number says so.
LEMMA TakeSifts ==
  ASSUME RedisAssumption, StoreInv, SiftInv, NEW r \in Readers, Take(r)
  PROVE  Sifted(r)'
<1> DEFINE n == Head(batch[r])
           yields == n >= first[r] /\ stream[n].seq > after[r]
<1>1. rpc[r] = "batch" /\ Sifted(r)
  BY DEF Take, SiftInv
<1>2. /\ n \in Positions /\ n = Upcoming(r) /\ first[r] # 0 /\ first[r] # 1
      /\ stream[n].seq > after[r] /\ stream[n].event.kind # "task" <=> yields
  BY <1>1, TakeFacts
<1>3. /\ last[r] \in Nat \/ last[r] = Dollar
      /\ Dollar = -1 /\ first[r] \in Nat /\ got[r] \in Seq(Positions) /\ Len(got[r]) \in Nat
      /\ last \in [Readers -> Positions \cup {0, Dollar}] /\ got \in [Readers -> Seq(Positions)]
      /\ \A k \in 1 .. Len(got[r]) : got[r][k] \in Positions
  BY ReaderFacts DEF StoreInv, TypeOK, ReaderType
<1>4. /\ last'[r] = n /\ got'[r] = IF yields THEN Append(got[r], n) ELSE got[r]
      /\ UNCHANGED <<stream, after, first>>
  <2>1. last' = [last EXCEPT ![r] = n] /\ Taken(r, n, stream[n].seq > after[r])
        /\ UNCHANGED <<stream, after, first>>
    BY DEF Take
  <2>2. got' = [got EXCEPT ![r] = IF yields THEN Append(@, n) ELSE @]
    BY <1>2, <2>1 DEF Taken
  <2> QED BY <1>3, <2>1, <2>2
<1>5. n \in Nat /\ last[r] < n /\ \A i \in Positions : i \in Nat
  <2>1. n \in Nat /\ \A i \in Positions : i \in Nat
    BY <1>2 DEF Positions
  <2> QED BY <1>2, <1>3, <2>1 DEF Upcoming
<1>6. \A i \in Positions : first[r] <= i /\ i < n => i <= last[r]
  BY <1>2, <1>3, <1>5 DEF Upcoming
<1>7. \A k \in 1 .. Len(got[r]) : got[r][k] < n
  <2>1. \A k \in 1 .. Len(got[r]) : got[r][k] <= last[r] /\ got[r][k] \in Nat
    BY <1>1, <1>3, <1>5 DEF Sifted
  <2> QED BY <1>3, <1>5, <2>1
<1>8. CASE ~yields
  <2>1. got'[r] = got[r]
    BY <1>4, <1>8
  <2>2. \A k \in 1 .. Len(got[r]) : got[r][k] <= n
    BY <1>3, <1>5, <1>7
  <2>3. \A i \in Positions : first[r] <= i /\ i <= n /\ stream[i].seq > after[r] => i <= last[r]
    BY <1>2, <1>3, <1>5, <1>6, <1>8
  <2>4. \A i \in Positions : first[r] <= i /\ i <= n /\ stream[i].seq > after[r]
                               => \E k \in 1 .. Len(got[r]) : got[r][k] = i
    BY <1>1, <1>2, <2>3 DEF Sifted
  <2> QED BY <1>1, <1>4, <2>1, <2>2, <2>4 DEF Sifted, Positions
<1>9. CASE yields
  <2>1. /\ got'[r] = Append(got[r], n) /\ Len(got'[r]) = Len(got[r]) + 1
        /\ got'[r][Len(got[r]) + 1] = n
        /\ \A k \in 1 .. Len(got[r]) : got'[r][k] = got[r][k]
        /\ \A k \in 1 .. Len(got'[r]) : k \in 1 .. Len(got[r]) \/ k = Len(got[r]) + 1
    BY <1>3, <1>4, <1>9
  <2>2. \A j, k \in 1 .. Len(got'[r]) : j < k => got'[r][j] < got'[r][k]
    <3>1. SUFFICES ASSUME NEW j \in 1 .. Len(got'[r]), NEW k \in 1 .. Len(got'[r]), j < k
                   PROVE  got'[r][j] < got'[r][k]
      OBVIOUS
    <3>2. j \in 1 .. Len(got[r])
      BY <1>3, <2>1, <3>1
    <3>3. CASE k \in 1 .. Len(got[r])
      BY <1>1, <2>1, <3>1, <3>2, <3>3 DEF Sifted
    <3>4. CASE k = Len(got[r]) + 1
      BY <1>7, <2>1, <3>2, <3>4
    <3> QED BY <2>1, <3>3, <3>4
  <2>3. \A k \in 1 .. Len(got'[r]) :
          first[r] <= got'[r][k] /\ got'[r][k] <= n /\ stream[got'[r][k]].seq > after[r]
    <3>1. \A k \in 1 .. Len(got[r]) : first[r] <= got[r][k] /\ got[r][k] <= n /\ stream[got[r][k]].seq > after[r]
      BY <1>1, <1>3, <1>5, <1>7 DEF Sifted
    <3>2. first[r] <= n /\ n <= n /\ stream[n].seq > after[r]
      BY <1>3, <1>5, <1>9
    <3> QED BY <2>1, <3>1, <3>2
  <2>4. ASSUME NEW i \in Positions, first[r] <= i, i <= n, stream[i].seq > after[r]
        PROVE  \E k \in 1 .. Len(got'[r]) : got'[r][k] = i
    <3>1. CASE i = n
      BY <1>3, <2>1, <3>1
    <3>2. CASE i # n
      <4>1. i <= last[r]
        BY <1>5, <1>6, <2>4, <3>2
      <4>2. PICK k \in 1 .. Len(got[r]) : got[r][k] = i
        BY <1>1, <1>2, <2>4, <4>1 DEF Sifted
      <4> QED BY <1>3, <2>1, <4>2
    <3> QED BY <3>1, <3>2
  <2> QED BY <1>2, <1>4, <2>2, <2>3, <2>4 DEF Sifted, Positions
<1> QED BY <1>8, <1>9

\* A reader that has yielded nothing and is before the stream.
LEMMA NothingSifted ==
  ASSUME NEW r \in Readers, got'[r] = <<>>, last'[r] \in {0, -1}
  PROVE  Sifted(r)'
<1>1. 1 .. Len(got'[r]) = {}
  OBVIOUS
<1>2. \A i \in Positions' : ~(i <= last'[r])
  BY DEF Positions
<1> QED BY <1>1, <1>2 DEF Sifted

\* A reader that goes on where it was.
LEMMA SameSifted ==
  ASSUME NEW r \in Readers, Sifted(r), UNCHANGED <<stream, last, after, first, got>>
  PROVE  Sifted(r)'
<1>1. last'[r] = last[r] /\ after'[r] = after[r] /\ first'[r] = first[r] /\ got'[r] = got[r]
      /\ stream' = stream
  OBVIOUS
<1> QED BY <1>1 DEF Sifted, Positions

\* The other steps of readers: a reader that is made, or settles its first entry, has
\* yielded nothing.
LEMMA ReadSifts ==
  ASSUME RedisAssumption, StoreInv, SiftInv, NEW r \in Readers, Read(r)
  PROVE  SiftInv'
<1>0. UNCHANGED stream /\ Sifted(r) /\ Boundary(r) /\ Progress(r) /\ Dollar = -1
  BY ReadKeeps, ReaderBefore DEF SiftInv, Dollar
<1>1. ASSUME NEW x \in Readers, x # r PROVE Sifted(x)'
  <2>1. Sifted(x) /\ last'[x] = last[x] /\ after'[x] = after[x] /\ first'[x] = first[x] /\ got'[x] = got[x]
    BY <1>1, OtherReaders DEF SiftInv
  <2> QED BY <1>0, <2>1 DEF Sifted, Positions
<1>2. ASSUME NEW mode \in Modes[r], Start(r, mode) PROVE Sifted(r)'
  <2>1. got'[r] = got[r] /\ got[r] = <<>>
    BY <1>0, <1>2 DEF Start, Boundary
  <2>2. last'[r] \in {0, -1}
    BY <1>0, <1>2 DEF Start, StoreInv, TypeOK, ReaderType
  <2> QED BY <2>1, <2>2, NothingSifted
<1>3. ASSUME Return(r) PROVE Sifted(r)'
  <2>1. /\ rpc[r] = "blocked" /\ UNCHANGED <<last, after, got>>
        /\ first' = [first EXCEPT ![r] = IF @ = 0 THEN cursor[r] + 1 ELSE @]
    BY <1>3 DEF Return, Received
  <2>2. CASE first[r] # 0
    <3>1. first' = first
      BY <2>1, <2>2 DEF StoreInv, TypeOK, ReaderType
    <3> QED BY <1>0, <2>1, <3>1, SameSifted
  <2>3. CASE first[r] = 0
    <3>1. got'[r] = <<>> /\ last'[r] = -1
      BY <1>0, <2>1, <2>3 DEF Progress
    <3> QED BY <3>1, NothingSifted
  <2> QED BY <2>2, <2>3
<1>4. ASSUME Call(r) \/ Expire(r) \/ Reconnect(r) \/ Stop(r) PROVE Sifted(r)'
  <2>1. UNCHANGED <<last, after, first, got>>
    BY <1>4 DEF Call, Expire, Reconnect, Stop
  <2> QED BY <1>0, <2>1, SameSifted
<1>5. Sifted(r)'
  BY <1>2, <1>3, <1>4, TakeSifts DEF Read
<1> QED BY <1>1, <1>5 DEF SiftInv

\* Whatever overlaps, a stream yields, in order and once each, exactly the entries it
\* has come to from its first one on with a number above the one it asked for: what a
\* continuing stream can miss is an entry whose number was drawn before (258, 328).
THEOREM SiftedStreams == Spec => []StreamsAreSifted
<1>1. Init => SiftInv
  BY DEF Init, SiftInv, Sifted, Positions
<1>2. StoreInv /\ SiftInv /\ [Next]_vars => SiftInv'
  <2> SUFFICES ASSUME StoreInv, SiftInv, [Next]_vars PROVE SiftInv'
    OBVIOUS
  <2>1. CASE UNCHANGED vars
    BY <2>1 DEF vars, readerVars, SiftInv, Sifted, Positions
  <2> QED BY <2>1, RedisAssumption, WriteSifts, ReadSifts DEF Next
<1>3. StoreInv /\ SiftInv => StreamsAreSifted
  <2> SUFFICES ASSUME StoreInv, SiftInv, NEW r \in Readers
               PROVE  /\ \A j, k \in DOMAIN got[r] : j < k => got[r][j] < got[r][k]
                      /\ \A i \in Positions :
                           (\E k \in DOMAIN got[r] : got[r][k] = i)
                             <=> first[r] # 0 /\ first[r] <= i /\ i <= last[r] /\ stream[i].seq > after[r]
    BY DEF StreamsAreSifted
  <2>1. DOMAIN got[r] = 1 .. Len(got[r])
    BY ReaderFacts DEF StoreInv
  <2> QED BY <2>1 DEF SiftInv, Sifted
<1> QED BY <1>1, <1>2, <1>3, StoreIsSound, PTL DEF Spec

-----------------------------------------------------------------------------
(* The refinement *)

\* The variables of the feed, as the store and its readers implement them.
Events    == [i \in Positions |-> stream[i].event]
Log       == [t \in {"task"} |-> Events]
Watch     == [r \in Readers |-> IF torn[r] \/ first[r] = 0 THEN {} ELSE {"task"}]
From      == [r \in Readers |-> IF torn[r] THEN 0 ELSE first[r]]
Yields(r) == IF torn[r] THEN <<>> ELSE [i \in DOMAIN got[r] |-> stream[got[r][i]].event]
Yielded  == [r \in Readers |-> Yields(r)]

\* The variables and the initial state of the abstract feed, spelled out.
LEMMA FeedVars ==
  /\ Feed!vars = <<Log, Watch, From, Yielded>>
  /\ Feed!Init <=> /\ Log = [t \in {"task"} |-> <<>>] /\ Watch = [r \in Readers |-> {}]
                   /\ From = [r \in Readers |-> 0] /\ Yielded = [r \in Readers |-> <<>>]
BY DEF Feed!vars, Feed!Init, Log, Events, Watch, From, Yielded, Yields

\* The log of the feed has the length of the stream.
LEMMA LogLength ==
  ASSUME TypeOK
  PROVE  /\ Len(stream) \in Nat /\ Events \in Seq(Event) /\ Len(Events) = Len(stream)
         /\ Log["task"] = Events
<1>1. Len(stream) \in Nat
  <2> DEFINE S == [seq : 0 .. MaxSeq, event : Event]
  <2>1. stream \in Seq(S)
    BY DEF TypeOK, StoreType
  <2> HIDE DEF S
  <2> QED BY <2>1
<1>2. \A i \in 1 .. Len(stream) : stream[i].event \in Event
  BY EntriesTyped DEF Positions
<1> QED BY <1>1, <1>2 DEF Events, Log, Positions

\* An entry that is added is an event of the feed; what was yielded stays as it is.
LEMMA AppendPublishes ==
  ASSUME StoreInv, NEW x \in [seq : 0 .. MaxSeq, event : Event], stream' = Append(stream, x),
         UNCHANGED readerVars
  PROVE  /\ Log' = [Log EXCEPT !["task"] = Append(@, x.event)] /\ x.event \in Event
         /\ UNCHANGED <<Watch, From, Yielded>>
<1>1. /\ Len(stream) \in Nat /\ Len(stream') = Len(stream) + 1 /\ stream'[Len(stream) + 1] = x
      /\ \A i \in Positions : stream'[i] = stream[i]
  BY StreamGrows DEF StoreInv
<1>2. Events \in Seq(Event) /\ Len(Events) = Len(stream) /\ x.event \in Event
  BY LogLength DEF StoreInv
<1>3. Events' = Append(Events, x.event)
  <2>1. Append(Events, x.event)
          = [i \in 1 .. Len(stream) + 1 |-> IF i = Len(stream) + 1 THEN x.event ELSE Events[i]]
    BY <1>1, <1>2
  <2>2. Events' = [i \in 1 .. Len(stream) + 1 |-> stream'[i].event]
    BY <1>1 DEF Events, Positions
  <2>3. \A i \in 1 .. Len(stream) + 1 :
          stream'[i].event = IF i = Len(stream) + 1 THEN x.event ELSE Events[i]
    BY <1>1 DEF Events, Positions
  <2> QED BY <2>1, <2>2, <2>3
<1>4. Log' = [Log EXCEPT !["task"] = Append(@, x.event)]
  BY <1>3 DEF Log
<1>5. ASSUME NEW r \in Readers PROVE Yields(r)' = Yields(r)
  <2>1. got'[r] = got[r] /\ torn'[r] = torn[r] /\ \A i \in DOMAIN got[r] : got[r][i] \in Positions
    BY ReaderFacts DEF StoreInv, readerVars
  <2> QED BY <1>1, <2>1 DEF Yields
<1> QED BY <1>2, <1>4, <1>5 DEF Watch, From, Yielded, readerVars

\* The steps of appends publish an event or leave the feed alone.
LEMMA WriteFeed ==
  ASSUME RedisAssumption, StoreInv, CreateTask \/ \E w \in Writers : Write(w)
  PROVE  [Feed!Next]_(Feed!vars)
<1>1. ASSUME NEW x \in [seq : 0 .. MaxSeq, event : Event], stream' = Append(stream, x), UNCHANGED readerVars
      PROVE  Feed!Next
  <2>1. PICK e \in Event : e = x.event
    BY <1>1, AppendPublishes
  <2>2. Feed!Publish("task", e)
    BY <1>1, <2>1, AppendPublishes DEF Feed!Publish, Log, Events, Watch, From, Yielded, Yields
  <2> QED BY <2>2 DEF Feed!Next
<1>2. CASE CreateTask
  <2>1. [seq |-> 0, event |-> TaskEvent] \in [seq : 0 .. MaxSeq, event : Event]
    BY EventFacts DEF RedisAssumption
  <2>2. stream' = Append(stream, [seq |-> 0, event |-> TaskEvent]) /\ UNCHANGED readerVars
    BY <1>2 DEF CreateTask, Exists
  <2> QED BY <1>1, <2>1, <2>2
<1>3. ASSUME NEW w \in Writers, Exec(w) PROVE Feed!Next
  BY <1>1, <1>3, EntryType DEF Exec, StoreInv
<1>4. ASSUME NEW w \in Writers, Write(w), ~Exec(w) PROVE UNCHANGED Feed!vars
  <2>1. UNCHANGED <<stream, readerVars>>
    BY <1>4 DEF Write, Get, Incr, Abandon
  <2> QED BY <2>1, FeedVars DEF Feed!vars, Log, Events, Watch, From, Yielded, Yields, Positions, readerVars
<1> QED BY <1>2, <1>3, <1>4

\* A reader's first entry is settled: its stream opens inside the log or just
\* behind it.
LEMMA SettledOpens ==
  ASSUME StoreInv, NEW r \in Readers, UNCHANGED <<stream, got, torn>>, first[r] = 0, ~torn[r],
         NEW n \in 2 .. Len(stream) + 1, first' = [first EXCEPT ![r] = n]
  PROVE  Feed!Next
<1>1. /\ Log' = Log /\ Yielded' = Yielded
  BY DEF Log, Events, Yielded, Yields, Positions
<1>2. first \in [Readers -> 0 .. Len(stream) + 1] /\ n # 0
  BY DEF StoreInv, TypeOK, ReaderType
<1>3. Watch[r] = {} /\ Watch' = [Watch EXCEPT ![r] = {"task"}] /\ From' = [From EXCEPT ![r] = n]
  BY <1>2 DEF Watch, From
<1>4. n \in 2 .. Len(Log["task"]) + 1
  BY LogLength DEF StoreInv
<1>5. Feed!Open(r, "task", n)
  BY <1>1, <1>3, <1>4 DEF Feed!Open, Log, Events, Watch, From, Yielded, Yields
<1> QED BY <1>4, <1>5 DEF Feed!Next, Log, Events

\* An entry that is yielded is the next event of the reader's window.
LEMMA YieldDelivers ==
  ASSUME StoreInv, NEW r \in Readers, rpc[r] = "batch", Head(batch[r]) >= first[r], ~torn[r],
         UNCHANGED <<stream, torn, first>>, got' = [got EXCEPT ![r] = Append(@, Head(batch[r]))]
  PROVE  Feed!Next
<1> DEFINE n == Head(batch[r])
<1>1. /\ got \in [Readers -> Seq(Positions)] /\ got[r] \in Seq(Positions) /\ Len(got[r]) \in Nat
      /\ Len(stream) \in Nat
  BY ReaderFacts DEF StoreInv, TypeOK, ReaderType
<1>2. n \in Positions /\ first[r] # 0 /\ n = first[r] + Len(got[r])
  BY TakeFacts
<1>3. \A i \in 1 .. Len(got[r]) : ~Final(stream[got[r][i]].event)
  BY ReaderBefore DEF Progress
<1>4. /\ DOMAIN Yields(r) = 1 .. Len(got[r]) /\ Len(Yields(r)) = Len(got[r])
      /\ \A i \in 1 .. Len(got[r]) : Yields(r)[i] = stream[got[r][i]].event
  BY <1>1 DEF Yields
<1>5. Log' = Log /\ Watch' = Watch /\ From' = From /\ From[r] = first[r] /\ Watch[r] = {"task"} /\ Log["task"] = Events
      /\ Events[n] = stream[n].event /\ n <= Len(Log["task"])
  BY <1>1, <1>2, LogLength DEF Log, Events, Watch, From, Positions, StoreInv
<1>6. Yields(r)' = Append(Yields(r), stream[n].event)
  <2>1. /\ got'[r] = Append(got[r], n) /\ Len(got'[r]) = Len(got[r]) + 1
        /\ \A i \in 1 .. Len(got[r]) : got'[r][i] = got[r][i]
        /\ got'[r][Len(got[r]) + 1] = n /\ DOMAIN got'[r] = 1 .. Len(got[r]) + 1
    BY <1>1, <1>2
  <2>2. Yields(r)' = [i \in 1 .. Len(got[r]) + 1 |-> stream[got'[r][i]].event]
    BY <2>1 DEF Yields
  <2>3. Append(Yields(r), stream[n].event)
          = [i \in 1 .. Len(got[r]) + 1 |-> IF i = Len(got[r]) + 1 THEN stream[n].event ELSE Yields(r)[i]]
    BY <1>1, <1>4
  <2>4. \A i \in 1 .. Len(got[r]) + 1 :
          stream[got'[r][i]].event = IF i = Len(got[r]) + 1 THEN stream[n].event ELSE Yields(r)[i]
    BY <1>1, <1>4, <2>1
  <2> QED BY <2>2, <2>3, <2>4
<1>7. \A x \in Readers \ {r} : Yields(x)' = Yields(x)
  BY <1>1 DEF Yields
<1>8. Yielded' = [Yielded EXCEPT ![r] = Append(@, Log["task"][n])]
  BY <1>5, <1>6, <1>7 DEF Yielded
<1>9. ~ \E i \in DOMAIN Yielded[r] : Final(Yielded[r][i])
  <2>1. \A i \in 1 .. Len(got[r]) : ~Final(Yields(r)[i])
    BY <1>3, <1>4, Zenon
  <2> QED BY <1>4, <2>1 DEF Yielded
<1>10. n = first[r] + Len(Yielded[r])
  BY <1>2, <1>4 DEF Yielded
<1>11. Feed!Deliver(r, "task")
  BY <1>5, <1>8, <1>9, <1>10 DEF Feed!Deliver, Feed!Ended, Log, Events, Watch, From, Yielded, Yields
<1> QED BY <1>11 DEF Feed!Next

\* The steps of a reader open its stream, deliver to it or leave the feed alone.
LEMMA ReadFeed ==
  ASSUME RedisAssumption, StoreInv, NEW r \in Readers, Read(r)
  PROVE  [Feed!Next]_(Feed!vars)
<1>0. /\ first \in [Readers -> 0 .. Len(stream) + 1] /\ Len(stream) \in Nat
      /\ cursor[r] \in Nat /\ UNCHANGED stream
  BY ReadKeeps, ReaderFacts DEF StoreInv, TypeOK, ReaderType
<1>1. ASSUME UNCHANGED <<first, got, torn>> PROVE UNCHANGED Feed!vars
  BY <1>0, <1>1, FeedVars DEF Feed!vars, Log, Events, Watch, From, Yielded, Yields, Positions
<1>t. ASSUME torn'[r], torn[r] \/ (first[r] = 0 /\ got[r] = <<>>) PROVE UNCHANGED Feed!vars
  <2>1. \A x \in Readers \ {r} : torn'[x] = torn[x] /\ first'[x] = first[x] /\ got'[x] = got[x]
    BY OtherReaders
  <2>2. Log' = Log
    BY <1>0 DEF Log, Events, Positions
  <2>3. ASSUME NEW x \in Readers
        PROVE  /\ Watch'[x] = Watch[x] /\ From'[x] = From[x] /\ Yields(x)' = Yields(x)
    <3>1. CASE x = r
      <4>1. Yields(r)' = <<>> /\ Yields(r) = <<>>
        BY <1>t DEF Yields
      <4> QED BY <1>t, <3>1, <4>1 DEF Watch, From
    <3>2. CASE x # r
      BY <1>0, <2>1, <3>2 DEF Watch, From, Yields
    <3> QED BY <3>1, <3>2
  <2>4. Watch' = Watch /\ From' = From
    BY <2>3 DEF Watch, From
  <2>5. Yielded' = Yielded
    BY <2>3 DEF Yielded
  <2> QED BY <2>2, <2>4, <2>5, FeedVars DEF Feed!vars, Log, Events, Watch, From, Yielded, Yields, Positions
<1>2. ASSUME NEW mode \in Modes[r], Start(r, mode) PROVE [Feed!Next]_(Feed!vars)
  <2>1. /\ mode \in {"replay", "live", "after"} /\ first[r] = 0 /\ Len(stream) >= 1
        /\ UNCHANGED got /\ got[r] = <<>> /\ ~torn[r]
        /\ torn' = [torn EXCEPT ![r] = mode = "after" /\ Drawn # {}] /\ torn \in [Readers -> BOOLEAN]
    BY <1>2, ReaderBefore DEF RedisAssumption, Boundary, Start, StoreInv, TypeOK, ReaderType
  <2>2. CASE torn'[r]
    BY <1>t, <2>1, <2>2
  <2>3. CASE ~torn'[r] /\ mode = "live"
    <3>1. first' = first /\ torn' = torn
      BY <1>0, <1>2, <2>1, <2>3 DEF Start
    <3> QED BY <1>1, <2>1, <3>1
  <2>4. CASE ~torn'[r] /\ mode # "live"
    <3> DEFINE n == IF mode = "replay" THEN 2 ELSE Len(stream) + 1
    <3>1. first' = [first EXCEPT ![r] = n]
      BY <1>2, <2>1, <2>4 DEF Start
    <3>2. n \in 2 .. Len(stream) + 1
      BY <1>0, <2>1
    <3>3. torn' = torn
      BY <2>1, <2>4
    <3> QED BY <1>0, <2>1, <3>1, <3>2, <3>3, SettledOpens
  <2> QED BY <2>2, <2>3, <2>4
<1>3. CASE Return(r)
  <2>1. UNCHANGED got /\ first' = [first EXCEPT ![r] = IF @ = 0 THEN cursor[r] + 1 ELSE @]
        /\ rpc[r] = "blocked" /\ cursor[r] < Len(stream) /\ UNCHANGED torn
    BY <1>3 DEF Return, Received
  <2>2. CASE first[r] # 0
    <3>1. first' = first
      BY <1>0, <2>1, <2>2
    <3> QED BY <1>1, <2>1, <3>1
  <2>3. CASE first[r] = 0
    <3>1. cursor[r] # 0 /\ ~torn[r]
      BY <2>1, <2>3, ReaderBefore DEF Progress, Boundary
    <3>2. cursor[r] + 1 \in 2 .. Len(stream) + 1 /\ first' = [first EXCEPT ![r] = cursor[r] + 1]
      BY <1>0, <2>1, <2>3, <3>1
    <3>3. Feed!Next
      BY <1>0, <2>1, <2>3, <3>1, <3>2, SettledOpens
    <3> QED BY <3>3
  <2> QED BY <2>2, <2>3
<1>4. CASE Take(r)
  <2> DEFINE n == Head(batch[r])
  <2>1. rpc[r] = "batch" /\ UNCHANGED <<first, torn>> /\ Taken(r, n, stream[n].seq > after[r])
    BY <1>4 DEF Take
  <2>2. CASE torn[r]
    <3>1. torn'[r]
      BY <2>1, <2>2
    <3>2. UNCHANGED Feed!vars
      BY <1>t, <2>2, <3>1
    <3> QED BY <3>2
  <2>3. CASE ~torn[r]
    <3>1. stream[n].seq > after[r] /\ stream[n].event.kind # "task" <=> n >= first[r]
      BY <2>1, <2>3, TakeFacts
    <3>2. got' = [got EXCEPT ![r] = IF n >= first[r] THEN Append(@, n) ELSE @]
      BY <2>1, <3>1 DEF Taken
    <3>3. CASE n >= first[r]
      BY <1>0, <2>1, <2>3, <3>2, <3>3, YieldDelivers
    <3>4. CASE ~(n >= first[r])
      <4>1. got' = got
        BY <3>2, <3>4 DEF StoreInv, TypeOK, ReaderType
      <4> QED BY <1>1, <2>1, <4>1
    <3> QED BY <3>3, <3>4
  <2> QED BY <2>2, <2>3
<1>5. CASE Call(r) \/ Expire(r) \/ Reconnect(r) \/ Stop(r)
  BY <1>1, <1>5 DEF Call, Expire, Reconnect, Stop
<1> QED BY <1>2, <1>3, <1>4, <1>5 DEF Read

\* The store and its readers are an event feed: a reader yields a gapless,
\* duplicate-free window of the stream, ended by the first final status it carries,
\* whatever replies are lost and however reads are cut into batches (iter_events).
\* Of a torn reader SiftedStreams says what it yields.
THEOREM StoreImplementsFeed == Spec => ImplementsFeed
<1>1. Init => Feed!Init
  BY FeedVars DEF Init, Log, Events, Watch, From, Yielded, Yields, Positions
<1>2. StoreInv /\ [Next]_vars => [Feed!Next]_(Feed!vars)
  <2> SUFFICES ASSUME StoreInv, [Next]_vars PROVE [Feed!Next]_(Feed!vars)
    OBVIOUS
  <2>1. CASE UNCHANGED vars
    BY <2>1, FeedVars DEF vars, readerVars, Feed!vars, Log, Events, Watch, From, Yielded, Yields, Positions
  <2>2. ASSUME Next PROVE [Feed!Next]_(Feed!vars)
    BY <2>2, RedisAssumption, WriteFeed, ReadFeed DEF Next
  <2> QED BY <2>1, <2>2
<1> QED BY <1>1, <1>2, StoreIsSound, PTL DEF Spec, ImplementsFeed, Feed!Spec
=============================================================================
