----------------------------- MODULE VoiceProofs -----------------------------
(***************************************************************************)
(* Proofs about VoiceSession, for every set of texts and handlers and all  *)
(* bounds: the types, that a cancellation reaches the delegation the host  *)
(* works on and nothing else, and what becomes of everything that is said. *)
(***************************************************************************)
EXTENDS VoiceSession, TLAPS

\* The texts of a sequence of transcripts.
Texts(s) == UNION ToSet(s)

-----------------------------------------------------------------------------
(* The invariant *)

\* A handler at work has a transcript, and one that relates it to a question has that.
BusyInv ==
  \A h \in Handler :
    /\ pc[h] = "idle" => what[h] = {} /\ rest[h] = <<>>
    /\ pc[h] # "idle" => what[h] # {}
    /\ pc[h] = "relating" => asked[h] # None

\* The lock is held or waited for by the handlers in these phases, once each, and
\* held by the first.
LockInv ==
  /\ \A h \in Handler : h \in ToSet(lock) <=> pc[h] \in Holding \cup {"locking"}
  /\ \A i, j \in DOMAIN lock : lock[i] = lock[j] => i = j
  /\ \A h \in Handler : pc[h] \in Holding => Head(lock) = h

\* What was canceled is a delegation that has not noticed, or just did, and what it
\* was about is given up.
CanceledInv ==
  /\ \A h \in canceled : pc[h] \in Delegating \cup {"aborted"} /\ what[h] \subseteq dismissed
  /\ \A h \in Handler : pc[h] = "aborted" => h \in canceled

\* Nothing is buffered, handled or asked about that was not heard.
KnownInv ==
  /\ Texts(buffer) \subseteq heard
  /\ pending # None => pending \subseteq heard
  /\ \A h \in Handler : /\ what[h] \cup Texts(rest[h]) \subseteq heard
                        /\ asked[h] # None => asked[h] \subseteq heard

\* What is said is an answer, unless the call is over.
SaidInv == ~closing => \A h \in Handler : pc[h] = "saying" => what[h] \subseteq answered

\* A text is done with.
Settled == answered \cup dismissed \cup spared

\* The transcripts of the duplicate window are in hand or done with.
RecentInv == ~closing => \A T \in recent : \A t \in T : t \in Settled \/ \E h \in Handler : t \in what[h]

TypeInv  == TypeOK /\ BusyInv
ReachInv == TypeInv /\ LockInv /\ HostWorkIsReachable
FateInv  == CanceledInv /\ KnownInv /\ SaidInv /\ RecentInv /\ OnlySparedTurnsAreSilent

-----------------------------------------------------------------------------
(* Sequences of transcripts *)

\* A transcript is a set of texts that is not empty.
LEMMA Transcripts == \A T : T \in Transcript <=> T \subseteq Text /\ T # {}
<1> SUFFICES ASSUME NEW T PROVE T \in Transcript <=> T \subseteq Text /\ T # {}
  OBVIOUS
<1> QED
  BY DEF Transcript

\* The texts of two sequences, one behind the other.
LEMMA TextsOfConcat ==
  ASSUME NEW s \in Seq(Transcript), NEW u \in Seq(Transcript)
  PROVE  s \o u \in Seq(Transcript) /\ Texts(s \o u) = Texts(s) \cup Texts(u)
<1>1. /\ s \o u \in Seq(Transcript) /\ Len(s) \in Nat /\ Len(u) \in Nat
      /\ Len(s \o u) = Len(s) + Len(u)
      /\ \A i \in 1 .. Len(s) : (s \o u)[i] = s[i]
      /\ \A i \in 1 .. Len(u) : (s \o u)[Len(s) + i] = u[i]
  OBVIOUS
<1>2. DOMAIN s = 1 .. Len(s) /\ DOMAIN u = 1 .. Len(u) /\ DOMAIN (s \o u) = 1 .. Len(s) + Len(u)
  BY <1>1
<1>3. ToSet(s) \subseteq ToSet(s \o u)
  BY <1>1, <1>2 DEF ToSet
<1>4. ToSet(u) \subseteq ToSet(s \o u)
  <2> SUFFICES ASSUME NEW i \in 1 .. Len(u) PROVE \E j \in DOMAIN (s \o u) : (s \o u)[j] = u[i]
    BY <1>2 DEF ToSet
  <2> QED
    BY <1>1, <1>2
<1>5. ToSet(s \o u) \subseteq ToSet(s) \cup ToSet(u)
  <2> SUFFICES ASSUME NEW j \in 1 .. Len(s) + Len(u) PROVE (s \o u)[j] \in ToSet(s) \cup ToSet(u)
    BY <1>2 DEF ToSet
  <2>1. CASE j <= Len(s)
    BY <2>1, <1>1, <1>2 DEF ToSet
  <2>2. CASE j > Len(s)
    <3>1. j - Len(s) \in 1 .. Len(u) /\ (s \o u)[j] = u[j - Len(s)]
      BY <2>2, <1>1
    <3> QED
      BY <3>1, <1>2 DEF ToSet
  <2> QED
    BY <2>1, <2>2, <1>1
<1> QED
  BY <1>1, <1>3, <1>4, <1>5 DEF Texts

\* One more transcript.
LEMMA TextsOfAppend ==
  ASSUME NEW s \in Seq(Transcript), NEW T \in Transcript
  PROVE  /\ Append(s, T) \in Seq(Transcript) /\ Texts(Append(s, T)) = Texts(s) \cup T
         /\ <<T>> \in Seq(Transcript) /\ Texts(<<T>>) = T
<1>1. <<T>> \in Seq(Transcript) /\ ToSet(<<T>>) = {T}
  BY DEF ToSet
<1>2. Append(s, T) = s \o <<T>>
  OBVIOUS
<1>3. Texts(<<T>>) = T
  BY <1>1 DEF Texts
<1> QED
  BY <1>1, <1>2, <1>3, TextsOfConcat

\* An empty sequence has none.
LEMMA TextsOfNone == Texts(<<>>) = {} /\ <<>> \in Seq(Transcript)
BY DEF Texts, ToSet

\* The fragments of a flush are what was buffered, but what has no key.
LEMMA FragmentsHold ==
  ASSUME NEW s \in Seq(Transcript), NEW d \in UniqueFragments(s)
  PROVE  /\ d \in Seq(Transcript)
         /\ Texts(d) \subseteq Texts(s) /\ Texts(s) \subseteq Texts(d) \cup Keyless
<1>1. ToSet(s) \subseteq Transcript
  BY DEF ToSet
<1>2. PICK m \in 0 .. Len(s) : d \in [1 .. m -> ToSet(s)]
  BY DEF UniqueFragments
<1>3. ToSet(d) = {T \in ToSet(s) : ~(T \subseteq Keyless)}
  BY DEF UniqueFragments
<1>4. m \in Nat
  BY <1>2
<1>5. d \in Seq(Transcript)
  BY <1>1, <1>2, <1>4
<1> QED
  BY <1>3, <1>5 DEF Texts

\* A sequence of fragments divides into those in the middle, those before and those
\* behind.
LEMMA FlushDivides ==
  ASSUME NEW d \in Seq(Transcript), NEW n \in DOMAIN d, NEW k \in 1 .. n
  PROVE  /\ UNION {d[i] : i \in k .. n} \in Transcript
         /\ SubSeq(d, n + 1, Len(d)) \in Seq(Transcript)
         /\ UNION {d[i] : i \in 1 .. k - 1} \in SUBSET Text
         /\ Texts(d) = (UNION {d[i] : i \in k .. n}) \cup Texts(SubSeq(d, n + 1, Len(d)))
                         \cup UNION {d[i] : i \in 1 .. k - 1}
<1> DEFINE middle == UNION {d[i] : i \in k .. n}
           left   == SubSeq(d, n + 1, Len(d))
           before == UNION {d[i] : i \in 1 .. k - 1}
<1> DEFINE m == Len(d)
<1>3. m \in Nat /\ DOMAIN d = 1 .. m /\ n \in 1 .. m /\ k \in Nat \ {0} /\ k <= n
  OBVIOUS
<1>a. \A i \in 1 .. m : d[i] \in Transcript /\ d[i] \subseteq Text /\ d[i] # {}
  BY <1>3, Transcripts
<1>5. left \in Seq(Transcript) /\ Len(left) = m - n /\ DOMAIN left = 1 .. m - n
      /\ \A i \in 1 .. m - n : left[i] = d[n + i]
  BY <1>3
<1>6. middle \in Transcript
  <2>1. middle \subseteq Text /\ d[n] \subseteq middle /\ d[n] # {}
    BY <1>3, <1>a
  <2> QED
    BY <2>1, Transcripts
<1>b. before \in SUBSET Text
  BY <1>3, <1>a
<1>7. middle \cup Texts(left) \cup before \subseteq Texts(d)
  <2>1. \A i \in 1 .. m : d[i] \in ToSet(d)
    BY <1>3 DEF ToSet
  <2>2. \A i \in 1 .. m - n : left[i] \in ToSet(d)
    BY <1>3, <1>5 DEF ToSet
  <2>3. ToSet(left) \subseteq ToSet(d)
    BY <1>5, <2>2 DEF ToSet
  <2>4. middle \subseteq Texts(d) /\ before \subseteq Texts(d)
    BY <1>3, <2>1 DEF Texts
  <2> QED
    BY <2>3, <2>4 DEF Texts
<1>8. Texts(d) \subseteq middle \cup Texts(left) \cup before
  <2> SUFFICES ASSUME NEW i \in 1 .. m PROVE d[i] \subseteq middle \cup Texts(left) \cup before
    BY <1>3 DEF Texts, ToSet
  <2>1. CASE i < k
    BY <2>1, <1>3
  <2>2. CASE i \in k .. n
    BY <2>2
  <2>3. CASE i > n
    <3>a. i - n \in 1 .. m - n /\ n + (i - n) = i
      BY <2>3, <1>3
    <3>1. left[i - n] = d[i]
      BY <3>a, <1>5
    <3>2. d[i] \in ToSet(left)
      BY <3>a, <3>1, <1>5 DEF ToSet
    <3> QED
      BY <3>2 DEF Texts
  <2> QED
    BY <2>1, <2>2, <2>3, <1>3
<1> QED
  BY <1>5, <1>6, <1>b, <1>7, <1>8

-----------------------------------------------------------------------------
(* Types *)

Phases == {"idle", "relating", "deciding", "locking", "saying"} \cup Holding

\* A handler that ends has put its remaining fragments behind what is buffered.
LEMMA LeaveTypes ==
  ASSUME TypeInv, NEW h \in Handler, NEW before \in Seq(Transcript), LeaveWith(h, before)
  PROVE  /\ buffer' \in Seq(Transcript)
         /\ Texts(buffer') = Texts(before) \cup IF closing THEN {} ELSE Texts(rest[h])
         /\ pc' \in [Handler -> Phases] /\ what' \in [Handler -> SUBSET Text]
         /\ rest' \in [Handler -> Seq(Transcript)] /\ asked' \in [Handler -> (SUBSET Text) \cup {None}]
         /\ pc'[h] = "idle" /\ what'[h] = {} /\ rest'[h] = <<>>
         /\ \A g \in Handler \ {h} : pc'[g] = pc[g] /\ what'[g] = what[g] /\ rest'[g] = rest[g]
                                     /\ asked'[g] = asked[g]
         /\ asked'[h] = None
         /\ BusyInv'
<1>1. /\ rest[h] \in Seq(Transcript) /\ pc \in [Handler -> Phases] /\ what \in [Handler -> SUBSET Text]
      /\ rest \in [Handler -> Seq(Transcript)] /\ asked \in [Handler -> (SUBSET Text) \cup {None}]
  BY DEF TypeInv, TypeOK, Phases
<1>2. buffer' = before \o IF ~closing /\ rest[h] # <<>> THEN rest[h] ELSE <<>>
  BY DEF LeaveWith
<1>3. buffer' \in Seq(Transcript)
      /\ Texts(buffer') = Texts(before) \cup IF closing THEN {} ELSE Texts(rest[h])
  <2>1. CASE ~closing /\ rest[h] # <<>>
    BY <1>1, <1>2, <2>1, TextsOfConcat
  <2>2. CASE ~(~closing /\ rest[h] # <<>>)
    <3>1. buffer' = before \o <<>>
      BY <1>2, <2>2
    <3>2. Texts(before \o <<>>) = Texts(before) \cup {} /\ before \o <<>> \in Seq(Transcript)
      BY TextsOfConcat, TextsOfNone
    <3> QED
      BY <2>2, <3>1, <3>2, TextsOfNone
  <2> QED
    BY <2>1, <2>2
<1>4. /\ pc' = [pc EXCEPT ![h] = "idle"] /\ what' = [what EXCEPT ![h] = {}]
      /\ rest' = [rest EXCEPT ![h] = <<>>] /\ asked' = [asked EXCEPT ![h] = None]
  BY DEF LeaveWith, GoTo
<1>5. "idle" \in Phases
  BY DEF Phases
<1>6. BusyInv'
  BY <1>1, <1>4 DEF TypeInv, BusyInv
<1> QED
  BY <1>1, <1>3, <1>4, <1>5, <1>6, TextsOfNone

\* What a handler says changes its phase and, while the call goes on, what is answered.
LEMMA SayTypes ==
  ASSUME TypeInv, NEW h \in Handler, pc[h] # "idle", Say(h)
  PROVE  /\ pc' \in [Handler -> Phases] /\ answered' \in SUBSET Text
         /\ pc'[h] = "saying" /\ \A g \in Handler \ {h} : pc'[g] = pc[g]
         /\ answered' = answered \cup IF closing THEN {} ELSE what[h]
         /\ UNCHANGED <<heard, dismissed, spared>>
<1>1. pc \in [Handler -> Phases] /\ what[h] \in SUBSET Text /\ answered \in SUBSET Text
  BY DEF TypeInv, TypeOK, Phases
<1> QED
  BY <1>1 DEF Say, GoTo, Phases

\* The delegations that run are canceled for what they are about.
LEMMA RunningTypes ==
  TypeOK => Running \in SUBSET Handler /\ (UNION {what[h] : h \in Running}) \in SUBSET Text
BY DEF TypeOK, Running

\* A flush divides the texts that have a key.
Divided(transcript, left, omitted) ==
  /\ Texts(buffer) \subseteq transcript \cup Texts(left) \cup omitted \cup Keyless
  /\ transcript \cup Texts(left) \cup omitted \subseteq Texts(buffer)

\* The delegation that runs is canceled and the question given up, or neither is.
Superseding ==
  \/ CancelActive /\ pending' = None
  \/ UNCHANGED <<canceled, dismissed, pending>>

\* A batch of the fragments from the k-th to the n-th.
BatchIs(h, d, k, n) ==
  LET transcript == UNION {d[i] : i \in k .. n}
      left       == SubSeq(d, n + 1, Len(d))
      omitted    == UNION {d[i] : i \in 1 .. k - 1}
  IN \/ /\ UNCHANGED <<pending, canceled, answered, dismissed>>
        /\ Mark(h, transcript, left, omitted, FALSE)
     \/ HandleMergedCorrection(h, transcript, left, omitted)
     \/ HandleMergedCancellation(h, transcript, left, omitted)

\* A flush handles one part of what is buffered, keeps another and leaves out the rest.
LEMMA FlushDoes ==
  ASSUME TypeInv, NEW h \in Handler, Flush(h)
  PROVE  \/ HandleNothing /\ Texts(buffer) \subseteq Keyless
         \/ \E transcript \in Transcript, left \in Seq(Transcript), omitted \in SUBSET Text :
              /\ Divided(transcript, left, omitted) /\ Superseding
              /\ \/ UNCHANGED answered
                    /\ \E corrects \in BOOLEAN : Mark(h, transcript, left, omitted, corrects)
                 \/ HandleMergedCancellation(h, transcript, left, omitted)
<1>1. PICK d \in UniqueFragments(buffer) :
        IF d = <<>> THEN HandleNothing ELSE HandleCorrection(h, d) \/ HandleBatch(h, d)
  BY DEF Flush
<1>2. /\ d \in Seq(Transcript)
      /\ Texts(d) \subseteq Texts(buffer) /\ Texts(buffer) \subseteq Texts(d) \cup Keyless
  BY FragmentsHold DEF TypeInv, TypeOK
<1>3. CASE d = <<>>
  BY <1>1, <1>2, <1>3, TextsOfNone
<1>4. CASE d # <<>> /\ HandleCorrection(h, d)
  <2>1. PICK i \in DOMAIN d : Mark(h, d[i], <<>>, (UNION ToSet(d)) \ d[i], TRUE)
    BY <1>4 DEF HandleCorrection
  <2>2. d[i] \in Transcript /\ d[i] \subseteq Texts(d) /\ Texts(d) \subseteq Text
    BY <1>2, Transcripts DEF Texts, ToSet
  <2>3. Divided(d[i], <<>>, Texts(d) \ d[i])
    BY <1>2, <2>2, TextsOfNone DEF Divided
  <2>4. UNCHANGED answered /\ Superseding
    BY <1>4 DEF HandleCorrection, Superseding
  <2>5. Mark(h, d[i], <<>>, Texts(d) \ d[i], TRUE)
    BY <2>1 DEF Texts
  <2> QED
    BY <2>2, <2>3, <2>4, <2>5, TextsOfNone
<1>5. CASE d # <<>> /\ HandleBatch(h, d)
  <2>a. PICK n \in DOMAIN d : \E k \in 1 .. n : BatchIs(h, d, k, n)
    BY <1>5 DEF HandleBatch, BatchIs
  <2>1. PICK k \in 1 .. n : BatchIs(h, d, k, n)
    BY <2>a
  <2> DEFINE transcript == UNION {d[i] : i \in k .. n}
             left       == SubSeq(d, n + 1, Len(d))
             omitted    == UNION {d[i] : i \in 1 .. k - 1}
  <2>2. /\ transcript \in Transcript /\ left \in Seq(Transcript) /\ omitted \in SUBSET Text
        /\ Texts(d) = transcript \cup Texts(left) \cup omitted
    BY <1>2, FlushDivides
  <2>3. \/ /\ UNCHANGED <<pending, canceled, answered, dismissed>>
           /\ Mark(h, transcript, left, omitted, FALSE)
        \/ HandleMergedCorrection(h, transcript, left, omitted)
        \/ HandleMergedCancellation(h, transcript, left, omitted)
    BY <2>1 DEF BatchIs
  <2> HIDE DEF transcript, left, omitted
  <2>4. Divided(transcript, left, omitted)
    BY <1>2, <2>2 DEF Divided
  <2>5. Superseding
    BY <2>3 DEF Superseding, HandleMergedCorrection, HandleMergedCancellation
  <2>6. \/ UNCHANGED answered /\ \E corrects \in BOOLEAN : Mark(h, transcript, left, omitted, corrects)
        \/ HandleMergedCancellation(h, transcript, left, omitted)
    BY <2>3 DEF HandleMergedCorrection
  <2> QED
    BY <2>2, <2>4, <2>5, <2>6
<1> QED
  BY <1>1, <1>3, <1>4, <1>5

\* What a flush does to one transcript: it is taken, to be worked on or to say that the
\* request is cancelled, or it is a duplicate.
Works(h, transcript, left, omitted) ==
  /\ Take(h, transcript, left)
  /\ asked' = [asked EXCEPT ![h] = pending']
  /\ GoTo(h, IF pending' = None THEN "deciding" ELSE "relating")
  /\ recent' \subseteq recent \cup {transcript, Canned}
  /\ spared' = spared \cup omitted
  /\ UNCHANGED answered

Duplicates(transcript, left, omitted) ==
  /\ SkipDuplicate(left)
  /\ recent' \subseteq recent
  /\ \/ transcript \in recent /\ spared' = spared \cup omitted
     \/ spared' = spared \cup omitted \cup transcript
  /\ UNCHANGED answered

LEMMA MarkDoes ==
  ASSUME NEW h, NEW transcript, NEW left, NEW omitted, NEW corrects \in BOOLEAN,
         Mark(h, transcript, left, omitted, corrects), UNCHANGED answered
  PROVE  Works(h, transcript, left, omitted) \/ Duplicates(transcript, left, omitted)
BY DEF Mark, Works, Duplicates

\* The three ways of a flush that finds a fragment.
Fates(h, transcript, left, omitted) ==
  \/ Works(h, transcript, left, omitted)
  \/ Duplicates(transcript, left, omitted)
  \/ HandleMergedCancellation(h, transcript, left, omitted)

LEMMA FlushCases ==
  ASSUME TypeInv, NEW h \in Handler, Flush(h)
  PROVE  \/ HandleNothing /\ Texts(buffer) \subseteq Keyless
         \/ \E transcript \in Transcript, left \in Seq(Transcript), omitted \in SUBSET Text :
              /\ Divided(transcript, left, omitted) /\ Superseding
              /\ Fates(h, transcript, left, omitted)
BY FlushDoes, MarkDoes DEF Fates

\* A flush makes a transcript of what it takes from the buffer.
LEMMA FlushTypes ==
  ASSUME TypeInv, NEW h \in Handler, Flush(h)
  PROVE  TypeInv'
<1>2. TypeOK /\ BusyInv
  BY DEF TypeInv
<1>4. UNCHANGED <<turns, closing, stranded, attempts, lock, active, heard>>
  BY DEF Flush, session
<1>7. CASE HandleNothing
  <2>1. BusyInv'
    BY <1>2, <1>7 DEF HandleNothing, BusyInv, local
  <2>2. buffer' \in Seq(Transcript) /\ flush' \in BOOLEAN
        /\ UNCHANGED <<recent, pending, canceled, pc, what, rest, asked, answered, dismissed, spared>>
    BY <1>7, TextsOfNone DEF HandleNothing, local, history
  <2> QED
    BY <1>2, <1>4, <2>1, <2>2 DEF TypeInv, TypeOK
<1>8. CASE ~HandleNothing
  <2>1. PICK transcript \in Transcript, left \in Seq(Transcript), omitted \in SUBSET Text :
          Superseding /\ Fates(h, transcript, left, omitted)
    BY <1>8, FlushCases
  <2>2. pending' \in (SUBSET Text) \cup {None} /\ canceled' \in SUBSET Handler /\ dismissed' \in SUBSET Text
    BY <1>2, <2>1, RunningTypes DEF Superseding, CancelActive, TypeOK
  <2>3. transcript \subseteq Text /\ transcript # {}
    BY Transcripts
  <2>4. answered' \in SUBSET Text /\ spared' \in SUBSET Text
    <3>1. answered' = answered \/ answered' = answered \cup transcript
      BY <2>1 DEF Fates, Works, Duplicates, HandleMergedCancellation
    <3>2. spared' = spared \cup omitted \/ spared' = spared \cup omitted \cup transcript
      BY <2>1 DEF Fates, Works, Duplicates, HandleMergedCancellation
    <3> QED
      BY <1>2, <2>3, <3>1, <3>2 DEF TypeOK
  <2>5. CASE Duplicates(transcript, left, omitted)
    <3>1. buffer' = left /\ flush' \in BOOLEAN /\ recent' \subseteq recent /\ UNCHANGED <<pc, what, rest, asked>>
      BY <2>5 DEF Duplicates, SkipDuplicate, local
    <3>2. BusyInv'
      BY <1>2, <3>1 DEF BusyInv
    <3> QED
      BY <1>2, <1>4, <2>2, <2>4, <3>1, <3>2 DEF TypeInv, TypeOK
  <2>6. ASSUME Take(h, transcript, left)
        PROVE  /\ buffer' \in Seq(Transcript) /\ flush' \in BOOLEAN
               /\ what' \in [Handler -> SUBSET Text] /\ rest' \in [Handler -> Seq(Transcript)]
    BY <1>2, <2>3, <2>6, TextsOfNone DEF TypeOK, Take
  <2>7. CASE Works(h, transcript, left, omitted)
    <3>1. asked' \in [Handler -> (SUBSET Text) \cup {None}]
      BY <1>2, <2>2, <2>7 DEF TypeOK, Works
    <3>2. pc' \in [Handler -> Phases]
      BY <1>2, <2>7 DEF TypeOK, Phases, Works, GoTo
    <3>3. BusyInv'
      BY <1>2, <2>3, <2>7 DEF BusyInv, TypeOK, Works, Take, GoTo
    <3>4. recent' \in SUBSET SUBSET Text
      <4>1. {transcript, Canned} \subseteq SUBSET Text
        BY <2>3 DEF Canned
      <4>2. recent \subseteq SUBSET Text
        BY <1>2 DEF TypeOK
      <4> QED
        BY <2>7, <4>1, <4>2 DEF Works
    <3> QED
      BY <1>2, <1>4, <2>2, <2>4, <2>6, <2>7, <3>1, <3>2, <3>3, <3>4 DEF Works, TypeInv, TypeOK, Phases
  <2>8. CASE HandleMergedCancellation(h, transcript, left, omitted)
    <3>1. UNCHANGED <<recent, asked>> /\ pc' = [pc EXCEPT ![h] = "saying"] /\ Take(h, transcript, left)
      BY <2>8 DEF HandleMergedCancellation, GoTo
    <3>2. pc' \in [Handler -> Phases]
      BY <1>2, <3>1 DEF TypeOK, Phases
    <3>3. BusyInv'
      BY <1>2, <2>3, <3>1 DEF BusyInv, TypeOK, Take
    <3> QED
      BY <1>2, <1>4, <2>2, <2>4, <2>6, <3>1, <3>2, <3>3 DEF TypeInv, TypeOK, Phases
  <2> QED
    BY <2>1, <2>5, <2>7, <2>8 DEF Fates
<1> QED
  BY <1>7, <1>8

\* The types are kept: what leaves the lock was in it.
LEMMA TypesStep == ReachInv /\ [Next]_vars => TypeInv'
<1> SUFFICES ASSUME ReachInv, [Next]_vars PROVE TypeInv'
  OBVIOUS
<1> USE DEF session, inbox, control, local, history
<1>a. TypeInv /\ TypeOK /\ BusyInv
  BY DEF ReachInv, TypeInv
<1>b. /\ pc \in [Handler -> Phases] /\ what \in [Handler -> SUBSET Text]
      /\ asked \in [Handler -> (SUBSET Text) \cup {None}] /\ buffer \in Seq(Transcript)
      /\ rest \in [Handler -> Seq(Transcript)] /\ lock \in Seq(Handler)
      /\ attempts \in [Transcript -> 0 .. MaxAttempts] /\ closing \in BOOLEAN /\ flush \in BOOLEAN
      /\ answered \in SUBSET Text /\ dismissed \in SUBSET Text /\ spared \in SUBSET Text
  BY <1>a DEF TypeOK, Phases
<1>c. ASSUME NEW h \in Handler, pc[h] # "idle" PROVE what[h] \in Transcript
  BY <1>a, <1>b, <1>c, Transcripts DEF BusyInv
<1>1. ASSUME NEW t \in Text, Turn(t) PROVE TypeInv'
  <2>1. {t} \in Transcript
    BY Transcripts
  <2>2. buffer' \in Seq(Transcript)
    BY <1>1, <1>b, <2>1, TextsOfAppend DEF Turn
  <2>4. turns' \in 0 .. MaxTurns /\ flush' \in BOOLEAN /\ stranded' \in BOOLEAN /\ heard' \in SUBSET Text
    BY <1>1, <1>a, VoiceAssumption DEF Turn, TypeOK
  <2>5. BusyInv'
    BY <1>1, <1>a DEF Turn, BusyInv
  <2> QED
    BY <1>1, <1>a, <2>2, <2>4, <2>5 DEF Turn, TypeInv, TypeOK
<1>18. CASE EmptyTurn
  <2>1. turns' \in 0 .. MaxTurns /\ stranded' \in BOOLEAN
    BY <1>18, <1>a, VoiceAssumption DEF EmptyTurn, TypeOK
  <2>2. BusyInv'
    BY <1>18, <1>a DEF EmptyTurn, BusyInv
  <2> QED
    BY <1>18, <1>a, <2>1, <2>2 DEF EmptyTurn, TypeInv, TypeOK
<1>2. CASE CancelRequest
  <2>1. turns' \in 0 .. MaxTurns
    BY <1>2, <1>a, VoiceAssumption DEF CancelRequest, TypeOK
  <2>2. BusyInv'
    BY <1>2, <1>a DEF CancelRequest, BusyInv
  <2>3. buffer' \in Seq(Transcript)
    BY <1>2 DEF CancelRequest
  <2>4. UNION ToSet(buffer) \subseteq Text
    BY <1>b, Transcripts DEF ToSet
  <2> QED
    BY <1>2, <1>a, <2>1, <2>2, <2>3, <2>4, RunningTypes DEF CancelRequest, TypeInv, TypeOK
<1>3. CASE Shutdown
  <2>1. BusyInv'
    BY <1>3, <1>a DEF Shutdown, BusyInv
  <2> QED
    BY <1>3, <1>a, <2>1, RunningTypes DEF Shutdown, CancelActive, TypeInv, TypeOK
<1>5. ASSUME NEW h \in Handler, Flush(h) PROVE TypeInv'
  BY <1>a, <1>5, FlushTypes
<1>6. ASSUME NEW h \in Handler, NEW before \in Seq(Transcript), LeaveWith(h, before),
             UNCHANGED <<turns, closing, recent, pending, heard, answered>>,
             flush' \in BOOLEAN, stranded' \in BOOLEAN, attempts' \in [Transcript -> 0 .. MaxAttempts],
             lock' \in Seq(Handler), active' \in Handler \cup {None}, canceled' \in SUBSET Handler,
             dismissed' \in SUBSET Text, spared' \in SUBSET Text
      PROVE  TypeInv'
  <2>1. /\ buffer' \in Seq(Transcript) /\ BusyInv'
        /\ pc' \in [Handler -> Phases] /\ what' \in [Handler -> SUBSET Text]
        /\ rest' \in [Handler -> Seq(Transcript)] /\ asked' \in [Handler -> (SUBSET Text) \cup {None}]
    BY <1>a, <1>6, LeaveTypes
  <2> QED
    BY <1>6, <1>a, <2>1 DEF TypeInv, TypeOK, Phases
<1>d. ASSUME NEW h \in Handler, Leave(h)
      PROVE  /\ LeaveWith(h, buffer) /\ buffer \in Seq(Transcript)
             /\ flush' \in BOOLEAN /\ stranded' \in BOOLEAN
  BY <1>b, <1>d DEF Leave
<1>7. ASSUME NEW h \in Handler, Said(h) PROVE TypeInv'
  BY <1>6, <1>7, <1>a, <1>d DEF Said, TypeOK
<1>8. ASSUME NEW h \in Handler, NEW p \in Phases \ {"idle", "relating"}, pc[h] # "idle",
             pc' = [pc EXCEPT ![h] = p], pending' \in (SUBSET Text) \cup {None},
             asked' = asked \/ asked' = [asked EXCEPT ![h] = None],
             what' = what \/ (asked[h] # None /\ what' = [what EXCEPT ![h] = @ \cup asked[h]]),
             attempts' = attempts \/ attempts' = [attempts EXCEPT ![what[h]] = 0],
             lock' \in Seq(Handler), active' \in Handler \cup {None}, canceled' \in SUBSET Handler,
             answered' \in SUBSET Text,
             UNCHANGED <<session, inbox, recent, rest, heard, dismissed, spared>>
      PROVE  TypeInv'
  <2>1. pc' \in [Handler -> Phases] /\ what' \in [Handler -> SUBSET Text]
        /\ asked' \in [Handler -> (SUBSET Text) \cup {None}]
    BY <1>8, <1>b
  <2>2. attempts' \in [Transcript -> 0 .. MaxAttempts]
    <3>1. 0 \in 0 .. MaxAttempts /\ what[h] \in Transcript
      BY <1>8, <1>c, VoiceAssumption
    <3>2. [attempts EXCEPT ![what[h]] = 0] \in [Transcript -> 0 .. MaxAttempts]
      BY <1>b, <3>1
    <3> QED
      BY <1>8, <1>b, <3>2
  <2>3. BusyInv'
    BY <1>8, <1>a, <1>b DEF BusyInv
  <2> QED
    BY <1>8, <1>a, <2>1, <2>2, <2>3 DEF TypeInv, TypeOK, Phases
<1>9. ASSUME NEW h \in Handler, Relate(h) \/ LocalReply(h) \/ Ask(h) PROVE TypeInv'
  <2>1. CASE Supersede(h)
    BY <1>8, <1>a, <2>1 DEF Supersede, GoTo, TypeOK, Phases
  <2>2. CASE AnswerClarification(h)
    <3>1. asked[h] # None
      BY <1>a, <2>2 DEF AnswerClarification, BusyInv
    <3> QED
      BY <1>8, <1>a, <2>2, <3>1 DEF AnswerClarification, GoTo, TypeOK, Phases
  <2>3. CASE LocalReply(h)
    BY <1>8, <1>a, <2>3, SayTypes DEF LocalReply, Say, GoTo, TypeOK, Phases
  <2>4. CASE AskAgain(h)
    <3>1. pending' \in (SUBSET Text) \cup {None}
      BY <1>a, <1>b, <2>4 DEF AskAgain, BusyInv, TypeOK
    <3> QED
      BY <1>8, <1>a, <2>4, <3>1, SayTypes DEF AskAgain, Say, GoTo, TypeOK, Phases
  <2>5. CASE Ask(h)
    <3>1. pending' \in (SUBSET Text) \cup {None}
      BY <1>b, <2>5 DEF Ask
    <3> QED
      BY <1>8, <1>a, <2>5, <3>1, SayTypes DEF Ask, Say, GoTo, TypeOK, Phases
  <2> QED
    BY <1>9, <2>1, <2>2, <2>3, <2>4, <2>5 DEF Relate
<1>10. ASSUME NEW h \in Handler, Defer(h) PROVE TypeInv'
  <2>1. what[h] \in Transcript
    BY <1>c, <1>10 DEF Defer
  <2>2. attempts' \in [Transcript -> 0 .. MaxAttempts]
    BY <1>b, <1>10, <2>1, VoiceAssumption DEF Defer
  <2>3. <<what[h]>> \o buffer \in Seq(Transcript)
    BY <1>b, <2>1, TextsOfAppend, TextsOfConcat
  <2>4. flush' \in BOOLEAN /\ stranded' \in BOOLEAN /\ spared' \in SUBSET Text
    BY <1>b, <1>10 DEF Defer
  <2> QED
    BY <1>6, <1>a, <1>10, <2>2, <2>3, <2>4 DEF Defer, TypeOK
<1>11. ASSUME NEW h \in Handler, Ignore(h) PROVE TypeInv'
  <2>1. attempts' \in [Transcript -> 0 .. MaxAttempts] /\ dismissed' \in SUBSET Text
    <3>1. 0 \in 0 .. MaxAttempts /\ what[h] \in Transcript
      BY <1>11, <1>c, VoiceAssumption DEF Ignore
    <3> QED
      BY <1>b, <1>11, <3>1 DEF Ignore
  <2> QED
    BY <1>6, <1>a, <1>d, <1>11, <2>1 DEF Ignore, TypeOK
<1>12. ASSUME NEW h \in Handler, Accept(h) PROVE TypeInv'
  <2>1. lock' \in Seq(Handler)
    BY <1>b, <1>12 DEF Accept
  <2> QED
    BY <1>8, <1>a, <1>12, <2>1 DEF Accept, GoTo, TypeOK, Phases
<1>13. ASSUME NEW h \in Handler, Acquire(h) \/ Connect(h) \/ ConnectFails(h) \/ HostEnds(h) \/ Abort(h)
       PROVE  TypeInv'
  <2>1. PICK p \in {"starting", "streaming", "resolved", "aborted"} : pc' = [pc EXCEPT ![h] = p]
    BY <1>13 DEF Acquire, Connect, ConnectFails, HostEnds, Resolve, Abort, GoTo
  <2>2. /\ pc[h] # "idle" /\ p \in Phases \ {"idle", "relating"}
        /\ active' \in Handler \cup {None}
        /\ UNCHANGED <<session, inbox, recent, attempts, pending, lock, canceled, local, history>>
    BY <1>a, <1>13 DEF Acquire, Connect, ConnectFails, HostEnds, Resolve, Abort, Delegating, Phases,
      Holding, TypeOK
  <2> QED
    BY <1>8, <1>a, <2>1, <2>2 DEF TypeOK
<1>e. ASSUME NEW h \in Handler, pc[h] \in Holding \cup {"locking"} PROVE Tail(lock) \in Seq(Handler)
  <2>1. lock # <<>>
    BY <1>e DEF ReachInv, LockInv, ToSet
  <2> QED
    BY <1>b, <2>1
<1>14. ASSUME NEW h \in Handler, AcquireTooLate(h) PROVE TypeInv'
  <2>1. lock' \in Seq(Handler)
    BY <1>e, <1>14 DEF AcquireTooLate
  <2> QED
    BY <1>6, <1>a, <1>d, <1>14, <2>1 DEF AcquireTooLate, TypeOK
<1>15. ASSUME NEW h \in Handler, Resume(h) PROVE TypeInv'
  <2>1. lock' \in Seq(Handler)
    BY <1>e, <1>15 DEF Resume, Holding
  <2>2. active' \in Handler \cup {None} /\ canceled' \in SUBSET Handler
        /\ UNCHANGED <<turns, closing, recent, attempts, pending>>
    BY <1>15, <1>a DEF Resume, TypeOK
  <2>3. CASE pc[h] = "resolved" /\ ~closing
    <3>1. Say(h) /\ UNCHANGED <<inbox, what, rest, asked>>
      BY <1>15, <2>3 DEF Resume
    <3> QED
      BY <1>8, <1>a, <2>1, <2>2, <2>3, <3>1, SayTypes DEF Say, GoTo, TypeOK, Phases
  <2>4. CASE ~(pc[h] = "resolved" /\ ~closing)
    <3>1. Leave(h) /\ UNCHANGED <<heard, answered, dismissed, spared>>
      BY <1>15, <2>4 DEF Resume
    <3> QED
      BY <1>6, <1>a, <1>b, <1>d, <2>1, <2>2, <3>1
  <2> QED
    BY <2>3, <2>4
<1>16. CASE UNCHANGED vars
  <2>1. BusyInv'
    BY <1>16, <1>a DEF vars, BusyInv
  <2> QED
    BY <1>16, <1>a, <2>1 DEF vars, TypeInv, TypeOK
<1>17. ASSUME NEW h \in Handler, Handle(h) PROVE TypeInv'
  BY <1>7, <1>9, <1>10, <1>11, <1>12, <1>13, <1>14, <1>15, <1>17 DEF Handle, Decide, Delegate
<1> QED
  BY <1>1, <1>18, <1>2, <1>3, <1>5, <1>13, <1>16, <1>17 DEF Next, Caller

-----------------------------------------------------------------------------
(* The lock and the delegation that is registered *)

\* The phases in which a handler holds the lock or waits for it.
InLine == Holding \cup {"locking"}

\* Each waits once.
Once(s) == \A i, j \in DOMAIN s : s[i] = s[j] => i = j

\* One more waits at the end.
LEMMA Joined ==
  ASSUME NEW s \in Seq(Handler), Once(s), NEW h \in Handler, h \notin ToSet(s)
  PROVE  /\ ToSet(Append(s, h)) = ToSet(s) \cup {h} /\ Once(Append(s, h))
         /\ s # <<>> => Head(Append(s, h)) = Head(s)
<1>1. /\ Len(s) \in Nat /\ DOMAIN s = 1 .. Len(s) /\ DOMAIN Append(s, h) = 1 .. Len(s) + 1
      /\ \A i \in 1 .. Len(s) : Append(s, h)[i] = s[i]
      /\ Append(s, h)[Len(s) + 1] = h
  OBVIOUS
<1>2. ToSet(Append(s, h)) = ToSet(s) \cup {h}
  <2>1. ToSet(Append(s, h)) \subseteq ToSet(s) \cup {h}
    <3> SUFFICES ASSUME NEW i \in 1 .. Len(s) + 1 PROVE Append(s, h)[i] \in ToSet(s) \cup {h}
      BY <1>1 DEF ToSet
    <3>1. i \in 1 .. Len(s) \/ i = Len(s) + 1
      BY <1>1
    <3> QED
      BY <3>1, <1>1 DEF ToSet
  <2>2. ToSet(s) \subseteq ToSet(Append(s, h))
    BY <1>1 DEF ToSet
  <2>3. h \in ToSet(Append(s, h))
    BY <1>1 DEF ToSet
  <2> QED
    BY <2>1, <2>2, <2>3
<1>3. \A i \in 1 .. Len(s) : s[i] # h
  BY <1>1 DEF ToSet
<1>4. Once(Append(s, h))
  BY <1>1, <1>3 DEF Once
<1>5. s # <<>> => Head(Append(s, h)) = Head(s)
  BY <1>1
<1> QED
  BY <1>2, <1>4, <1>5

\* The first leaves.
LEMMA Left ==
  ASSUME NEW s \in Seq(Handler), s # <<>>, Once(s)
  PROVE  Tail(s) \in Seq(Handler) /\ ToSet(Tail(s)) = ToSet(s) \ {Head(s)} /\ Once(Tail(s))
<1>1. /\ Len(s) \in Nat \ {0} /\ DOMAIN s = 1 .. Len(s) /\ DOMAIN Tail(s) = 1 .. Len(s) - 1
      /\ \A i \in 1 .. Len(s) - 1 : Tail(s)[i] = s[i + 1]
      /\ Head(s) = s[1] /\ Tail(s) \in Seq(Handler)
  OBVIOUS
<1>2. ToSet(Tail(s)) \subseteq ToSet(s) \ {Head(s)}
  <2> SUFFICES ASSUME NEW i \in 1 .. Len(s) - 1 PROVE Tail(s)[i] \in ToSet(s) /\ Tail(s)[i] # s[1]
    BY <1>1 DEF ToSet
  <2>1. i + 1 \in 1 .. Len(s) /\ i + 1 # 1 /\ 1 \in 1 .. Len(s)
    BY <1>1
  <2> QED
    BY <2>1, <1>1 DEF ToSet, Once
<1>3. ToSet(s) \ {Head(s)} \subseteq ToSet(Tail(s))
  <2> SUFFICES ASSUME NEW i \in 1 .. Len(s), s[i] # s[1] PROVE s[i] \in ToSet(Tail(s))
    BY <1>1 DEF ToSet
  <2>1. i - 1 \in 1 .. Len(s) - 1 /\ Tail(s)[i - 1] = s[i]
    BY <1>1
  <2> QED
    BY <2>1, <1>1 DEF ToSet
<1>4. Once(Tail(s))
  <2> SUFFICES ASSUME NEW i \in 1 .. Len(s) - 1, NEW j \in 1 .. Len(s) - 1, Tail(s)[i] = Tail(s)[j]
               PROVE  i = j
    BY <1>1 DEF Once
  <2>1. i + 1 \in 1 .. Len(s) /\ j + 1 \in 1 .. Len(s) /\ s[i + 1] = s[j + 1]
    BY <1>1
  <2> QED
    BY <2>1, <1>1 DEF Once
<1> QED
  BY <1>1, <1>2, <1>3, <1>4

\* The first in line gives the lock up, with the delegation it may have registered.
LEMMA ReleaseStep ==
  ASSUME ReachInv, TypeInv', NEW h \in Handler, pc[h] \in InLine, Head(lock) = h,
         lock' = Tail(lock), pc'[h] \notin InLine, \A g \in Handler \ {h} : pc'[g] = pc[g],
         active' = IF pc[h] \in Holding THEN None ELSE active
  PROVE  ReachInv'
<1>1. lock \in Seq(Handler) /\ lock # <<>> /\ Once(lock)
  BY DEF ReachInv, TypeInv, TypeOK, LockInv, InLine, Once, ToSet
<1>2. ToSet(lock') = ToSet(lock) \ {h} /\ Once(lock')
  BY <1>1, Left
<1>3. \A g \in Handler : g \in ToSet(lock)' <=> pc'[g] \in InLine
  <2>1. \A g \in Handler : g \in ToSet(lock) <=> pc[g] \in InLine
    BY DEF ReachInv, LockInv, InLine
  <2>2. ToSet(lock)' = ToSet(lock) \ {h}
    BY <1>2 DEF ToSet
  <2> QED
    BY <2>1, <2>2
<1>4. \A g \in Handler \ {h} : pc[g] \notin Holding
  BY DEF ReachInv, LockInv
<1>5. \A g \in Handler : pc'[g] \notin Holding
  BY <1>4 DEF InLine
<1>6. \A g \in Handler : active' # g
  BY <1>4, VoiceAssumption DEF ReachInv, HostWorkIsReachable
<1>7. LockInv'
  BY <1>2, <1>3, <1>5 DEF LockInv, InLine, Once
<1>8. HostWorkIsReachable'
  BY <1>5, <1>6 DEF HostWorkIsReachable
<1> QED
  BY <1>7, <1>8 DEF ReachInv

\* A handler that is not in line stays out of it.
LEMMA OutsideStep ==
  ASSUME ReachInv, TypeInv', NEW h \in Handler, pc[h] \notin InLine, pc'[h] \notin InLine,
         \A g \in Handler \ {h} : pc'[g] = pc[g], UNCHANGED <<lock, active>>
  PROVE  ReachInv'
<1>1. LockInv'
  <2>1. UNCHANGED ToSet(lock)
    BY DEF ToSet
  <2> QED
    BY <2>1 DEF ReachInv, LockInv, InLine
<1>2. HostWorkIsReachable'
  BY DEF ReachInv, HostWorkIsReachable, InLine
<1> QED
  BY <1>1, <1>2 DEF ReachInv

\* The holder goes on, or begins.
LEMMA HolderStep ==
  ASSUME ReachInv, TypeInv', NEW h \in Handler, pc[h] \in InLine, pc'[h] \in Holding, Head(lock) = h,
         \A g \in Handler \ {h} : pc'[g] = pc[g], UNCHANGED lock, active' = h
  PROVE  ReachInv'
<1>1. \A g \in Handler \ {h} : pc'[g] \notin Holding
  BY DEF ReachInv, LockInv
<1>2. LockInv'
  <2>1. UNCHANGED ToSet(lock)
    BY DEF ToSet
  <2> QED
    BY <1>1, <2>1 DEF ReachInv, LockInv, InLine
<1>3. HostWorkIsReachable'
  BY <1>1 DEF HostWorkIsReachable
<1> QED
  BY <1>2, <1>3 DEF ReachInv

\* Who holds the lock depends on the phases and the line only.
LEMMA ReachUnchanged ==
  ASSUME ReachInv, TypeInv', UNCHANGED <<pc, lock, active>>
  PROVE  ReachInv'
<1>1. UNCHANGED ToSet(lock)
  BY DEF ToSet
<1> QED
  BY <1>1 DEF ReachInv, LockInv, HostWorkIsReachable

\* No step gives two handlers the lock or registers another one than its holder.
LEMMA ReachStep == ReachInv /\ [Next]_vars => ReachInv'
<1> SUFFICES ASSUME ReachInv, [Next]_vars PROVE ReachInv'
  OBVIOUS
<1> USE DEF session, inbox, control, local, history
<1>a. TypeInv' /\ TypeInv /\ TypeOK /\ pc \in [Handler -> Phases]
  BY TypesStep DEF ReachInv, TypeInv, TypeOK, Phases
<1>b. InLine = {"starting", "streaming", "resolved", "aborted", "locking"}
      /\ Holding = {"starting", "streaming", "resolved", "aborted"}
  BY DEF InLine, Holding, Delegating
<1>1. CASE \/ \E t \in Text : Turn(t)
           \/ EmptyTurn \/ CancelRequest \/ Shutdown \/ UNCHANGED vars
  BY <1>1, <1>a, ReachUnchanged DEF Turn, EmptyTurn, CancelRequest, Shutdown, vars
<1>2. ASSUME NEW h \in Handler, Flush(h) PROVE ReachInv'
  <2>1. /\ pc[h] = "idle" /\ UNCHANGED <<lock, active>>
        /\ \/ UNCHANGED pc
           \/ \E p \in {"deciding", "relating", "saying"} : pc' = [pc EXCEPT ![h] = p]
    <3>1. pc[h] = "idle" /\ UNCHANGED <<lock, active>>
      BY <1>2 DEF Flush
    <3>2. CASE HandleNothing
      BY <3>1, <3>2 DEF HandleNothing
    <3>3. ASSUME NEW transcript, NEW left, NEW omitted, Fates(h, transcript, left, omitted)
          PROVE  UNCHANGED pc \/ \E p \in {"deciding", "relating", "saying"} : pc' = [pc EXCEPT ![h] = p]
      BY <3>3 DEF Fates, Works, Duplicates, SkipDuplicate, HandleMergedCancellation, GoTo
    <3> QED
      BY <1>2, <1>a, <3>1, <3>2, <3>3, FlushCases
  <2> QED
    BY <2>1, <1>a, <1>b, OutsideStep
<1>3. ASSUME NEW h \in Handler, Leave(h) \/ (\E before : LeaveWith(h, before)) \/ Say(h)
      PROVE  pc'[h] \in {"idle", "saying"} /\ \A g \in Handler \ {h} : pc'[g] = pc[g]
  BY <1>3, <1>a DEF Leave, LeaveWith, Say, GoTo
<1>4. ASSUME NEW h \in Handler, Relate(h) \/ LocalReply(h) \/ Defer(h) \/ Ask(h) \/ Ignore(h) \/ Said(h)
      PROVE  ReachInv'
  <2>1. CASE Supersede(h) \/ AnswerClarification(h)
    BY <2>1, <1>a, <1>b, OutsideStep DEF Supersede, AnswerClarification, GoTo
  <2>2. CASE LocalReply(h) \/ AskAgain(h) \/ Ask(h)
    BY <2>2, <1>b, <1>a, <1>3, OutsideStep DEF LocalReply, AskAgain, Ask
  <2>3. CASE Defer(h) \/ Ignore(h) \/ Said(h)
    BY <2>3, <1>b, <1>a, <1>3, OutsideStep DEF Defer, Ignore, Said
  <2> QED
    BY <1>4, <2>1, <2>2, <2>3 DEF Relate
<1>5. ASSUME NEW h \in Handler, Accept(h) PROVE ReachInv'
  <2>1. /\ pc[h] = "deciding" /\ pc'[h] = "locking" /\ \A g \in Handler \ {h} : pc'[g] = pc[g]
        /\ lock' = Append(lock, h) /\ UNCHANGED active
    BY <1>5, <1>a DEF Accept, GoTo
  <2>2. lock \in Seq(Handler) /\ Once(lock) /\ h \notin ToSet(lock)
    BY <1>a, <1>b, <2>1 DEF TypeOK, ReachInv, LockInv, Once
  <2>3. /\ ToSet(lock)' = ToSet(lock) \cup {h} /\ Once(lock')
        /\ lock # <<>> => Head(lock') = Head(lock)
    <3>1. ToSet(lock)' = ToSet(lock')
      BY DEF ToSet
    <3> QED
      BY <2>1, <2>2, <3>1, Joined
  <2>4. \A g \in Handler : pc'[g] \in Holding => pc[g] \in Holding /\ lock # <<>>
    BY <1>b, <2>1 DEF ReachInv, LockInv, ToSet
  <2>5. LockInv'
    BY <1>b, <2>1, <2>3, <2>4 DEF ReachInv, LockInv, Once
  <2>6. HostWorkIsReachable'
    BY <1>b, <2>1 DEF ReachInv, HostWorkIsReachable
  <2> QED
    BY <1>a, <2>5, <2>6 DEF ReachInv
<1>6. ASSUME NEW h \in Handler, Acquire(h) PROVE ReachInv'
  BY <1>6, <1>a, <1>b, HolderStep DEF Acquire, GoTo
<1>7. ASSUME NEW h \in Handler, Connect(h) \/ ConnectFails(h) \/ HostEnds(h) \/ Abort(h) PROVE ReachInv'
  <2>1. /\ pc[h] \in {"starting", "streaming"} /\ UNCHANGED <<lock, active>>
        /\ \E p \in {"streaming", "resolved", "aborted"} : pc' = [pc EXCEPT ![h] = p]
    BY <1>7 DEF Connect, ConnectFails, HostEnds, Resolve, Abort, GoTo, Delegating
  <2>2. Head(lock) = h /\ active = h
    BY <1>b, <2>1 DEF ReachInv, LockInv, HostWorkIsReachable
  <2> QED
    BY <2>1, <2>2, <1>a, <1>b, HolderStep
<1>8. ASSUME NEW h \in Handler, AcquireTooLate(h) PROVE ReachInv'
  BY <1>3, <1>8, <1>a, <1>b, ReleaseStep DEF AcquireTooLate
<1>9. ASSUME NEW h \in Handler, Resume(h) PROVE ReachInv'
  <2>1. pc[h] \in Holding /\ lock' = Tail(lock) /\ active' = None /\ (Say(h) \/ Leave(h))
    BY <1>9, <1>b DEF Resume
  <2>2. Head(lock) = h
    BY <2>1 DEF ReachInv, LockInv
  <2> QED
    BY <1>3, <1>a, <1>b, <2>1, <2>2, ReleaseStep
<1>10. ASSUME NEW h \in Handler, Handle(h) PROVE ReachInv'
  BY <1>4, <1>5, <1>6, <1>7, <1>8, <1>9, <1>10 DEF Handle, Decide, Delegate
<1> QED
  BY <1>1, <1>2, <1>7, <1>10 DEF Next, Caller

\* Nobody is in line at first.
LEMMA ReachInit == Init => ReachInv
<1> SUFFICES ASSUME Init PROVE ReachInv
  OBVIOUS
<1>1. TypeOK
  <2>1. 0 \in 0 .. MaxTurns /\ 0 \in 0 .. MaxAttempts
    BY VoiceAssumption
  <2>2. buffer \in Seq(Transcript) /\ rest \in [Handler -> Seq(Transcript)] /\ lock \in Seq(Handler)
    BY DEF Init
  <2>3. /\ pc \in [Handler -> {"idle", "relating", "deciding", "locking", "saying"} \cup Holding]
        /\ what \in [Handler -> SUBSET Text] /\ asked \in [Handler -> (SUBSET Text) \cup {None}]
    BY DEF Init
  <2>4. attempts \in [Transcript -> 0 .. MaxAttempts] /\ turns \in 0 .. MaxTurns
    BY <2>1 DEF Init
  <2> QED
    BY <2>2, <2>3, <2>4 DEF Init, TypeOK
<1>2. BusyInv
  BY DEF Init, BusyInv
<1>3. lock = <<>> /\ active = None /\ \A h \in Handler : pc[h] = "idle"
  BY DEF Init
<1>4. LockInv /\ HostWorkIsReachable
  BY <1>3, VoiceAssumption DEF LockInv, HostWorkIsReachable, Holding, Delegating, ToSet
<1> QED
  BY <1>1, <1>2, <1>4 DEF ReachInv, TypeInv

\* Every variable keeps its type; a transcript is deferred no more often than the
\* attempts allow, and only who is in line leaves the lock.
THEOREM VoiceTypes == Spec => []TypeOK
<1>1. ReachInv => TypeOK
  BY DEF ReachInv, TypeInv
<1> QED
  BY <1>1, ReachInit, ReachStep, PTL DEF Spec

\* The registered delegation is exactly the one that holds the lock: whatever was
\* canceled, failed or came late, a cancellation reaches what the host works on
\* and nothing else.
THEOREM HostIsReached == Spec => []HostWorkIsReachable
<1>1. ReachInv => HostWorkIsReachable
  BY DEF ReachInv
<1> QED
  BY <1>1, ReachInit, ReachStep, PTL DEF Spec

-----------------------------------------------------------------------------
(* What becomes of what is said *)

\* A text waits: it is in hand, or in a buffer whose flush was called off.
Waits(t) == InHand(t) \/ (stranded /\ t \in UNION ToSet(buffer))

\* It depends on the sequences only by their texts.
LEMMA WaitsTexts ==
  \A t : Waits(t) <=> \/ (flush \/ stranded) /\ t \in Texts(buffer)
                      \/ \E h \in Handler : t \in what[h] \cup Texts(rest[h])
BY DEF Waits, InHand, Texts

LEMMA WaitsTextsNext ==
  \A t : Waits(t)' <=> \/ (flush' \/ stranded') /\ t \in Texts(buffer')
                       \/ \E h \in Handler : t \in what'[h] \cup Texts(rest'[h])
BY DEF Waits, InHand, Texts, ToSet

LEMMA SilentWaits ==
  OnlySparedTurnsAreSilent <=> (~closing => \A t \in heard \ Keyless : Waits(t) \/ t \in Settled)
BY DEF OnlySparedTurnsAreSilent, Waits, Settled

\* A step of one handler: what it knew, said and gave up has to be shown for it only,
\* and that it lets go of no text that is not done with or back in the buffer.
LEMMA HandlerFate ==
  ASSUME TypeInv, TypeInv', FateInv, NEW h \in Handler,
         UNCHANGED <<closing, heard, recent>>,
         answered \subseteq answered', dismissed \subseteq dismissed', spared \subseteq spared',
         \A g \in Handler \ {h} : /\ pc'[g] = pc[g] /\ what'[g] = what[g]
                                  /\ rest'[g] = rest[g] /\ asked'[g] = asked[g],
         canceled' \ {h} = canceled \ {h},
         h \in canceled' => h \in canceled /\ pc'[h] \in Delegating \cup {"aborted"} /\ what'[h] = what[h],
         pc'[h] = "aborted" => h \in canceled',
         Texts(buffer') \subseteq heard, pending' # None => pending' \subseteq heard,
         what'[h] \cup Texts(rest'[h]) \subseteq heard,
         asked'[h] # None => asked'[h] \subseteq heard,
         ~closing /\ pc'[h] = "saying" => what'[h] \subseteq answered',
         ~closing => what[h] \subseteq what'[h] \cup Settled',
         ~closing => Texts(rest[h]) \subseteq Texts(rest'[h]) \cup IF flush' THEN Texts(buffer') ELSE {},
         ~closing /\ (flush \/ stranded) => (flush' \/ stranded') /\ Texts(buffer) \subseteq Texts(buffer')
  PROVE  FateInv'
<1>1. CanceledInv'
  <2>1. \A g \in canceled' \ {h} : g \in canceled /\ g \in Handler
    BY DEF TypeInv, TypeOK
  <2>2. \A g \in canceled' \ {h} : pc'[g] \in Delegating \cup {"aborted"} /\ what'[g] \subseteq dismissed'
    BY <2>1 DEF FateInv, CanceledInv
  <2>3. h \in canceled' => pc'[h] \in Delegating \cup {"aborted"} /\ what'[h] \subseteq dismissed'
    BY DEF FateInv, CanceledInv
  <2>4. \A g \in Handler \ {h} : pc'[g] = "aborted" => g \in canceled'
    BY DEF FateInv, CanceledInv
  <2> QED
    BY <2>2, <2>3, <2>4 DEF CanceledInv
<1>2. KnownInv'
  <2>1. UNCHANGED heard /\ Texts(buffer)' = Texts(buffer')
        /\ \A g \in Handler : Texts(rest[g])' = Texts(rest'[g])
    BY DEF Texts, ToSet
  <2>2. \A g \in Handler \ {h} : /\ what'[g] \cup Texts(rest'[g]) \subseteq heard
                                 /\ asked'[g] # None => asked'[g] \subseteq heard
    BY DEF FateInv, KnownInv
  <2> QED
    BY <2>1, <2>2 DEF KnownInv
<1>3. SaidInv'
  BY DEF FateInv, SaidInv
<1>4. Settled \subseteq Settled'
  BY DEF Settled
<1>5. ASSUME NEW t, ~closing, \E g \in Handler : t \in what[g]
      PROVE  t \in Settled' \/ \E g \in Handler : t \in what'[g]
  BY <1>5
<1>6. RecentInv'
  BY <1>4, <1>5 DEF FateInv, RecentInv
<1>7. OnlySparedTurnsAreSilent'
  <2> SUFFICES ASSUME ~closing, NEW t \in heard \ Keyless PROVE Waits(t)' \/ t \in Settled'
    BY DEF OnlySparedTurnsAreSilent, Settled, Waits
  <2>1. Waits(t) \/ t \in Settled
    BY SilentWaits DEF FateInv
  <2>2. CASE (flush \/ stranded) /\ t \in Texts(buffer)
    BY <2>2, WaitsTextsNext
  <2>3. CASE \E g \in Handler : t \in what[g]
    BY <1>5, <2>3, WaitsTextsNext
  <2>4. CASE \E g \in Handler : t \in Texts(rest[g])
    BY <2>4, WaitsTextsNext
  <2> QED
    BY <1>4, <2>1, <2>2, <2>3, <2>4, WaitsTexts
<1> QED
  BY <1>1, <1>2, <1>3, <1>6, <1>7 DEF FateInv

\* A handler that goes on, with its transcript or with a larger one.
LEMMA GoingFate ==
  ASSUME TypeInv, TypeInv', FateInv, NEW h \in Handler,
         UNCHANGED <<closing, heard, recent, inbox, rest, dismissed, spared>>,
         answered \subseteq answered',
         \A g \in Handler \ {h} : pc'[g] = pc[g] /\ what'[g] = what[g] /\ asked'[g] = asked[g],
         canceled' \ {h} = canceled \ {h},
         h \in canceled' => h \in canceled /\ pc'[h] \in Delegating \cup {"aborted"} /\ what'[h] = what[h],
         pc'[h] = "aborted" => h \in canceled',
         pending' # None => pending' \subseteq heard,
         what[h] \subseteq what'[h], what'[h] \subseteq heard,
         asked'[h] \in {asked[h], None},
         ~closing /\ pc'[h] = "saying" => what'[h] \subseteq answered'
  PROVE  FateInv'
<1>a. UNCHANGED <<buffer, flush, stranded>>
  BY DEF inbox
<1>1. Texts(buffer') \subseteq heard
  BY <1>a DEF FateInv, KnownInv
<1>2. what'[h] \cup Texts(rest'[h]) \subseteq heard /\ (asked'[h] # None => asked'[h] \subseteq heard)
  BY DEF FateInv, KnownInv
<1>3. \A g \in Handler \ {h} : rest'[g] = rest[g]
  OBVIOUS
<1>4. ~closing /\ (flush \/ stranded) => (flush' \/ stranded') /\ Texts(buffer) \subseteq Texts(buffer')
  BY <1>a
<1>5. ~closing => Texts(rest[h]) \subseteq Texts(rest'[h]) \cup IF flush' THEN Texts(buffer') ELSE {}
  OBVIOUS
<1> QED
  BY <1>1, <1>2, <1>3, <1>4, <1>5, HandlerFate

\* A handler that ends, done with its transcript or putting it back into the buffer.
LEMMA LeavingFate ==
  ASSUME TypeInv, TypeInv', FateInv, NEW h \in Handler, NEW before \in Seq(Transcript),
         LeaveWith(h, before), Texts(buffer) \subseteq Texts(before), Texts(before) \subseteq heard,
         flush \/ rest[h] # <<>> => closing \/ flush', stranded' = (stranded /\ ~flush'),
         UNCHANGED <<closing, heard, recent, pending>>,
         answered \subseteq answered', dismissed \subseteq dismissed', spared \subseteq spared',
         canceled' = canceled \ {h},
         ~closing => what[h] \subseteq Settled'
  PROVE  FateInv'
<1>1. /\ Texts(buffer') = Texts(before) \cup IF closing THEN {} ELSE Texts(rest[h])
      /\ pc'[h] = "idle" /\ what'[h] = {} /\ rest'[h] = <<>> /\ asked'[h] = None
      /\ \A g \in Handler \ {h} : pc'[g] = pc[g] /\ what'[g] = what[g] /\ rest'[g] = rest[g]
                                  /\ asked'[g] = asked[g]
  BY LeaveTypes
<1>2. Texts(rest[h]) \subseteq heard /\ (pending' # None => pending' \subseteq heard)
  BY DEF FateInv, KnownInv
<1>3. Texts(buffer') \subseteq heard /\ Texts(buffer) \subseteq Texts(buffer')
  BY <1>1, <1>2
<1>4. Texts(rest'[h]) = {}
  BY <1>1, TextsOfNone
<1>5. ~closing => Texts(rest[h]) \subseteq Texts(rest'[h]) \cup IF flush' THEN Texts(buffer') ELSE {}
  <2>1. CASE rest[h] = <<>>
    BY <2>1, TextsOfNone
  <2>2. CASE rest[h] # <<>>
    BY <1>1, <2>2
  <2> QED
    BY <2>1, <2>2
<1>6. what'[h] \cup Texts(rest'[h]) \subseteq heard
  BY <1>1, <1>4
<1>7. ~closing /\ (flush \/ stranded) => flush' \/ stranded'
  OBVIOUS
<1> QED
  BY <1>1, <1>2, <1>3, <1>5, <1>6, <1>7, HandlerFate

\* A step that gives no delegation another phase or transcript: what is canceled is
\* given up.
LEMMA CancelFate ==
  ASSUME TypeInv, CanceledInv, dismissed \subseteq dismissed', canceled' \in {canceled, canceled \cup Running},
         canceled' # canceled => \A h \in Running : what[h] \subseteq dismissed',
         \A h \in Handler : IF pc[h] = "idle" THEN pc'[h] # "aborted"
                            ELSE pc'[h] = pc[h] /\ what'[h] = what[h]
  PROVE  CanceledInv'
<1>1. \A h \in canceled' : h \in canceled \/ (h \in Running /\ what[h] \subseteq dismissed')
  OBVIOUS
<1>2. \A h \in canceled : h \in Handler /\ pc[h] # "idle"
  BY DEF TypeInv, TypeOK, CanceledInv, Delegating
<1>3. \A h \in Running : h \in Handler /\ pc[h] \in Delegating /\ pc[h] # "idle"
  BY DEF Running, Delegating
<1>4. \A h \in canceled' : pc'[h] \in Delegating \cup {"aborted"} /\ what'[h] \subseteq dismissed'
  BY <1>1, <1>2, <1>3 DEF CanceledInv
<1>5. \A h \in Handler : pc'[h] = "aborted" => h \in canceled'
  BY DEF CanceledInv
<1> QED
  BY <1>4, <1>5 DEF CanceledInv

\* A turn of the caller is buffered for the next flush, unless it repeats the last or
\* has no key either.
LEMMA TurnFate ==
  ASSUME TypeInv, TypeInv', FateInv, NEW t \in Text, Turn(t) PROVE FateInv'
<1> DEFINE repeats == buffer # <<>> /\ (Last(buffer) = {t} \/ Last(buffer) \cup {t} \subseteq Keyless)
<1>1. /\ ~closing /\ heard' = heard \cup {t}
      /\ buffer' = IF repeats THEN buffer ELSE Append(buffer, {t})
      /\ flush' = ~repeats /\ stranded' = repeats
      /\ UNCHANGED <<closing, recent, pending, canceled, pc, what, rest, asked, answered, dismissed, spared>>
  BY DEF Turn, control, local
<1>2. buffer \in Seq(Transcript) /\ {t} \in Transcript
  BY Transcripts DEF TypeInv, TypeOK
<1>3. Texts(Append(buffer, {t})) = Texts(buffer) \cup {t}
  BY <1>2, TextsOfAppend
<1>4. repeats => t \in Texts(buffer) \cup Keyless
  <2>1. buffer # <<>> => Last(buffer) \in ToSet(buffer)
    BY <1>2 DEF Last, ToSet
  <2> QED
    BY <2>1 DEF Texts
<1> HIDE DEF repeats
<1>5. CanceledInv'
  BY <1>1, CancelFate DEF FateInv
<1>6. KnownInv'
  <2>1. Texts(buffer)' = Texts(buffer') /\ \A h \in Handler : Texts(rest[h])' = Texts(rest[h])
    BY <1>1 DEF Texts, ToSet
  <2> QED
    BY <1>1, <1>3, <2>1 DEF FateInv, KnownInv
<1>7. SaidInv' /\ RecentInv'
  BY <1>1 DEF FateInv, SaidInv, RecentInv, Settled
<1>8. OnlySparedTurnsAreSilent'
  <2> SUFFICES ASSUME NEW u \in (heard \cup {t}) \ Keyless PROVE Waits(u)' \/ u \in Settled'
    BY <1>1 DEF OnlySparedTurnsAreSilent, Settled, Waits
  <2>1. flush' \/ stranded'
    BY <1>1
  <2>2. u = t \/ Waits(u) \/ u \in Settled
    BY <1>1, SilentWaits DEF FateInv
  <2>3. Settled \subseteq Settled'
    BY <1>1 DEF Settled
  <2>4. Texts(buffer) \subseteq Texts(buffer') /\ t \in Texts(buffer') \cup Keyless
    BY <1>1, <1>3, <1>4
  <2> QED
    BY <1>1, <2>1, <2>2, <2>3, <2>4, WaitsTexts, WaitsTextsNext
<1> QED
  BY <1>5, <1>6, <1>7, <1>8 DEF FateInv

\* A turn without words strands the buffer.
LEMMA EmptyTurnFate ==
  ASSUME TypeInv, FateInv, EmptyTurn PROVE FateInv'
<1>1. /\ stranded' = (buffer # <<>>)
      /\ UNCHANGED <<closing, buffer, recent, pending, canceled, pc, what, rest, asked,
                     heard, answered, dismissed, spared>>
  BY DEF EmptyTurn, control, local, history
<1>2. CanceledInv' /\ SaidInv' /\ RecentInv'
  BY <1>1 DEF FateInv, CanceledInv, SaidInv, RecentInv, Settled
<1>3. Texts(buffer') = Texts(buffer) /\ \A h \in Handler : Texts(rest'[h]) = Texts(rest[h])
  BY <1>1
<1>4. KnownInv'
  <2>1. Texts(buffer)' = Texts(buffer') /\ \A h \in Handler : Texts(rest[h])' = Texts(rest'[h])
    BY DEF Texts, ToSet
  <2> QED
    BY <1>1, <1>3, <2>1 DEF FateInv, KnownInv
<1>5. OnlySparedTurnsAreSilent'
  <2> SUFFICES ASSUME ~closing, NEW t \in heard \ Keyless PROVE Waits(t)' \/ t \in Settled'
    BY <1>1 DEF OnlySparedTurnsAreSilent, Settled, Waits
  <2>1. Waits(t) \/ t \in Settled
    BY SilentWaits DEF FateInv
  <2>2. t \in Texts(buffer) => stranded'
    BY <1>1, TextsOfNone
  <2>3. Settled' = Settled
    BY <1>1 DEF Settled
  <2> QED
    BY <1>1, <1>3, <2>1, <2>2, <2>3, WaitsTexts, WaitsTextsNext
<1> QED
  BY <1>2, <1>4, <1>5 DEF FateInv

\* A flush that finds no fragment drops what has no key.
LEMMA NothingFate ==
  ASSUME TypeInv, FateInv, NEW h \in Handler, Flush(h), HandleNothing, Texts(buffer) \subseteq Keyless
  PROVE  FateInv'
<1>1. /\ buffer' = <<>>
      /\ UNCHANGED <<closing, recent, pending, canceled, pc, what, rest, asked,
                     heard, answered, dismissed, spared>>
  BY DEF HandleNothing, Flush, session, local, history
<1>2. CanceledInv' /\ SaidInv' /\ RecentInv'
  BY <1>1 DEF FateInv, CanceledInv, SaidInv, RecentInv, Settled
<1>3. Texts(buffer') = {} /\ \A g \in Handler : Texts(rest'[g]) = Texts(rest[g])
  BY <1>1, TextsOfNone
<1>4. KnownInv'
  <2>1. Texts(buffer)' = Texts(buffer') /\ \A g \in Handler : Texts(rest[g])' = Texts(rest'[g])
    BY DEF Texts, ToSet
  <2> QED
    BY <1>1, <1>3, <2>1 DEF FateInv, KnownInv
<1>5. OnlySparedTurnsAreSilent'
  <2> SUFFICES ASSUME ~closing, NEW t \in heard \ Keyless PROVE Waits(t)' \/ t \in Settled'
    BY <1>1 DEF OnlySparedTurnsAreSilent, Settled, Waits
  <2>1. Waits(t) \/ t \in Settled
    BY SilentWaits DEF FateInv
  <2>2. Settled' = Settled
    BY <1>1 DEF Settled
  <2> QED
    BY <1>1, <1>3, <2>1, <2>2, WaitsTexts, WaitsTextsNext
<1> QED
  BY <1>2, <1>4, <1>5 DEF FateInv

\* A flush that divides what is buffered.
LEMMA DivisionFate ==
  ASSUME TypeInv, TypeInv', FateInv, NEW h \in Handler, Flush(h),
         NEW transcript \in Transcript, NEW left \in Seq(Transcript), NEW omitted \in SUBSET Text,
         Divided(transcript, left, omitted), Superseding, Fates(h, transcript, left, omitted)
  PROVE  FateInv'
<1>2. /\ flush /\ pc[h] = "idle" /\ what[h] = {} /\ rest[h] = <<>>
      /\ UNCHANGED <<closing, heard, stranded>>
  BY DEF Flush, session, TypeInv, BusyInv
<1>3. pc \in [Handler -> Phases] /\ what \in [Handler -> SUBSET Text]
      /\ rest \in [Handler -> Seq(Transcript)] /\ asked \in [Handler -> (SUBSET Text) \cup {None}]
  BY DEF TypeInv, TypeOK, Phases
<1>4. dismissed \subseteq dismissed' /\ canceled' \in {canceled, canceled \cup Running}
      /\ (canceled' # canceled => \A g \in Running : what[g] \subseteq dismissed')
      /\ pending' \in {pending, None}
  BY DEF Superseding, CancelActive
<1>5. answered \subseteq answered' /\ omitted \subseteq spared' /\ spared \subseteq spared'
  BY DEF Fates, Works, Duplicates, HandleMergedCancellation
<1>6. Settled \subseteq Settled' /\ omitted \subseteq Settled'
  BY <1>4, <1>5 DEF Settled
<1>7. /\ \A g \in Handler \ {h} : pc'[g] = pc[g] /\ what'[g] = what[g] /\ rest'[g] = rest[g]
                                  /\ asked'[g] = asked[g]
      /\ asked'[h] \in {asked[h], pending'}
      /\ pc'[h] \in {"idle", "deciding", "relating", "saying"}
  BY <1>2, <1>3 DEF Fates, Works, Duplicates, SkipDuplicate, HandleMergedCancellation, Take, GoTo, local
<1>8. CanceledInv'
  BY <1>2, <1>4, <1>7, CancelFate DEF FateInv
<1>9. \/ /\ buffer' = left /\ what'[h] = {} /\ rest'[h] = <<>> /\ recent' \subseteq recent /\ pc'[h] = "idle"
         /\ transcript \in recent \/ transcript \subseteq spared'
         /\ flush' = (left # <<>>)
      \/ /\ buffer' = <<>> /\ what'[h] = transcript /\ rest'[h] = left
         /\ recent' \subseteq recent \cup {transcript, Canned}
         /\ pc'[h] = "saying" => transcript \subseteq answered'
  <2>1. CASE Duplicates(transcript, left, omitted)
    BY <1>2, <2>1 DEF Duplicates, SkipDuplicate, local
  <2>2. CASE Works(h, transcript, left, omitted)
    <3>1. pc'[h] # "saying"
      BY <1>3, <2>2 DEF Works, GoTo
    <3> QED
      BY <1>3, <2>2, <3>1 DEF Works, Take
  <2>3. CASE HandleMergedCancellation(h, transcript, left, omitted)
    BY <1>3, <2>3 DEF HandleMergedCancellation, Take
  <2> QED
    BY <2>1, <2>2, <2>3 DEF Fates
<1>10. KnownInv'
  <2>1. UNCHANGED heard /\ Texts(buffer)' = Texts(buffer')
        /\ \A g \in Handler : Texts(rest[g])' = Texts(rest'[g])
    BY <1>2 DEF Texts, ToSet
  <2>2. Texts(buffer) \subseteq heard /\ (pending' # None => pending' \subseteq heard)
    BY <1>4 DEF FateInv, KnownInv
  <2>a. transcript \subseteq heard /\ Texts(left) \subseteq heard
    BY <2>2 DEF Divided
  <2>3. \A g \in Handler \ {h} : what'[g] \cup Texts(rest'[g]) \subseteq heard
    BY <1>7 DEF FateInv, KnownInv
  <2>b. what'[h] \cup Texts(rest'[h]) \subseteq heard /\ Texts(buffer') \subseteq heard
    BY <1>9, <2>a, TextsOfNone
  <2>4. \A g \in Handler : asked'[g] # None => asked'[g] \subseteq heard
    BY <1>7, <2>2 DEF FateInv, KnownInv
  <2> QED
    BY <2>1, <2>2, <2>3, <2>b, <2>4 DEF KnownInv
<1>11. SaidInv'
  <2>1. ASSUME ~closing, pc'[h] = "saying" PROVE what'[h] \subseteq answered'
    BY <1>9, <2>1
  <2> QED
    BY <1>2, <1>5, <1>7, <2>1 DEF FateInv, SaidInv
<1>12. ASSUME NEW t, \E g \in Handler : t \in what[g] PROVE \E g \in Handler : t \in what'[g]
  BY <1>2, <1>7, <1>12
<1>13. RecentInv'
  <2> SUFFICES ASSUME ~closing, NEW T \in recent', NEW t \in T
               PROVE  t \in Settled' \/ \E g \in Handler : t \in what'[g]
    BY <1>2 DEF RecentInv
  <2>1. CASE T \in recent
    BY <2>1, <1>6, <1>12 DEF FateInv, RecentInv
  <2>2. CASE T \notin recent
    BY <2>2, <1>9 DEF Canned
  <2> QED
    BY <2>1, <2>2
<1>14. OnlySparedTurnsAreSilent'
  <2> SUFFICES ASSUME ~closing, NEW t \in heard \ Keyless PROVE Waits(t)' \/ t \in Settled'
    BY <1>2 DEF OnlySparedTurnsAreSilent, Settled, Waits
  <2>1. Waits(t) \/ t \in Settled
    BY SilentWaits DEF FateInv
  <2>2. CASE t \in transcript
    <3>1. t \in Settled' \/ \E g \in Handler : t \in what'[g]
      BY <1>6, <1>9, <1>12, <2>2 DEF FateInv, RecentInv, Settled
    <3> QED
      BY <3>1, WaitsTextsNext
  <2>3. CASE t \in Texts(left)
    <3>1. left # <<>>
      BY <2>3, TextsOfNone
    <3> QED
      BY <1>9, <2>3, <3>1, WaitsTextsNext
  <2>4. CASE t \in omitted
    BY <1>6, <2>4
  <2>5. CASE \E g \in Handler : t \in what[g]
    BY <1>12, <2>5, WaitsTextsNext
  <2>6. CASE \E g \in Handler : t \in Texts(rest[g])
    BY <1>2, <1>7, <2>6, TextsOfNone, WaitsTextsNext
  <2>7. t \in Texts(buffer) => t \in transcript \cup Texts(left) \cup omitted
    BY DEF Divided
  <2> QED
    BY <1>6, <2>1, <2>2, <2>3, <2>4, <2>5, <2>6, <2>7, WaitsTexts
<1> QED
  BY <1>8, <1>10, <1>11, <1>13, <1>14 DEF FateInv

\* A flush hands one part of what is buffered to a handler, or finds it a duplicate of
\* what is in hand or done with; of the rest it leaves out what is spared for it.
LEMMA FlushFate ==
  ASSUME TypeInv, TypeInv', FateInv, NEW h \in Handler, Flush(h) PROVE FateInv'
<1>a. CASE HandleNothing /\ Texts(buffer) \subseteq Keyless
  BY <1>a, NothingFate
<1>b. CASE ~(HandleNothing /\ Texts(buffer) \subseteq Keyless)
  <2>1. PICK transcript \in Transcript, left \in Seq(Transcript), omitted \in SUBSET Text :
          Divided(transcript, left, omitted) /\ Superseding /\ Fates(h, transcript, left, omitted)
    BY <1>b, FlushCases
  <2> QED
    BY <2>1, DivisionFate
<1> QED
  BY <1>a, <1>b

\* No step loses what is not spared.
LEMMA FateStep == ReachInv /\ FateInv /\ [Next]_vars => FateInv'
<1> SUFFICES ASSUME ReachInv, FateInv, [Next]_vars PROVE FateInv'
  OBVIOUS
<1> USE DEF session, inbox, control, local, history
<1>a. TypeInv' /\ TypeInv /\ TypeOK /\ pc \in [Handler -> Phases]
  BY TypesStep DEF ReachInv, TypeInv, TypeOK, Phases
<1>b. /\ what \in [Handler -> SUBSET Text] /\ asked \in [Handler -> (SUBSET Text) \cup {None}]
      /\ buffer \in Seq(Transcript) /\ canceled \in SUBSET Handler /\ Texts(buffer) \subseteq heard
      /\ pending # None => pending \subseteq heard
  BY <1>a DEF TypeOK, FateInv, KnownInv
<1>c. Delegating = {"starting", "streaming"}
  BY DEF Delegating
<1>d. ASSUME NEW h \in Handler
      PROVE  /\ h \in canceled => pc[h] \in {"starting", "streaming", "aborted"}
             /\ pc[h] = "aborted" => h \in canceled /\ what[h] \subseteq dismissed
             /\ what[h] \subseteq heard
             /\ asked[h] # None => asked[h] \subseteq heard
             /\ pc[h] = "relating" => asked[h] # None
             /\ ~closing /\ pc[h] = "saying" => what[h] \subseteq answered
             /\ pc[h] # "idle" => what[h] \in Transcript
  BY <1>a, <1>c, Transcripts DEF FateInv, CanceledInv, KnownInv, SaidInv, TypeInv, TypeOK, BusyInv
<1>1. ASSUME NEW t \in Text, Turn(t) PROVE FateInv'
  BY <1>1, <1>a, TurnFate
<1>16. CASE EmptyTurn
  BY <1>16, <1>a, EmptyTurnFate
<1>2. ASSUME NEW h \in Handler, Flush(h) PROVE FateInv'
  BY <1>2, <1>a, FlushFate
<1>3. CASE CancelRequest
  <2>1. CanceledInv'
    <3>1. \A h \in Running : what[h] \subseteq dismissed'
      BY <1>3 DEF CancelRequest
    <3>2. \A h \in Handler : IF pc[h] = "idle" THEN pc'[h] # "aborted" ELSE pc'[h] = pc[h] /\ what'[h] = what[h]
      BY <1>3 DEF CancelRequest
    <3> QED
      BY <1>3, <1>a, <3>1, <3>2, CancelFate DEF CancelRequest, FateInv
  <2>2. Texts(buffer) \subseteq Settled' /\ Settled \subseteq Settled'
    BY <1>3 DEF CancelRequest, Settled, Texts
  <2>3. KnownInv'
    <3>1. Texts(buffer)' = {} /\ \A h \in Handler : Texts(rest[h])' = Texts(rest[h])
      BY <1>3 DEF CancelRequest, Texts, ToSet
    <3> QED
      BY <1>3, <3>1 DEF CancelRequest, FateInv, KnownInv
  <2>4. SaidInv'
    BY <1>3 DEF CancelRequest, FateInv, SaidInv
  <2>5. RecentInv'
    BY <1>3, <2>2 DEF CancelRequest, FateInv, RecentInv
  <2>6. OnlySparedTurnsAreSilent'
    <3> SUFFICES ASSUME ~closing, NEW t \in heard \ Keyless PROVE Waits(t)' \/ t \in Settled'
      BY <1>3 DEF CancelRequest, OnlySparedTurnsAreSilent, Settled, Waits
    <3>1. Waits(t) \/ t \in Settled
      BY SilentWaits DEF FateInv
    <3>2. UNCHANGED <<what, rest>>
      BY <1>3 DEF CancelRequest
    <3> QED
      BY <2>2, <3>1, <3>2, WaitsTexts, WaitsTextsNext
  <2> QED
    BY <2>1, <2>3, <2>4, <2>5, <2>6 DEF FateInv
<1>4. CASE Shutdown
  <2>1. CanceledInv'
    <3>1. /\ dismissed' = dismissed \cup UNION {what[h] : h \in Running} /\ canceled' = canceled \cup Running
          /\ UNCHANGED <<pc, what>>
      BY <1>4 DEF Shutdown, CancelActive
    <3>2. \A h \in Running : what[h] \subseteq dismissed'
      BY <3>1
    <3>3. \A h \in Handler : IF pc[h] = "idle" THEN pc'[h] # "aborted" ELSE pc'[h] = pc[h] /\ what'[h] = what[h]
      BY <3>1
    <3> QED
      BY <1>a, <3>1, <3>2, <3>3, CancelFate DEF FateInv
  <2>2. KnownInv'
    BY <1>4 DEF Shutdown, FateInv, KnownInv, Texts, ToSet
  <2>3. closing'
    BY <1>4 DEF Shutdown
  <2> QED
    BY <2>1, <2>2, <2>3 DEF FateInv, SaidInv, RecentInv, OnlySparedTurnsAreSilent
<1>5. CASE UNCHANGED vars
  <2>1. /\ UNCHANGED <<closing, buffer, flush, stranded, pending, canceled, pc, what, rest, asked, heard, answered,
                       dismissed, spared>>
        /\ recent' \subseteq recent
    BY <1>5 DEF vars
  <2>2. CanceledInv' /\ SaidInv'
    BY <2>1 DEF FateInv, CanceledInv, SaidInv
  <2>3. KnownInv'
    BY <2>1 DEF FateInv, KnownInv, Texts, ToSet
  <2>4. RecentInv'
    BY <2>1 DEF FateInv, RecentInv, Settled
  <2>5. OnlySparedTurnsAreSilent'
    BY <2>1 DEF FateInv, OnlySparedTurnsAreSilent, InHand, ToSet
  <2> QED
    BY <2>2, <2>3, <2>4, <2>5 DEF FateInv
<1>6. ASSUME NEW h \in Handler, NEW p \in Phases \ {"aborted"}, pc' = [pc EXCEPT ![h] = p], h \notin canceled',
             canceled' \ {h} = canceled \ {h}, 
             \/ what' = what
             \/ asked[h] # None /\ what' = [what EXCEPT ![h] = @ \cup asked[h]],
             \/ asked' = asked
             \/ asked' = [asked EXCEPT ![h] = None],
             pending' # None => pending' \subseteq heard,
             UNCHANGED <<closing, heard, recent, inbox, rest, dismissed, spared>>,
             answered \subseteq answered', ~closing /\ p = "saying" => what'[h] \subseteq answered'
      PROVE  FateInv'
  <2>1. pc'[h] = p /\ \A g \in Handler \ {h} : pc'[g] = pc[g] /\ what'[g] = what[g] /\ asked'[g] = asked[g]
    BY <1>6, <1>a, <1>b
  <2>2. what[h] \subseteq what'[h] /\ what'[h] \subseteq heard /\ asked'[h] \in {asked[h], None}
    BY <1>6, <1>b, <1>d
  <2> QED
    BY <1>6, <1>a, <2>1, <2>2, GoingFate
<1>7. ASSUME NEW h \in Handler, Say(h), pc[h] # "idle"
      PROVE  /\ pc' = [pc EXCEPT ![h] = "saying"] /\ "saying" \in Phases \ {"aborted"}
             /\ UNCHANGED <<heard, dismissed, spared>>
             /\ answered \subseteq answered' /\ (~closing => what[h] \subseteq answered')
  BY <1>7 DEF Say, GoTo, Phases
<1>e. ASSUME NEW h \in Handler, pc[h] \in {"relating", "deciding", "locking"} PROVE h \notin canceled
  BY <1>d, <1>e
<1>8. ASSUME NEW h \in Handler, Relate(h) \/ LocalReply(h) \/ Ask(h) PROVE FateInv'
  <2>1. pc[h] \in {"relating", "deciding"} /\ h \notin canceled'
        /\ UNCHANGED <<closing, inbox, recent, canceled, rest>>
    BY <1>8, <1>e DEF Relate, Supersede, AnswerClarification, AskAgain, LocalReply, Ask
  <2>2. CASE Supersede(h)
    BY <1>6, <2>1, <2>2 DEF Supersede, GoTo, Phases
  <2>3. CASE AnswerClarification(h)
    BY <1>6, <1>d, <2>1, <2>3 DEF AnswerClarification, GoTo, Phases
  <2>4. CASE LocalReply(h)
    BY <1>6, <1>7, <1>b, <2>1, <2>4 DEF LocalReply
  <2>5. CASE AskAgain(h)
    <3>1. pending' # None => pending' \subseteq heard
      BY <1>b, <1>d, <2>5 DEF AskAgain
    <3> QED
      BY <1>6, <1>7, <2>1, <2>5, <3>1 DEF AskAgain
  <2>6. CASE Ask(h)
    <3>1. pending' # None => pending' \subseteq heard
      BY <1>d, <2>6 DEF Ask
    <3> QED
      BY <1>6, <1>7, <2>1, <2>6, <3>1 DEF Ask
  <2> QED
    BY <1>8, <2>2, <2>3, <2>4, <2>5, <2>6 DEF Relate
<1>f. ASSUME NEW h \in Handler, Leave(h)
      PROVE  /\ LeaveWith(h, buffer) /\ (flush \/ rest[h] # <<>> => closing \/ flush')
             /\ stranded' = (stranded /\ ~flush')
  BY <1>f DEF Leave
<1>9. ASSUME NEW h \in Handler, Leave(h), UNCHANGED <<closing, heard, recent, pending, answered, spared>>,
             dismissed \subseteq dismissed', canceled' = canceled \ {h},
             ~closing => what[h] \subseteq answered \cup dismissed'
      PROVE  FateInv'
  <2>1. ~closing => what[h] \subseteq Settled'
    BY <1>9 DEF Settled
  <2> QED
    BY <1>9, <1>a, <1>b, <1>f, <2>1, LeavingFate
<1>10. ASSUME NEW h \in Handler, Said(h) \/ Ignore(h) \/ AcquireTooLate(h) PROVE FateInv'
  <2>1. h \notin canceled /\ Leave(h) /\ UNCHANGED <<closing, heard, recent, pending, answered, spared, canceled>>
    BY <1>10, <1>d DEF Said, Ignore, AcquireTooLate
  <2>2. dismissed \subseteq dismissed' /\ (~closing => what[h] \subseteq answered \cup dismissed')
    BY <1>10, <1>d DEF Said, Ignore, AcquireTooLate
  <2> QED
    BY <1>9, <2>1, <2>2
<1>11. ASSUME NEW h \in Handler, Defer(h) PROVE FateInv'
  <2>1. /\ pc[h] = "deciding" /\ LeaveWith(h, <<what[h]>> \o buffer) /\ flush' = ~closing
        /\ stranded' = (stranded /\ ~flush')
        /\ spared' = spared \cup what[h] /\ canceled' = canceled
        /\ UNCHANGED <<closing, heard, recent, pending, answered, dismissed>>
    BY <1>11 DEF Defer
  <2>2. what[h] \in Transcript
    BY <1>d, <2>1
  <2>3. /\ <<what[h]>> \o buffer \in Seq(Transcript)
        /\ Texts(<<what[h]>> \o buffer) = what[h] \cup Texts(buffer)
    <3>1. <<what[h]>> \in Seq(Transcript) /\ Texts(<<what[h]>>) = what[h]
      BY <2>2, TextsOfAppend, TextsOfNone
    <3> QED
      BY <1>b, <3>1, TextsOfConcat
  <2>4. what[h] \subseteq Settled'
    BY <2>1 DEF Settled
  <2>5. h \notin canceled
    BY <1>e, <2>1
  <2> QED
    BY <1>a, <1>b, <1>d, <2>1, <2>3, <2>4, <2>5, LeavingFate
<1>12. ASSUME NEW h \in Handler, Accept(h) \/ Acquire(h) \/ Connect(h) \/ ConnectFails(h) \/ HostEnds(h)
       PROVE  FateInv'
  <2>1. /\ \E p \in {"locking", "starting", "streaming", "resolved"} : pc' = [pc EXCEPT ![h] = p]
        /\ UNCHANGED <<session, inbox, recent, pending, canceled, local, history>>
    BY <1>12 DEF Accept, Acquire, Connect, ConnectFails, HostEnds, Resolve, GoTo
  <2>2. h \notin canceled
    BY <1>12, <1>e DEF Accept, Acquire, Connect, ConnectFails, HostEnds, Resolve
  <2>3. {"locking", "starting", "streaming", "resolved"} \subseteq Phases \ {"aborted"}
    BY DEF Phases, Holding, Delegating
  <2> QED
    BY <1>6, <1>b, <2>1, <2>2, <2>3
<1>13. ASSUME NEW h \in Handler, Abort(h) PROVE FateInv'
  <2>1. /\ h \in canceled /\ pc'[h] = "aborted" /\ \A g \in Handler \ {h} : pc'[g] = pc[g]
        /\ UNCHANGED <<session, inbox, recent, pending, canceled, local, history>>
    BY <1>13, <1>a DEF Abort, GoTo
  <2> QED
    BY <1>a, <1>b, <1>d, <2>1, GoingFate
<1>14. ASSUME NEW h \in Handler, Resume(h) PROVE FateInv'
  <2>1. /\ pc[h] \in {"resolved", "aborted"} /\ canceled' = canceled \ {h}
        /\ UNCHANGED <<session, recent, pending>>
    BY <1>14 DEF Resume
  <2>2. CASE pc[h] = "resolved" /\ ~closing
    <3>1. Say(h) /\ UNCHANGED <<inbox, local>>
      BY <1>14, <2>2 DEF Resume
    <3> QED
      BY <1>6, <1>7, <1>b, <2>1, <3>1
  <2>3. CASE ~(pc[h] = "resolved" /\ ~closing)
    <3>1. Leave(h) /\ UNCHANGED history
      BY <1>14, <2>3 DEF Resume
    <3> QED
      BY <1>9, <1>d, <2>1, <2>3, <3>1
  <2> QED
    BY <2>2, <2>3
<1>15. ASSUME NEW h \in Handler, Handle(h) PROVE FateInv'
  BY <1>8, <1>10, <1>11, <1>12, <1>13, <1>14, <1>15 DEF Handle, Decide, Delegate
<1> QED
  BY <1>1, <1>16, <1>2, <1>3, <1>4, <1>5, <1>12, <1>15 DEF Next, Caller

\* Nothing is said at first.
LEMMA FateInit == Init => FateInv
<1> SUFFICES ASSUME Init PROVE FateInv
  OBVIOUS
<1>1. /\ buffer = <<>> /\ pending = None /\ canceled = {} /\ heard = {} /\ recent = {}
      /\ \A h \in Handler : pc[h] = "idle" /\ what[h] = {} /\ rest[h] = <<>> /\ asked[h] = None
  BY DEF Init
<1>2. CanceledInv /\ SaidInv /\ RecentInv /\ OnlySparedTurnsAreSilent
  BY <1>1 DEF CanceledInv, SaidInv, RecentInv, OnlySparedTurnsAreSilent
<1>3. KnownInv
  BY <1>1, TextsOfNone DEF KnownInv
<1> QED
  BY <1>2, <1>3 DEF FateInv

\* Whatever is said waits for a flush, is handled, answered or dismissed, unless it has
\* no key, was deferred, was left out of a batch as filler or beside a correction,
\* asks for the same as a recent correction or transcript, or is in a buffer whose
\* flush an empty or repeated turn called off: nothing else is dropped, however turns,
\* decisions, corrections and cancellations overlap.
THEOREM SilentIsSpared == Spec => []OnlySparedTurnsAreSilent
<1>1. Init => ReachInv /\ FateInv
  BY ReachInit, FateInit
<1>2. ReachInv /\ FateInv /\ [Next]_vars => (ReachInv /\ FateInv)'
  BY ReachStep, FateStep
<1>3. ReachInv /\ FateInv => OnlySparedTurnsAreSilent
  BY DEF FateInv
<1> QED
  BY <1>1, <1>2, <1>3, PTL DEF Spec

====
