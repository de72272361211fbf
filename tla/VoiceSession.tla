---------------------------- MODULE VoiceSession ----------------------------
(***************************************************************************)
(* A voice call of livekit_voice/worker.py (Ka2aVoiceAgent): the buffer of *)
(* completed turns and its flush timer, the handlers of flushed            *)
(* transcripts, the clarification that is pending, the delegation to the   *)
(* host under its lock, cancellation and shutdown.                         *)
(*                                                                         *)
(* A transcript is the set of the texts it was merged from.  What it means *)
(* (a cancellation, a correction, filler, a request, a fragment, an answer *)
(* to the pending question) is worked out from its words or decided by the *)
(* decision service, and is open here.                                     *)
(***************************************************************************)
EXTENDS Integers, Sequences, FiniteSets, SequencesExt

CONSTANTS
  Text,        \* what the caller may say
  Keyless,     \* texts without a letter or digit of a-z, 0-9: their _transcript_key is empty
  Handler,     \* flushes whose transcript is being handled
  None,        \* no clarification pending, nobody delegating
  MaxTurns,    \* bound: turns of the caller
  MaxAttempts  \* KA2A_VOICE_DEFERRED_FRAGMENT_MAX_ATTEMPTS

ASSUME VoiceAssumption ==
  /\ None \notin Handler
  /\ Keyless \subseteq Text
  /\ MaxTurns \in Nat /\ MaxAttempts \in Nat \ {0}

Transcript == (SUBSET Text) \ {{}}

\* The keys of the requests that corrections are replaced by
\* (_voice_corrected_inventory_request).
Canned == {}

VARIABLES
  turns,      \* turns heard so far
  closing,    \* _closing
  buffer,     \* _transcript_buffer
  flush,      \* whether a flush sleeps (_transcript_flush_task)
  recent,     \* keys of _recent_transcript_keys
  attempts,   \* _deferred_fragment_attempts
  pending,    \* _pending_clarification: the request it is about
  lock,       \* _delegation_lock: its holder and those who wait for it
  active,     \* _active_delegation_task
  canceled,   \* delegations that were canceled and have not noticed yet
  pc,         \* handlers: phase
  what,       \* the transcript that is handled
  rest,       \* remaining_fragments
  asked,      \* the pending_clarification the handler found
  heard, answered, dismissed, spared,  \* history: the fate of each text
  stranded    \* history: the last turn called the flush off and left the buffer

session == <<turns, closing>>
inbox   == <<buffer, flush, stranded>>
control == <<lock, active, canceled>>
local   == <<what, rest, asked>>
history == <<heard, answered, dismissed, spared>>
vars == <<session, inbox, recent, attempts, pending, control, pc, local, history>>

Delegating == {"starting", "streaming"}
Holding    == Delegating \cup {"resolved", "aborted"}

GoTo(h, phase) == pc' = [pc EXCEPT ![h] = phase]

\* The registered delegation, unless it is done.
Running == {h \in Handler : active = h /\ pc[h] \in Delegating}

\* It is canceled, and what it was about given up.
CancelActive ==
  /\ canceled' = canceled \cup Running
  /\ dismissed' = dismissed \cup UNION {what[h] : h \in Running}

-----------------------------------------------------------------------------
(* The caller *)

\* on_user_turn_completed, then queue_final_user_transcript: the flush is called
\* off, and put off by a new one unless the turn repeats the last one buffered, as
\* any two turns without a key do.
Turn(t) ==
  /\ ~closing
  /\ turns < MaxTurns
  /\ turns' = turns + 1
  /\ heard' = heard \cup {t}
  /\ LET repeats == /\ buffer # <<>>
                    /\ Last(buffer) = {t} \/ Last(buffer) \cup {t} \subseteq Keyless
     IN /\ buffer' = IF repeats THEN buffer ELSE Append(buffer, {t})
        /\ flush' = ~repeats
        /\ stranded' = repeats
  /\ UNCHANGED <<closing, recent, attempts, pending, control, pc, local, answered, dismissed, spared>>

\* A turn without words calls the flush off and is not queued.
EmptyTurn ==
  /\ ~closing
  /\ turns < MaxTurns
  /\ turns' = turns + 1
  /\ flush' = FALSE
  /\ stranded' = (buffer # <<>>)
  /\ UNCHANGED <<closing, buffer, recent, attempts, pending, control, pc, local, history>>

\* A turn that asks to cancel: _cancel_voice_request.
CancelRequest ==
  /\ ~closing
  /\ turns < MaxTurns
  /\ turns' = turns + 1
  /\ buffer' = <<>>
  /\ flush' = FALSE
  /\ stranded' = FALSE
  /\ pending' = None
  /\ canceled' = canceled \cup Running
  /\ dismissed' = dismissed \cup (UNION ToSet(buffer)) \cup UNION {what[h] : h \in Running}
  /\ UNCHANGED <<closing, recent, attempts, lock, active, pc, local, heard, answered, spared>>

\* Mutant of Shutdown: the delegation under way is left to end by itself.
ShutdownWithoutCancel ==
  /\ ~closing
  /\ closing' = TRUE
  /\ flush' = FALSE
  /\ UNCHANGED <<turns, buffer, stranded, recent, attempts, pending, control, pc, local, history>>

\* _begin_shutdown: the caller left (_watch_caller_presence), or the session
\* ends (on_exit).
Shutdown ==
  /\ ~closing
  /\ closing' = TRUE
  /\ flush' = FALSE
  /\ CancelActive
  /\ UNCHANGED <<turns, buffer, stranded, recent, attempts, pending, lock, active, pc, local,
                 heard, answered, spared>>

-----------------------------------------------------------------------------
(* A flush and the handling of its transcript *)

\* The end of _flush_buffered_user_transcript: fragments that were not part of
\* the transcript are buffered again.
LeaveWith(h, before) ==
  LET again == ~closing /\ rest[h] # <<>>
      put   == IF again THEN rest[h] ELSE <<>>
  IN /\ buffer' = before \o put
     /\ GoTo(h, "idle")
     /\ what' = [what EXCEPT ![h] = {}]
     /\ rest' = [rest EXCEPT ![h] = <<>>]
     /\ asked' = [asked EXCEPT ![h] = None]

\* Mutant of Leave: the remaining fragments are forgotten.
LeaveNothing(h) ==
  /\ GoTo(h, "idle")
  /\ what' = [what EXCEPT ![h] = {}]
  /\ rest' = [rest EXCEPT ![h] = <<>>]
  /\ asked' = [asked EXCEPT ![h] = None]
  /\ UNCHANGED inbox

Leave(h) ==
  /\ LeaveWith(h, buffer)
  /\ flush' = (flush \/ (~closing /\ rest[h] # <<>>))
  /\ stranded' = (stranded /\ ~flush')

\* The fragments that have a key without their repetitions, in the order they were
\* said in first: one sequence, given by what it is and not by the loop that builds it.
UniqueFragments(s) ==
  {d \in UNION {[1 .. n -> ToSet(s)] : n \in 0 .. Len(s)} :
     /\ ToSet(d) = {T \in ToSet(s) : ~(T \subseteq Keyless)}
     /\ \A i, j \in DOMAIN d :
          i < j => \E k \in DOMAIN s : s[k] = d[i] /\ \A l \in 1 .. k : s[l] # d[j]}

\* The handler has the transcript, and what is left over for later.
Take(h, transcript, left) ==
  /\ buffer' = <<>>
  /\ flush' = FALSE
  /\ what' = [what EXCEPT ![h] = transcript]
  /\ rest' = [rest EXCEPT ![h] = left]

\* The transcript is a duplicate of a recent one: what is left over is buffered.
SkipDuplicate(left) ==
  /\ buffer' = left
  /\ flush' = (left # <<>>)
  /\ UNCHANGED <<pc, local>>

\* _mark_transcript_for_processing: keys whose window is over are forgotten, and a
\* transcript whose key is still there is a duplicate.  A correction has the key of
\* the request it is replaced by, which may be that of another correction or of a
\* transcript that asked for the same.
Mark(h, transcript, left, omitted, corrects) ==
  \E kept \in SUBSET recent :
    \/ /\ transcript \notin kept
       /\ Take(h, transcript, left)
       /\ recent' = kept \cup {IF corrects THEN Canned ELSE transcript}
       /\ asked' = [asked EXCEPT ![h] = pending']
       /\ GoTo(h, IF pending' = None THEN "deciding" ELSE "relating")
       /\ spared' = spared \cup omitted
    \/ /\ transcript \in kept
       /\ SkipDuplicate(left)
       /\ recent' = kept
       /\ spared' = spared \cup omitted
    \/ /\ Canned \in kept \/ (corrects /\ kept # {})
       /\ SkipDuplicate(left)
       /\ recent' = kept
       /\ spared' = spared \cup omitted \cup transcript

\* A fragment corrects what was said: its request is all that becomes of the batch.
\* The request no longer reads as a correction, and leaves the delegation alone.
HandleCorrection(h, fragments) ==
  /\ UNCHANGED <<pending, canceled, answered, dismissed>>
  /\ \E i \in DOMAIN fragments :
       Mark(h, fragments[i], <<>>, (UNION ToSet(fragments)) \ fragments[i], TRUE)

\* A transcript that reads as a correction as a whole supersedes what is under way.
HandleMergedCorrection(h, transcript, left, omitted) ==
  /\ CancelActive
  /\ pending' = None
  /\ Mark(h, transcript, left, omitted, TRUE)
  /\ UNCHANGED answered

\* One that reads as a cancellation as a whole: _cancel_voice_request.
HandleMergedCancellation(h, transcript, left, omitted) ==
  /\ CancelActive
  /\ pending' = None
  /\ Take(h, transcript, left)
  /\ GoTo(h, "saying")
  /\ answered' = answered \cup transcript
  /\ spared' = spared \cup omitted
  /\ UNCHANGED <<recent, asked>>

\* Leading filler is skipped, then fragments are merged as long as one completes
\* the other.
HandleBatch(h, fragments) ==
  \E last \in DOMAIN fragments : \E first \in 1 .. last :
    LET transcript == UNION {fragments[i] : i \in first .. last}
        left       == SubSeq(fragments, last + 1, Len(fragments))
        omitted    == UNION {fragments[i] : i \in 1 .. first - 1}
    IN \/ /\ UNCHANGED <<pending, canceled, answered, dismissed>>
          /\ Mark(h, transcript, left, omitted, FALSE)
       \/ /\ first < last
          /\ \/ HandleMergedCorrection(h, transcript, left, omitted)
             \/ HandleMergedCancellation(h, transcript, left, omitted)

\* No fragment has a key.
HandleNothing ==
  /\ buffer' = <<>>
  /\ flush' = FALSE
  /\ UNCHANGED <<recent, pending, canceled, pc, local, history>>

\* The sleep is over: the buffer is taken, and a transcript made of it.
Flush(h) ==
  /\ flush
  /\ pc[h] = "idle"
  /\ \E fragments \in UniqueFragments(buffer) :
       IF fragments = <<>>
       THEN HandleNothing
       ELSE HandleCorrection(h, fragments) \/ HandleBatch(h, fragments)
  /\ UNCHANGED <<session, stranded, attempts, lock, active, heard>>

\* The reply, the question or the result is said, unless the call is over.
Say(h) ==
  /\ GoTo(h, "saying")
  /\ answered' = IF closing THEN answered ELSE answered \cup what[h]
  /\ UNCHANGED <<heard, dismissed, spared>>

Said(h) ==
  /\ pc[h] = "saying"
  /\ Leave(h)
  /\ UNCHANGED <<session, recent, attempts, pending, control, history>>

\* A reply without the host (status, repetition, greeting), or the excuse for an
\* exception while the transcript was handled.
LocalReply(h) ==
  /\ pc[h] \in {"relating", "deciding"}
  /\ asked' = [asked EXCEPT ![h] = None]
  /\ Say(h)
  /\ UNCHANGED <<session, inbox, recent, attempts, pending, control, what, rest>>

\* The transcript is a request of its own and supersedes the pending question.
Supersede(h) ==
  /\ pc[h] = "relating"
  /\ pending' = None
  /\ asked' = [asked EXCEPT ![h] = None]
  /\ GoTo(h, "deciding")
  /\ UNCHANGED <<session, inbox, recent, attempts, control, what, rest, history>>

\* It answers the question the handler found pending and is merged into its request.
AnswerClarification(h) ==
  /\ pc[h] = "relating"
  /\ pending' = None
  /\ what' = [what EXCEPT ![h] = @ \cup asked[h]]
  /\ asked' = [asked EXCEPT ![h] = None]
  /\ GoTo(h, "deciding")
  /\ UNCHANGED <<session, inbox, recent, attempts, control, rest, history>>

\* It does not settle the question, which is asked again: as it was, to confirm
\* the merged request, or from the start.
AskAgain(h) ==
  /\ pc[h] = "relating"
  /\ pending' \in {pending, what[h] \cup asked[h], {}}
  /\ asked' = [asked EXCEPT ![h] = None]
  /\ Say(h)
  /\ UNCHANGED <<session, inbox, recent, attempts, control, what, rest>>

\* wait_for_more_speech: the fragment goes back to the head of the buffer.
Defer(h) ==
  /\ pc[h] = "deciding"
  /\ attempts[what[h]] < MaxAttempts
  /\ attempts' = [attempts EXCEPT ![what[h]] = @ + 1]
  /\ LeaveWith(h, <<what[h]>> \o buffer)
  /\ flush' = ~closing
  /\ stranded' = (stranded /\ ~flush')
  /\ spared' = spared \cup what[h]
  /\ UNCHANGED <<session, recent, pending, control, heard, answered, dismissed>>

\* A clarification is asked for.
Ask(h) ==
  /\ pc[h] = "deciding"
  /\ pending' = what[h]
  /\ Say(h)
  /\ UNCHANGED <<session, inbox, recent, attempts, control, local>>

\* The transcript is not a request after all (_should_delegate_voice_transcript).
Ignore(h) ==
  /\ pc[h] = "deciding"
  /\ attempts' = [attempts EXCEPT ![what[h]] = 0]
  /\ dismissed' = dismissed \cup what[h]
  /\ Leave(h)
  /\ UNCHANGED <<session, recent, pending, control, heard, answered, spared>>

\* delegate_to_host: the handler waits for the lock.
Accept(h) ==
  /\ pc[h] = "deciding"
  /\ attempts' = [attempts EXCEPT ![what[h]] = 0]
  /\ lock' = Append(lock, h)
  /\ GoTo(h, "locking")
  /\ UNCHANGED <<session, inbox, recent, pending, active, canceled, local, history>>

-----------------------------------------------------------------------------
(* The delegation *)

\* Mutant of Acquire: the delegation begins without the lock.
AcquireWithoutLock(h) ==
  /\ pc[h] = "locking"
  /\ ~closing
  /\ GoTo(h, "starting")
  /\ active' = h
  /\ UNCHANGED <<session, inbox, recent, attempts, pending, lock, canceled, local, history>>

Acquire(h) ==
  /\ pc[h] = "locking"
  /\ Head(lock) = h
  /\ ~closing
  /\ GoTo(h, "starting")
  /\ active' = h
  /\ UNCHANGED <<session, inbox, recent, attempts, pending, lock, canceled, local, history>>

\* The lock is free when the call is over.
AcquireTooLate(h) ==
  /\ pc[h] = "locking"
  /\ Head(lock) = h
  /\ closing
  /\ lock' = Tail(lock)
  /\ Leave(h)
  /\ UNCHANGED <<session, recent, attempts, pending, active, canceled, history>>

\* _ensure_client returned; the message goes to the host.
Connect(h) ==
  /\ pc[h] = "starting"
  /\ h \notin canceled
  /\ ~closing
  /\ GoTo(h, "streaming")
  /\ UNCHANGED <<session, inbox, recent, attempts, pending, control, local, history>>

\* The client did not start, or the host's stream ended, well or not: the
\* delegation returns a text either way.
Resolve(h, phase) ==
  /\ pc[h] = phase
  /\ h \notin canceled
  /\ GoTo(h, "resolved")
  /\ UNCHANGED <<session, inbox, recent, attempts, pending, control, local, history>>

ConnectFails(h) == Resolve(h, "starting")
HostEnds(h)     == Resolve(h, "streaming")

\* CancelledError in _delegate_to_host.
Abort(h) ==
  /\ pc[h] \in Delegating
  /\ h \in canceled
  /\ GoTo(h, "aborted")
  /\ UNCHANGED <<session, inbox, recent, attempts, pending, control, local, history>>

\* Mutant of Resume: a cancelled delegation keeps the lock.
ResumeLocked(h) ==
  /\ pc[h] \in {"resolved", "aborted"}
  /\ active' = None
  /\ canceled' = canceled \ {h}
  /\ lock' = IF pc[h] = "resolved" THEN Tail(lock) ELSE lock
  /\ IF pc[h] = "resolved" /\ ~closing
     THEN Say(h) /\ UNCHANGED <<inbox, local>>
     ELSE Leave(h) /\ UNCHANGED history
  /\ UNCHANGED <<session, recent, attempts, pending>>

\* The handler goes on behind its delegation: the active task is cleared, the
\* lock released, a result said.
Resume(h) ==
  /\ pc[h] \in {"resolved", "aborted"}
  /\ active' = None
  /\ canceled' = canceled \ {h}
  /\ lock' = Tail(lock)
  /\ IF pc[h] = "resolved" /\ ~closing
     THEN Say(h) /\ UNCHANGED <<inbox, local>>
     ELSE Leave(h) /\ UNCHANGED history
  /\ UNCHANGED <<session, recent, attempts, pending>>

-----------------------------------------------------------------------------
Init ==
  /\ turns = 0 /\ closing = FALSE
  /\ buffer = <<>> /\ flush = FALSE /\ stranded = FALSE
  /\ recent = {} /\ attempts = [T \in Transcript |-> 0] /\ pending = None
  /\ lock = <<>> /\ active = None /\ canceled = {}
  /\ pc = [h \in Handler |-> "idle"]
  /\ what = [h \in Handler |-> {}] /\ rest = [h \in Handler |-> <<>>]
  /\ asked = [h \in Handler |-> None]
  /\ heard = {} /\ answered = {} /\ dismissed = {} /\ spared = {}

Caller == (\E t \in Text : Turn(t)) \/ EmptyTurn \/ CancelRequest \/ Shutdown

Relate(h)   == LocalReply(h) \/ Supersede(h) \/ AnswerClarification(h) \/ AskAgain(h)
Decide(h)   == LocalReply(h) \/ Defer(h) \/ Ask(h) \/ Ignore(h) \/ Accept(h)
Delegate(h) == Acquire(h) \/ AcquireTooLate(h) \/ Connect(h) \/ ConnectFails(h) \/ Abort(h) \/ Resume(h)

Handle(h) == Relate(h) \/ Decide(h) \/ Said(h) \/ Delegate(h)

Next == Caller \/ (\E h \in Handler : Flush(h) \/ Handle(h) \/ HostEnds(h))

Spec == Init /\ [][Next]_vars

\* Decisions and speech end, the event loop is fair.  The host is not part of it: its
\* stream has no time limit.
FairSpec == Spec /\ \A h \in Handler : WF_vars(Handle(h))

-----------------------------------------------------------------------------
(* Properties *)

\* The variables have their types.
TypeOK ==
  /\ turns \in 0 .. MaxTurns /\ closing \in BOOLEAN
  /\ buffer \in Seq(Transcript) /\ flush \in BOOLEAN /\ stranded \in BOOLEAN
  /\ recent \in SUBSET SUBSET Text /\ attempts \in [Transcript -> 0 .. MaxAttempts]
  /\ pending \in (SUBSET Text) \cup {None}
  /\ lock \in Seq(Handler) /\ active \in Handler \cup {None} /\ canceled \in SUBSET Handler
  /\ pc \in [Handler -> {"idle", "relating", "deciding", "locking", "saying"} \cup Holding]
  /\ what \in [Handler -> SUBSET Text] /\ rest \in [Handler -> Seq(Transcript)]
  /\ asked \in [Handler -> (SUBSET Text) \cup {None}]
  /\ heard \in SUBSET Text /\ answered \in SUBSET Text
  /\ dismissed \in SUBSET Text /\ spared \in SUBSET Text

\* The delegation that is under way is the only one and the registered one, and
\* none is registered that is over: a cancellation reaches the work the host does
\* and nothing else (_delegation_lock, _active_delegation_task).
HostWorkIsReachable ==
  \A h \in Handler : pc[h] \in Holding <=> active = h

\* What becomes of a text that was heard: it waits for a flush, is handled, was
\* answered (by a result, a reply or a question), or dismissed: cancelled or
\* corrected by the caller, or found to be no request.
InHand(t) ==
  \/ flush /\ t \in UNION ToSet(buffer)
  \/ \E h \in Handler : t \in what[h] \cup UNION ToSet(rest[h])

\* No completed speech is dropped ("Preserve the no-silent-turn guarantee for any
\* non-empty final transcript").
NoSilentTurn ==
  ~closing => \A t \in heard : InHand(t) \/ t \in answered \cup dismissed

\* No text is dropped but, whatever turns, decisions, corrections and cancellations
\* overlap,
\*   - one without a key;
\*   - one that was sent back to wait for more speech;
\*   - filler at the head of a batch, and what is batched with a correction;
\*   - one that asks for the same as a recent correction, or a correction that asks
\*     for the same as a recent transcript;
\*   - one in a buffer whose flush an empty turn or a repetition called off, and that
\*     only until a flush is scheduled again.
OnlySparedTurnsAreSilent ==
  ~closing => \A t \in heard \ Keyless :
                \/ InHand(t) \/ t \in answered \cup dismissed \cup spared
                \/ stranded /\ t \in UNION ToSet(buffer)

\* Once the call is over every handler ends, though the host may never answer
\* (_begin_shutdown cancels the delegation; the others look at _closing).
ShutdownEndsWork == closing ~> (\A h \in Handler : pc[h] = "idle")

\* If the host ends what it is asked, every transcript is handled to its end: no
\* cancelled, failed or late delegation keeps the lock from those that wait.
HostAnswers == \A h \in Handler : WF_vars(HostEnds(h))
TurnsEnd == HostAnswers => \A h \in Handler : (pc[h] # "idle") ~> (pc[h] = "idle")
=============================================================================
