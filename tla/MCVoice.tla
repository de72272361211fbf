------------------------------- MODULE MCVoice -------------------------------
(* Small instances of the voice session.                                    *)
EXTENDS VoiceSession, TLC

\* The loop over the fragments of a flush keeps those that have a key it has not
\* seen: exactly the sequence UniqueFragments describes.
Unseen(s) ==
  FoldLeft(LAMBDA seen, T : IF T \subseteq Keyless \/ T \in ToSet(seen) THEN seen ELSE Append(seen, T),
           <<>>, s)
ASSUME UniqueIsUnseen ==
  \A n \in 0 .. 4 : \A s \in [1 .. n -> {{t} : t \in Text} \cup {Text}] : UniqueFragments(s) = {Unseen(s)}

=============================================================================
