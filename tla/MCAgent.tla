------------------------------- MODULE MCAgent -------------------------------
(* Instances of AgentRuntime for TLC: r1 creates the task the others act on. *)
EXTENDS AgentInvariants

CONSTANTS r1, r2, r3

ByFirst(creating, later) == [r \in Req |-> IF r = r1 THEN creating ELSE later]

\* Every kind of request: one task and one further request.
EveryKind == ByFirst(Creators, AllKinds \ Creators)
\* One task, opened with or without a stream, then resumed twice, or resumed and
\* canceled in either order.
ResumeKinds == [r \in Req |-> CASE r = r1 -> {"send", "stream"}
                                [] r = r2 -> {"continueStream", "cancel"}
                                [] OTHER  -> {"continueStream", "continue"}]
\* Two continues of one task.
OverlapKinds == ByFirst({"send"}, {"continue"})
=============================================================================
