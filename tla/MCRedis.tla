------------------------------- MODULE MCRedis -------------------------------
(* Small instances of the Redis task store.                                *)
EXTENDS RedisTaskStore, TLC

CONSTANTS w1, w2, r1, r2

\* One reader replays; the other looks ahead or continues the task.
TwoModes  == r1 :> {"replay"} @@ r2 :> {"live", "after"}
FinalOnly == {"completed"}   \* artifacts are the events that end nothing
=============================================================================
