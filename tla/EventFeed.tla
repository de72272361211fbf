------------------------------ MODULE EventFeed ------------------------------
(***************************************************************************)
(* What the task store and the stream forwarders promise together: every   *)
(* task has one append-only log of events, and a stream that watches it    *)
(* receives a gapless, duplicate-free, in-order window of that log, which  *)
(* may start at the first event after the task record or behind the log,   *)
(* and which ends with the first final status it carries.                  *)
(***************************************************************************)
EXTENDS Integers, Sequences

CONSTANTS Stream, Task, Event, Final(_)

VARIABLES log,       \* a task's events
          watch,     \* the task a stream watches, or none
          from,      \* the log position a stream starts at
          received   \* the events a stream has delivered

vars == <<log, watch, from, received>>

Init ==
  /\ log = [t \in Task |-> <<>>]
  /\ watch = [s \in Stream |-> {}]
  /\ from = [s \in Stream |-> 0]
  /\ received = [s \in Stream |-> <<>>]

Publish(t, e) ==
  /\ log' = [log EXCEPT ![t] = Append(@, e)]
  /\ UNCHANGED <<watch, from, received>>

Open(s, t, n) ==
  /\ watch[s] = {}
  /\ n \in 2 .. Len(log[t]) + 1
  /\ watch' = [watch EXCEPT ![s] = {t}]
  /\ from' = [from EXCEPT ![s] = n]
  /\ UNCHANGED <<log, received>>

Ended(s) == \E i \in DOMAIN received[s] : Final(received[s][i])

Deliver(s, t) ==
  LET n == from[s] + Len(received[s]) IN
  /\ watch[s] = {t}
  /\ ~Ended(s)
  /\ n <= Len(log[t])
  /\ received' = [received EXCEPT ![s] = Append(@, log[t][n])]
  /\ UNCHANGED <<log, watch, from>>

Next ==
  \/ \E t \in Task, e \in Event : Publish(t, e)
  \/ \E s \in Stream, t \in Task : Deliver(s, t) \/ \E n \in 2 .. Len(log[t]) + 1 : Open(s, t, n)

Spec == Init /\ [][Next]_vars
=============================================================================
