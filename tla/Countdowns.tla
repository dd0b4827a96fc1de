----------------------------- MODULE Countdowns -----------------------------
(***************************************************************************)
(* What the task scheduler promises of delayed tasks: each has a countdown *)
(* of its own, all are counted down together, and a task is called at zero *)
(* in the order in which the tasks come due, the earlier scheduled first.  *)
(***************************************************************************)
EXTENDS Integers, Sequences

CONSTANTS Tokens,   \* what names a task; 0 names none
          Times     \* the delays, and the time that may pass at once

VARIABLES alarms,   \* the tasks that wait, next first: [token, left]
          called    \* the token of the task that is being called, 0 for none

vars == <<alarms, called>>

Larger(a, b) == IF a < b THEN b ELSE a

\* e passes: no countdown goes below zero.
Counted(s, e) ==
  [i \in DOMAIN s |-> [token |-> s[i].token, left |-> Larger(0, s[i].left - e)]]

\* How many tasks come due no later than one with the countdown d.
Before(s, d) == CHOOSE k \in 0..Len(s) : \A i \in DOMAIN s : (i <= k) <=> (s[i].left <= d)

Inserted(s, t, d) ==
  LET k == Before(s, d)
  IN  [i \in 1..Len(s) + 1 |->
         IF i <= k THEN s[i] ELSE IF i = k + 1 THEN [token |-> t, left |-> d] ELSE s[i - 1]]

Without(s, j) == [i \in 1..Len(s) - 1 |-> IF i < j THEN s[i] ELSE s[i + 1]]

Init == alarms = <<>> /\ called = 0

Pass(e) == alarms' = Counted(alarms, e) /\ UNCHANGED called

Schedule(t, d, e) ==
  /\ \A i \in DOMAIN alarms : alarms[i].token # t
  /\ alarms' = Inserted(Counted(alarms, e), t, d)
  /\ UNCHANGED called

Cancel(j) == alarms' = Without(alarms, j) /\ UNCHANGED called

Call(e) ==
  /\ called = 0
  /\ alarms # <<>>
  /\ Counted(alarms, e)[1].left = 0
  /\ alarms' = Without(Counted(alarms, e), 1)
  /\ called' = alarms[1].token

Return == called' = 0 /\ UNCHANGED alarms

Next == \/ \E e \in Times : Pass(e) \/ Call(e)
        \/ \E t \in Tokens, d, e \in Times : Schedule(t, d, e)
        \/ \E j \in DOMAIN alarms : Cancel(j)
        \/ Return

Spec == Init /\ [][Next]_vars
=============================================================================
