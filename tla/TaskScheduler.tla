--------------------------- MODULE TaskScheduler ----------------------------
(***************************************************************************)
(* The event loop of live555 (BasicTaskScheduler.cpp) and its delay queue  *)
(* (DelayQueue.cpp).  SingleStep looks at the clock, waits in select,      *)
(* calls the handler of one socket and then at most one task that is due.  *)
(* The delay queue is a list in which each entry holds the time between    *)
(* the entry before it and itself.  Its clock is the time of day, which    *)
(* may be set back.                                                        *)
(***************************************************************************)
EXTENDS Integers, Sequences

CONSTANTS Sockets,      \* the sockets a handler may be assigned to
          Delays,       \* the delays tasks are scheduled with
          Setbacks,     \* by how much the time of day is set back
          MaxLag,       \* bound: time between two looks at the clock
          MaxToken,     \* bound: tasks scheduled
          MaxSetbacks,  \* bound: how often the clock is set back
          MaxClears     \* bound: handlers removed

ASSUME SocketsAssumption == 0 \notin Sockets

ASSUME DelaysAssumption == Delays \subseteq Nat /\ Setbacks \subseteq Nat

ASSUME BoundAssumption ==
  /\ MaxLag \in Nat /\ MaxToken \in Nat
  /\ MaxSetbacks \in Nat /\ MaxClears \in Nat

VARIABLES
  queue,         \* the entries after the head: token, delta; real is the
                 \* time that has still to pass until the delay is over
  lag,           \* the time of day less fLastSyncTime
  tokenCounter,  \* DelayQueueEntry::tokenCounter
  pc,            \* where SingleStep is
  task,          \* the entry handleAlarm has removed and calls
  handlers,      \* fHandlers: the sockets with a handler, first to last
  lastHandled,   \* fLastHandledSocketNum, 0 for -1
  ready,         \* the sockets with a handler that select would report
  setbacks,      \* how often the clock was set back
  clears         \* how many handlers were removed

queueVars  == <<queue, lag>>
socketVars == <<handlers, lastHandled, ready, clears>>

vars == <<queueVars, tokenCounter, pc, task, socketVars, setbacks>>

NoTask == [token |-> 0, delta |-> 0, real |-> 0]

Larger(a, b) == IF a < b THEN b ELSE a

-----------------------------------------------------------------------------
(* The delay queue *)

\* The time until each entry is due: its delta and those before it.
Due(q) == LET due[i \in 0..Len(q)] ==
                IF i = 0 THEN 0 ELSE due[i - 1] + q[i].delta
          IN  due

\* How many entries the loops of addEntry and synchronize go past: on each
\* they take the entry's delta off t, and they stop at one that is larger.
\* The last to stop at is the queue itself, whose delta is ETERNITY.
Walk(q, t) ==
  CHOOSE k \in 0..Len(q) :
    /\ \A i \in 1..k : t - Due(q)[i - 1] >= q[i].delta
    /\ k < Len(q) => t - Due(q)[k] < q[k + 1].delta

\* The delta of entry i after t: those passed are 0, the next is the less.
DeltaAfter(q, t, i) ==
  LET k == Walk(q, t)
  IN  IF i <= k THEN 0 ELSE q[i].delta - (IF i = k + 1 THEN t - Due(q)[k] ELSE 0)

Consumed(q, t) ==
  [i \in DOMAIN q |-> [q[i] EXCEPT !.delta = DeltaAfter(q, t, i)]]

\* Mutant of Synchronized: the rest is not taken off the first that is left.
SynchronizedToEntry ==
  [i \in DOMAIN queue |->
     IF lag >= 0 /\ i <= Walk(queue, lag) THEN [queue[i] EXCEPT !.delta = 0] ELSE queue[i]]

\* synchronize: where the clock has gone back no time is counted.
Synchronized == IF lag < 0 THEN queue ELSE Consumed(queue, lag)

\* Mutant of Inserted: before an entry that is due at the same time.
InsertedBeforeEqual(q, t, d) ==
  LET k    == Walk(q, d - 1)
      rest == d - Due(q)[k]
      new  == [token |-> t, delta |-> rest, real |-> d]
  IN  [i \in 1..Len(q) + 1 |->
         IF i <= k THEN q[i]
         ELSE IF i = k + 1 THEN new
         ELSE [q[i - 1] EXCEPT !.delta = @ - (IF i = k + 2 THEN rest ELSE 0)]]

\* Mutant of Inserted: at the end of the list.
InsertedLast(q, t, d) ==
  Append(q, [token |-> t, delta |-> d - Due(q)[Len(q)], real |-> d])

\* addEntry after synchronize: before the entry where the walk stops.
Inserted(q, t, d) ==
  LET k    == Walk(q, d)
      rest == d - Due(q)[k]
      new  == [token |-> t, delta |-> rest, real |-> d]
  IN  [i \in 1..Len(q) + 1 |->
         IF i <= k THEN q[i]
         ELSE IF i = k + 1 THEN new
         ELSE [q[i - 1] EXCEPT !.delta = @ - (IF i = k + 2 THEN rest ELSE 0)]]

\* Mutant of Removed: the delta of the entry goes with it.
RemovedWithDelta(q, j) == [i \in 1..Len(q) - 1 |-> IF i < j THEN q[i] ELSE q[i + 1]]

\* removeEntry: the next entry takes over its delta.
Removed(q, j) ==
  [i \in 1..Len(q) - 1 |->
     IF i < j THEN q[i]
     ELSE [q[i + 1] EXCEPT !.delta = @ + (IF i = j THEN q[j].delta ELSE 0)]]

HeadIsDue(q) == q # <<>> /\ q[1].delta = 0

\* timeToNextAlarm and handleAlarm look at the clock unless the head is due.
Look == IF HeadIsDue(queue) THEN queue ELSE Synchronized

\* Mutant of LagAfterLook: synchronize does not keep the time it read.
LagNotReset == lag

LagAfterLook == IF HeadIsDue(queue) THEN lag ELSE 0

-----------------------------------------------------------------------------
(* The calls of a handler, or of the owner of the loop between two steps *)

InCall == pc \in {"top", "handler", "task"}

\* Mutant of ScheduleDelayedTask: tokens are those of the tasks that wait.
ScheduleReusingToken(d) ==
  /\ InCall
  /\ Len(queue) < MaxToken
  /\ queue' = Inserted(Synchronized, Len(queue) + 1, d)
  /\ lag' = 0
  /\ UNCHANGED <<tokenCounter, pc, task, socketVars, setbacks>>

ScheduleDelayedTask(d) ==
  /\ InCall
  /\ tokenCounter < MaxToken
  /\ tokenCounter' = tokenCounter + 1
  /\ queue' = Inserted(Synchronized, tokenCounter', d)
  /\ lag' = 0
  /\ UNCHANGED <<pc, task, socketVars, setbacks>>

\* A token whose task was called or unscheduled finds no entry.
UnscheduleDelayedTask(j) ==
  /\ InCall
  /\ queue' = Removed(queue, j)
  /\ UNCHANGED <<lag, tokenCounter, pc, task, socketVars, setbacks>>

Holds(s) == \E i \in DOMAIN handlers : handlers[i] = s

\* A new handler is the first of the set, an assigned one keeps its place.
SetBackgroundHandling(s) ==
  /\ InCall
  /\ ~ Holds(s)
  /\ handlers' = <<s>> \o handlers
  /\ UNCHANGED <<queueVars, tokenCounter, pc, task, lastHandled, ready, setbacks, clears>>

DisableBackgroundHandling(j) ==
  /\ InCall
  /\ clears < MaxClears
  /\ clears' = clears + 1
  /\ handlers' = [i \in 1..Len(handlers) - 1 |->
                   IF i < j THEN handlers[i] ELSE handlers[i + 1]]
  /\ ready' = ready \ {handlers[j]}
  /\ UNCHANGED <<queueVars, tokenCounter, pc, task, lastHandled, setbacks>>

-----------------------------------------------------------------------------
(* SingleStep *)

TimeToNextAlarm ==
  /\ pc = "top"
  /\ pc' = "select"
  /\ queue' = Look
  /\ lag' = LagAfterLook
  /\ UNCHANGED <<tokenCounter, task, socketVars, setbacks>>

\* Where the last handled socket is in the set, 0 where it has no handler.
LastPlace == IF \E i \in DOMAIN handlers : handlers[i] = lastHandled
             THEN CHOOSE i \in DOMAIN handlers : handlers[i] = lastHandled
             ELSE 0

ReadyPlaces == {i \in DOMAIN handlers : handlers[i] \in ready}

FirstOf(P) == CHOOSE i \in P : \A j \in P : i <= j

\* Mutant of NextPlace: the search always begins with the first handler.
FirstPlace == FirstOf(ReadyPlaces)

\* The first that is ready past the last one handled, else from the start.
NextPlace ==
  LET later == {i \in ReadyPlaces : i > LastPlace}
  IN  IF later # {} THEN FirstOf(later) ELSE FirstOf(ReadyPlaces)

HandleSocket ==
  /\ pc = "select"
  /\ ReadyPlaces # {}
  /\ lastHandled' = handlers[NextPlace]
  /\ \E drained \in BOOLEAN :
       ready' = IF drained THEN ready \ {lastHandled'} ELSE ready
  /\ pc' = "handler"
  /\ UNCHANGED <<queueVars, tokenCounter, task, handlers, setbacks, clears>>

NoSocketReady ==
  /\ pc = "select"
  /\ ReadyPlaces = {}
  /\ lastHandled' = 0
  /\ pc' = "alarms"
  /\ UNCHANGED <<queueVars, tokenCounter, task, handlers, ready, setbacks, clears>>

HandleAlarm ==
  /\ pc = "alarms"
  /\ IF HeadIsDue(Look)
     THEN /\ queue' = Removed(Look, 1)
          /\ task' = Look[1]
          /\ pc' = "task"
     ELSE /\ queue' = Look
          /\ pc' = "top"
          /\ UNCHANGED task
  /\ lag' = LagAfterLook
  /\ UNCHANGED <<tokenCounter, socketVars, setbacks>>

\* The handler of a socket returns; the task returns and its entry is deleted.
HandlerReturns ==
  /\ pc \in {"handler", "task"}
  /\ pc' = IF pc = "handler" THEN "alarms" ELSE "top"
  /\ task' = NoTask
  /\ UNCHANGED <<queueVars, tokenCounter, socketVars, setbacks>>

-----------------------------------------------------------------------------
(* The environment *)

Tick ==
  /\ lag < MaxLag
  /\ lag' = lag + 1
  /\ queue' = [i \in DOMAIN queue |-> [queue[i] EXCEPT !.real = Larger(0, @ - 1)]]
  /\ UNCHANGED <<tokenCounter, pc, task, socketVars, setbacks>>

SetClockBack(j) ==
  /\ setbacks < MaxSetbacks
  /\ setbacks' = setbacks + 1
  /\ lag' = lag - j
  /\ UNCHANGED <<queue, tokenCounter, pc, task, socketVars>>

SocketBecomesReady(s) ==
  /\ Holds(s) /\ s \notin ready
  /\ ready' = ready \cup {s}
  /\ UNCHANGED <<queueVars, tokenCounter, pc, task, handlers, lastHandled, setbacks, clears>>

-----------------------------------------------------------------------------
Init ==
  /\ queue = <<>>
  /\ lag = 0
  /\ tokenCounter = 0
  /\ pc = "top"
  /\ task = NoTask
  /\ handlers = <<>>
  /\ lastHandled = 0
  /\ ready = {}
  /\ setbacks = 0
  /\ clears = 0

Loop == TimeToNextAlarm \/ HandleSocket \/ NoSocketReady \/ HandleAlarm \/ HandlerReturns

Calls == \/ \E d \in Delays : ScheduleDelayedTask(d)
         \/ \E j \in DOMAIN queue : UnscheduleDelayedTask(j)
         \/ \E s \in Sockets : SetBackgroundHandling(s)
         \/ \E j \in DOMAIN handlers : DisableBackgroundHandling(j)

Environment == \/ Tick
               \/ \E j \in Setbacks : SetClockBack(j)
               \/ \E s \in Sockets : SocketBecomesReady(s)

Next == Loop \/ Calls \/ Environment

\* The loop goes round (every handler returns, select waits no longer than
\* until the next alarm) and time passes.
Fairness ==
  /\ WF_vars(TimeToNextAlarm) /\ WF_vars(HandleSocket) /\ WF_vars(NoSocketReady)
  /\ WF_vars(HandleAlarm) /\ WF_vars(HandlerReturns) /\ WF_vars(Tick)

Spec == Init /\ [][Next]_vars

FairSpec == Spec /\ Fairness

-----------------------------------------------------------------------------
(* Properties *)

Entries == [token : 1..MaxToken, delta : Nat, real : Nat]

TypeOK ==
  /\ queue \in Seq(Entries)
  /\ lag \in Int /\ lag <= MaxLag
  /\ tokenCounter \in 0..MaxToken
  /\ pc \in {"top", "select", "handler", "alarms", "task"}
  /\ task \in Entries \cup {NoTask}
  /\ handlers \in Seq(Sockets)
  /\ lastHandled \in Sockets \cup {0}
  /\ ready \subseteq Sockets
  /\ setbacks \in 0..MaxSetbacks
  /\ clears \in 0..MaxClears

\* A token names one task: no two entries have the same, none has that of
\* the task being called, so a token kept too long unschedules nobody else.
TokensDiffer ==
  /\ \A i, j \in DOMAIN queue : queue[i].token = queue[j].token => i = j
  /\ \A i \in DOMAIN queue : queue[i].token # task.token

\* Real time, however the time of day is set back: no entry is due before
\* its delay is over, counting the time that no synchronize has seen yet.
RealTime ==
  \A i \in DOMAIN queue :
    queue[i].real <= Larger(0, Due(queue)[i] - Larger(0, lag))

\* What TokensDiffer rests on: tokens are given out in order, and an entry is
\* called only by handleAlarm.
TokensInv ==
  /\ TokensDiffer
  /\ \A i \in DOMAIN queue : queue[i].token <= tokenCounter
  /\ task.token <= tokenCounter
  /\ pc # "task" => task = NoTask

\* A task is called only when the delay it was scheduled with is over.
NeverEarly == task.real = 0

Alarms(q) == [i \in DOMAIN q |-> [token |-> q[i].token, left |-> Due(q)[i]]]

CD == INSTANCE Countdowns WITH
        Tokens <- 1..MaxToken,
        Times  <- Delays \cup 0..MaxLag,
        alarms <- Alarms(queue),
        called <- task.token

\* The list of differences keeps the countdowns of its tasks, each on its
\* own and in the order they come due, whatever is added and removed.
KeepsCountdowns == CD!Spec

Waits(t) == \E i \in DOMAIN queue : queue[i].token = t

\* A delayed task is called in the end unless it is unscheduled, though
\* sockets be ready all the time.
AlarmsFire == \A t \in 1..MaxToken : Waits(t) ~> ~ Waits(t)

\* A socket that stays ready is handled in the end, though others be ready
\* all the time and handlers come and go.
SocketsServed ==
  \A s \in Sockets :
    (s \in ready /\ Holds(s)) ~> ((pc = "handler" /\ lastHandled = s) \/ ~ Holds(s))
=============================================================================
