-------------------------- MODULE DirectEngineProofs --------------------------
(***************************************************************************)
(* Theorems about DirectEngine for every value of its constants.           *)
(*                                                                         *)
(* The invariant is built in layers: types; the lock, outside which every  *)
(* coroutine is idle; what the place of the one that holds it says of its  *)
(* run, and how the rows of the journal agree with the service.            *)
(***************************************************************************)
EXTENDS DirectEngine, TLAPS

\* A coroutine at work on a run has a run.
PointInv ==
  \A t \in Task : pc[t] \in (Body \ {"doctor"}) \cup {"except"} => cur[t] \in Run

Polling == {"poll", "status", "keep", "decide"}

\* Who is not idle holds the lock; reconcile only polls; a coroutine that
\* submitted is past the count; a process that is down runs nothing.
LockInv ==
  /\ \A t \in Task : pc[t] # "idle" <=> lock = t
  /\ \A t \in looking : pc[t] \in Polling \cup {"unlock"}
  /\ \A t \in submitted :
       pc[t] \in Polling \cup {"start", "answer", "save", "judge", "except", "unlock"}
  /\ \A t \in Task :
       pc[t] \in Polling \cup {"start", "answer", "save", "judge"} =>
         (t \in looking <=> t \notin submitted)
  /\ ~up => lock = NoTask

\* What the place of a coroutine says of the run it works for.
WorkOf(t) ==
  LET r == cur[t] IN
  /\ pc[t] \in {"heartbeat", "mark"} => state[r] = "preparing" /\ ~Pending
  /\ pc[t] = "count" => state[r] = "submitting" /\ startCount[r] = 0 /\ sentTurn[r] = 0
  /\ pc[t] = "start" => starts[r] = 0
  /\ pc[t] \in {"start", "answer", "save", "judge"} =>
       state[r] = "submitting" /\ startCount[r] = 1
  /\ pc[t] \in {"start", "answer", "save"} => sentTurn[r] = 0
  /\ pc[t] \in Polling => state[r] = IF t \in looking THEN "uncertain" ELSE "running"
  /\ pc[t] \in {"judge", "poll", "status", "decide"} => receipt[t] = turn[r]
  /\ pc[t] = "keep" => receipt[t] >= turn[r]
  /\ pc[t] \in {"save", "judge", "keep", "decide"} /\ reply[t] \in Outcome =>
       remote[r] = reply[t]
  /\ pc[t] = "except" =>
       state[r] \in {"preparing", "submitting", "running"} \cup Outcome
  /\ pc[t] = "except" /\ t \in submitted => state[r] # "preparing"
  /\ pc[t] = "except" /\ t \notin submitted =>
       state[r] \in {"preparing", "submitting"} /\ starts[r] = 0
  /\ pc[t] \in Body \ {"doctor"} => request[r].bundle.scope = bundle.scope

\* How a row agrees with what was sent for it and with the service.
RowOf(r) ==
  /\ state[r] \in {"none", "preparing"} => startCount[r] = 0 /\ sentTurn[r] = 0
  /\ starts[r] <= startCount[r] /\ startCount[r] <= 1
  /\ starts[r] = 0 => remote[r] = "none"
  /\ state[r] \in Outcome =>
       remote[r] = state[r] \/ (starts[r] = 0 /\ state[r] = "failed")
  /\ sentTurn[r] <= turn[r]

\* One row at a time is pending.
SlotInv ==
  \A r, s \in Run :
    /\ state[r] \in {"submitting", "running", "uncertain"}
    /\ state[s] \in {"submitting", "running", "uncertain"}
    => r = s

WorkInv == (\A t \in Task : WorkOf(t)) /\ (\A r \in Run : RowOf(r)) /\ SlotInv

\* The inductive invariant: each conjunct is preserved with the help of the
\* ones before it.
IInv == TypeOK /\ PointInv /\ LockInv /\ WorkInv /\ TextOfItsRequest

-----------------------------------------------------------------------------
(* Types.                                                                  *)

\* Initially every variable has its type.
LEMMA TypedInit == Init => TypeOK /\ PointInv
<1> SUFFICES ASSUME Init PROVE TypeOK /\ PointInv
  OBVIOUS
<1>1. bundle \in Bundle /\ request \in [Run -> Request]
  BY DEF Init, Bundle, Request
<1>2. PointInv
  BY DEF Init, PointInv, Body, Await
<1>3. up \in BOOLEAN /\ closed \in BOOLEAN /\ lock \in Task \cup {NoTask}
  BY DEF Init
<1>4. pc \in [Task -> Pc] /\ cur \in [Task -> Run \cup {0}]
  BY DEF Init, Pc
<1>5. state \in [Run -> RunState] /\ startCount \in [Run -> Nat] /\ turn \in [Run -> Nat]
  BY DEF Init, RunState
<1>6. receipt \in [Task -> Nat] /\ reply \in [Task -> Reply]
  BY DEF Init, Reply
<1>7. remote \in [Run -> Remote] /\ starts \in [Run -> Nat] /\ sentTurn \in [Run -> Nat]
  BY DEF Init, Remote
<1> QED BY <1>1, <1>2, <1>3, <1>4, <1>5, <1>6, <1>7 DEF Init, TypeOK

\* Every step of a coroutine keeps the types, given that one at work on a
\* run has a run: rid and receipt are set before they are used.
LEMMA TypedStep ==
  ASSUME TypeOK, PointInv, NEW t \in Task, Proceed(t) \/ Network(t) \/ Deadline(t)
  PROVE  TypeOK' /\ PointInv'
<1> USE DirectAssumption DEF TypeOK, PointInv, journal, owner, locals, service, bounds, vars, GoTo, Raise, Pc, Body, Await
<1>1. CASE Heartbeat(t)
  BY <1>1 DEF Heartbeat
<1>2. CASE MarkSubmitting(t)
  BY <1>2 DEF MarkSubmitting, RunState
<1>3. CASE CountStart(t)
  BY <1>3 DEF CountStart
<1>4. CASE Start(t)
  BY <1>4 DEF Start, Remote
<1>5. CASE Started(t)
  BY <1>5 DEF Started, Answers, Reply, Outcome
<1>6. CASE SaveReceipt(t)
  BY <1>6 DEF SaveReceipt
<1>7. CASE MarkRunning(t)
  BY <1>7 DEF MarkRunning, RunState
<1>8. CASE Poll(t)
  BY <1>8 DEF Poll
<1>9. CASE Status(t)
  BY <1>9 DEF Status, Answers, Reply, Outcome
<1>10. CASE KeepTurn(t)
  BY <1>10 DEF KeepTurn
<1>11. CASE PollAgain(t)
  BY <1>11 DEF PollAgain
<1>12. CASE Finish(t)
  <2>1. cur[t] \in Run /\ request[cur[t]] \in Request
    BY <1>12 DEF Finish
  <2>2. [run |-> cur[t], prompt |-> request[cur[t]].prompt,
         import |-> request[cur[t]].bundle.id] \in Served
    BY <2>1 DEF Served, Request, Bundle
  <2>3. served' \subseteq Served
    BY <1>12, <2>2 DEF Finish
  <2>4. PICK p \in {"unlock", "except"} : pc' = [pc EXCEPT ![t] = p]
    BY <1>12 DEF Finish
  <2> QED BY <1>12, <2>1, <2>3, <2>4 DEF Finish, RunState, Outcome
<1>13. CASE Fail(t)
  BY <1>13 DEF Fail
<1>14. CASE Deadline(t)
  BY <1>14 DEF Deadline
<1>15. CASE Handle(t)
  BY <1>15 DEF Handle, RunState
<1>16. CASE JournalFault(t)
  BY <1>16 DEF JournalFault
<1>17. CASE Unlock(t)
  BY <1>17 DEF Unlock, Reply
<1> QED BY <1>1, <1>2, <1>3, <1>4, <1>5, <1>6, <1>7, <1>8, <1>9, <1>10, <1>11, <1>12, <1>13, <1>14, <1>15, <1>16, <1>17
     DEF Proceed, Network

\* Every variable keeps its type.
THEOREM TypeCorrect == Spec => [](TypeOK /\ PointInv)
<1>1. TypeOK /\ PointInv /\ [Next]_vars => TypeOK' /\ PointInv'
  <2> SUFFICES ASSUME TypeOK, PointInv, [Next]_vars PROVE TypeOK' /\ PointInv'
    OBVIOUS
  <2>1. ASSUME NEW t \in Task, Proceed(t) \/ Network(t) \/ Deadline(t)
        PROVE  TypeOK' /\ PointInv'
    BY <2>1, TypedStep
  <2> USE DirectAssumption DEF TypeOK, PointInv, journal, owner, locals, service, bounds, vars, GoTo, Raise, Pc, Body, Await
  <2>2. ASSUME NEW t \in Task, Generate(t) PROVE TypeOK' /\ PointInv'
    BY <2>2 DEF Generate, RunState, Request, Bundle
  <2>3. ASSUME NEW t \in Task, Reconcile(t) PROVE TypeOK' /\ PointInv'
    BY <2>3 DEF Reconcile
  <2>4. ASSUME NEW t \in Task, Doctor(t) PROVE TypeOK' /\ PointInv'
    BY <2>4 DEF Doctor
  <2>5. ASSUME NEW r \in Run, Acknowledge(r) PROVE TypeOK' /\ PointInv'
    BY <2>5 DEF Acknowledge, RunState
  <2>6. CASE Replay
    BY <2>6 DEF Replay, Served, Bundle
  <2>7. CASE Close
    BY <2>7 DEF Close
  <2>8. CASE Exit
    BY <2>8 DEF Exit, Reply
  <2>9. CASE Import
    BY <2>9 DEF Import, Bundle
  <2>10. CASE Restart
    BY <2>10 DEF Restart, RunState, Recover
  <2>11. ASSUME NEW r \in Run, RemoteStarts(r) PROVE TypeOK' /\ PointInv'
    BY <2>11 DEF RemoteStarts, Remote
  <2>12. ASSUME NEW r \in Run, RemoteEnds(r) PROVE TypeOK' /\ PointInv'
    BY <2>12 DEF RemoteEnds, Remote, Outcome
  <2>13. CASE UNCHANGED vars
    BY <2>13
  <2> QED BY <2>1, <2>2, <2>3, <2>4, <2>5, <2>6, <2>7, <2>8, <2>9, <2>10, <2>11, <2>12, <2>13
          DEF Next, Demand, Environment
<1> QED BY TypedInit, <1>1, PTL DEF Spec
-----------------------------------------------------------------------------
(* The lock.                                                               *)

\* A step of a coroutine that is not idle: it holds the lock, and keeps it
\* or gives it back as it becomes idle.
LEMMA LockStep ==
  ASSUME TypeOK, LockInv, NEW t \in Task, Proceed(t) \/ Network(t) \/ Deadline(t)
  PROVE  LockInv'
<1> USE DirectAssumption DEF TypeOK, LockInv, journal, owner, locals, service, bounds, vars, GoTo, Raise, Body, Await, Polling
<1>1. CASE Heartbeat(t)
  BY <1>1 DEF Heartbeat
<1>2. CASE MarkSubmitting(t)
  BY <1>2 DEF MarkSubmitting
<1>3. CASE CountStart(t)
  BY <1>3 DEF CountStart
<1>4. CASE Start(t)
  BY <1>4 DEF Start
<1>5. CASE Started(t)
  BY <1>5 DEF Started
<1>6. CASE SaveReceipt(t)
  BY <1>6 DEF SaveReceipt
<1>7. CASE MarkRunning(t)
  BY <1>7 DEF MarkRunning
<1>8. CASE Poll(t)
  BY <1>8 DEF Poll
<1>9. CASE Status(t)
  BY <1>9 DEF Status
<1>10. CASE KeepTurn(t)
  BY <1>10 DEF KeepTurn
<1>11. CASE PollAgain(t)
  BY <1>11 DEF PollAgain
<1>12. CASE Finish(t)
  <2>1. PICK p \in {"unlock", "except"} :
          pc' = [pc EXCEPT ![t] = p] /\ (p = "except" => t \notin looking)
    BY <1>12 DEF Finish
  <2>2. lock' = lock /\ looking' = looking /\ submitted' = submitted /\ up' = up
    BY <1>12 DEF Finish
  <2> QED BY <1>12, <2>1, <2>2 DEF Finish
<1>13. CASE Fail(t)
  BY <1>13 DEF Fail
<1>14. CASE Deadline(t)
  BY <1>14 DEF Deadline
<1>15. CASE Handle(t)
  BY <1>15 DEF Handle
<1>16. CASE JournalFault(t)
  BY <1>16 DEF JournalFault
<1>17. CASE Unlock(t)
  BY <1>17 DEF Unlock
<1> QED BY <1>1, <1>2, <1>3, <1>4, <1>5, <1>6, <1>7, <1>8, <1>9, <1>10, <1>11, <1>12, <1>13, <1>14, <1>15, <1>16, <1>17
     DEF Proceed, Network

\* Exactly the coroutine that is not idle holds the asyncio lock, and a dead
\* process has none.
THEOREM LockCorrect == Spec => []LockInv
<1>1. Init => LockInv
  BY DirectAssumption DEF Init, LockInv, Polling
<1>2. TypeOK /\ LockInv /\ [Next]_vars => LockInv'
  <2> SUFFICES ASSUME TypeOK, LockInv, [Next]_vars PROVE LockInv'
    OBVIOUS
  <2>1. ASSUME NEW t \in Task, Proceed(t) \/ Network(t) \/ Deadline(t) PROVE LockInv'
    BY <2>1, LockStep
  <2> USE DirectAssumption DEF TypeOK, LockInv, journal, owner, locals, service, bounds, vars, GoTo, Raise, Body, Await, Polling
  <2>2. ASSUME NEW t \in Task, Generate(t) PROVE LockInv'
    BY <2>2 DEF Generate
  <2>3. ASSUME NEW t \in Task, Reconcile(t) PROVE LockInv'
    BY <2>3 DEF Reconcile
  <2>4. ASSUME NEW t \in Task, Doctor(t) PROVE LockInv'
    BY <2>4 DEF Doctor
  <2>5. ASSUME NEW r \in Run, Acknowledge(r) PROVE LockInv'
    BY <2>5 DEF Acknowledge
  <2>6. CASE Replay
    BY <2>6 DEF Replay
  <2>7. CASE Close
    BY <2>7 DEF Close
  <2>8. CASE Exit
    BY <2>8 DEF Exit
  <2>9. CASE Import
    BY <2>9 DEF Import
  <2>10. CASE Restart
    BY <2>10 DEF Restart
  <2>11. ASSUME NEW r \in Run, RemoteStarts(r) PROVE LockInv'
    BY <2>11 DEF RemoteStarts
  <2>12. ASSUME NEW r \in Run, RemoteEnds(r) PROVE LockInv'
    BY <2>12 DEF RemoteEnds
  <2>13. CASE UNCHANGED vars
    BY <2>13
  <2> QED BY <2>1, <2>2, <2>3, <2>4, <2>5, <2>6, <2>7, <2>8, <2>9, <2>10, <2>11, <2>12, <2>13
          DEF Next, Demand, Environment
<1> QED BY <1>1, <1>2, TypeCorrect, PTL DEF Spec
-----------------------------------------------------------------------------
(* The work.                                                               *)

\* An idle coroutine is bound to nothing.
LEMMA IdleWork ==
  ASSUME NEW u \in Task, pc'[u] = "idle"
  PROVE  WorkOf(u)'
<1> QED BY DEF WorkOf, Polling, Body, Await

\* A step of the coroutine that holds the lock: all others are idle, and stay so.
LEMMA WorkStep ==
  ASSUME TypeOK, PointInv, LockInv, WorkInv,
         NEW t \in Task, Proceed(t) \/ Network(t) \/ Deadline(t)
  PROVE  WorkInv'
<1> USE DirectAssumption
<1> DEFINE Others == \A u \in Task \ {t} : WorkOf(u)'
<1>1. \E p \in Pc : pc' = [pc EXCEPT ![t] = p]
  BY DEF Proceed, Network, Deadline, Heartbeat, MarkSubmitting, CountStart, Start,
         Started, SaveReceipt, MarkRunning, Poll, Status, KeepTurn, PollAgain,
         Finish, Fail, Handle, JournalFault, Unlock, GoTo, Raise, Pc, Body, Await
<1>2. pc[t] # "idle"
  BY DEF Proceed, Network, Deadline, Heartbeat, MarkSubmitting, CountStart, Start,
         Started, SaveReceipt, MarkRunning, Poll, Status, KeepTurn, PollAgain,
         Finish, Fail, Handle, JournalFault, Unlock, Body, Await
<1>3. \A u \in Task \ {t} : pc'[u] = "idle"
  BY <1>1, <1>2 DEF TypeOK, LockInv
<1>4. Others
  BY <1>3, IdleWork
<1> HIDE DEF Others
<1>5. SUFFICES WorkOf(t)' /\ (\A s \in Run : RowOf(s)') /\ SlotInv'
  BY <1>4 DEF WorkInv, Others
<1>6. WorkOf(t) /\ (\A s \in Run : RowOf(s)) /\ SlotInv
  BY DEF WorkInv
<1>7. CASE Heartbeat(t)
  <2>1. ASSUME pc[t] = "doctor" PROVE WorkOf(t)'
    <3>1. pc'[t] = "unlock"
      BY <1>7, <2>1 DEF Heartbeat, TypeOK, GoTo, Raise
    <3> QED BY <3>1 DEF WorkOf, Polling, Body, Await
  <2>2. ASSUME pc[t] # "doctor" PROVE WorkOf(t)'
    <3>1. cur[t] \in Run
      BY <1>7, <2>2 DEF Heartbeat, PointInv, Body, Await
    <3> QED
      BY <1>6, <1>7, <2>2, <3>1 DEF Heartbeat, WorkOf, RowOf, Pending, TypeOK, LockInv, Polling, Body, Await, journal, owner, locals, service, bounds, vars, GoTo, Raise
  <2>3. UNCHANGED <<state, startCount, turn, starts, sentTurn, remote>>
    BY <1>7 DEF Heartbeat, journal, service
  <2> QED BY <1>6, <2>1, <2>2, <2>3 DEF RowOf, SlotInv
<1>8. CASE MarkSubmitting(t)
  <2>1. cur[t] \in Run
    BY <1>8 DEF MarkSubmitting, PointInv, Body, Await
  <2>2. WorkOf(t)'
    BY <1>6, <1>8, <2>1 DEF MarkSubmitting, WorkOf, RowOf, Pending, Outcome, TypeOK, LockInv, Polling, Body, Await, journal, owner, locals, service, bounds, vars, GoTo, Raise
  <2>3. \A s \in Run : RowOf(s)'
    BY <1>6, <1>8, <2>1 DEF MarkSubmitting, WorkOf, RowOf, Outcome, TypeOK, LockInv, Polling, Body, Await, journal, owner, locals, service, bounds, vars, GoTo, Raise
  <2>4. SlotInv'
    BY <1>6, <1>8, <2>1 DEF MarkSubmitting, WorkOf, SlotInv, Pending, Outcome, TypeOK, LockInv, Polling, Body, Await, journal, owner, locals, service, bounds, vars, GoTo, Raise
  <2> QED BY <2>2, <2>3, <2>4
<1>9. CASE CountStart(t)
  <2>1. cur[t] \in Run
    BY <1>9 DEF CountStart, PointInv, Body, Await
  <2>2. WorkOf(t)'
    BY <1>6, <1>9, <2>1 DEF CountStart, WorkOf, RowOf, TypeOK, LockInv, Polling, Body, Await, journal, owner, locals, service, bounds, vars, GoTo, Raise
  <2>3. \A s \in Run : RowOf(s)'
    BY <1>6, <1>9, <2>1 DEF CountStart, WorkOf, RowOf, TypeOK, LockInv, Polling, Body, Await, journal, owner, locals, service, bounds, vars, GoTo, Raise
  <2>4. SlotInv'
    BY <1>6, <1>9, <2>1 DEF CountStart, WorkOf, SlotInv, TypeOK, LockInv, Polling, Body, Await, journal, owner, locals, service, bounds, vars, GoTo, Raise
  <2> QED BY <2>2, <2>3, <2>4
<1>10. CASE Start(t)
  <2>1. cur[t] \in Run
    BY <1>10 DEF Start, PointInv, Body, Await
  <2>2. WorkOf(t)'
    BY <1>6, <1>10, <2>1 DEF Start, WorkOf, RowOf, TypeOK, LockInv, Polling, Body, Await, journal, owner, locals, service, bounds, vars, GoTo, Raise
  <2>3. \A s \in Run : RowOf(s)'
    BY <1>6, <1>10, <2>1 DEF Start, WorkOf, RowOf, TypeOK, LockInv, Polling, Body, Await, journal, owner, locals, service, bounds, vars, GoTo, Raise
  <2>4. SlotInv'
    BY <1>6, <1>10, <2>1 DEF Start, WorkOf, SlotInv, TypeOK, LockInv, Polling, Body, Await, journal, owner, locals, service, bounds, vars, GoTo, Raise
  <2> QED BY <2>2, <2>3, <2>4
<1>11. CASE Started(t)
  <2>1. cur[t] \in Run
    BY <1>11 DEF Started, PointInv, Body, Await
  <2>2. WorkOf(t)'
    BY <1>6, <1>11, <2>1 DEF Started, WorkOf, RowOf, Answers, Outcome, TypeOK, LockInv, Polling, Body, Await, journal, owner, locals, service, bounds, vars, GoTo, Raise
  <2>3. UNCHANGED <<state, startCount, turn, starts, sentTurn, remote>>
    BY <1>11 DEF Started, journal, service
  <2> QED BY <1>6, <2>2, <2>3 DEF RowOf, SlotInv
<1>12. CASE SaveReceipt(t)
  <2>1. cur[t] \in Run
    BY <1>12 DEF SaveReceipt, PointInv, Body, Await
  <2>2. WorkOf(t)'
    BY <1>6, <1>12, <2>1 DEF SaveReceipt, WorkOf, RowOf, TypeOK, LockInv, Polling, Body, Await, journal, owner, locals, service, bounds, vars, GoTo, Raise
  <2>3. \A s \in Run : RowOf(s)'
    BY <1>6, <1>12, <2>1 DEF SaveReceipt, WorkOf, RowOf, TypeOK, LockInv, Polling, Body, Await, journal, owner, locals, service, bounds, vars, GoTo, Raise
  <2>4. SlotInv'
    BY <1>6, <1>12, <2>1 DEF SaveReceipt, WorkOf, SlotInv, TypeOK, LockInv, Polling, Body, Await, journal, owner, locals, service, bounds, vars, GoTo, Raise
  <2> QED BY <2>2, <2>3, <2>4
<1>13. CASE MarkRunning(t)
  <2>1. cur[t] \in Run
    BY <1>13 DEF MarkRunning, PointInv, Body, Await
  <2>2. WorkOf(t)'
    BY <1>6, <1>13, <2>1 DEF MarkRunning, WorkOf, RowOf, TypeOK, LockInv, Polling, Body, Await, journal, owner, locals, service, bounds, vars, GoTo, Raise
  <2>3. \A s \in Run : RowOf(s)'
    BY <1>6, <1>13, <2>1 DEF MarkRunning, WorkOf, RowOf, TypeOK, LockInv, Polling, Body, Await, journal, owner, locals, service, bounds, vars, GoTo, Raise
  <2>4. SlotInv'
    BY <1>6, <1>13, <2>1 DEF MarkRunning, WorkOf, SlotInv, TypeOK, LockInv, Polling, Body, Await, journal, owner, locals, service, bounds, vars, GoTo, Raise
  <2> QED BY <2>2, <2>3, <2>4
<1>14. CASE Poll(t)
  <2>1. cur[t] \in Run
    BY <1>14 DEF Poll, PointInv, Body, Await
  <2>2. WorkOf(t)'
    BY <1>6, <1>14, <2>1 DEF Poll, WorkOf, RowOf, TypeOK, LockInv, Polling, Body, Await, journal, owner, locals, service, bounds, vars, GoTo, Raise
  <2>3. \A s \in Run : RowOf(s)'
    BY <1>6, <1>14, <2>1 DEF Poll, WorkOf, RowOf, TypeOK, LockInv, Polling, Body, Await, journal, owner, locals, service, bounds, vars, GoTo, Raise
  <2>4. SlotInv'
    BY <1>6, <1>14, <2>1 DEF Poll, WorkOf, SlotInv, TypeOK, LockInv, Polling, Body, Await, journal, owner, locals, service, bounds, vars, GoTo, Raise
  <2> QED BY <2>2, <2>3, <2>4
<1>15. CASE Status(t)
  <2>1. cur[t] \in Run
    BY <1>15 DEF Status, PointInv, Body, Await
  <2>2. WorkOf(t)'
    BY <1>6, <1>15, <2>1 DEF Status, WorkOf, RowOf, Answers, Outcome, TypeOK, LockInv, Polling, Body, Await, journal, owner, locals, service, bounds, vars, GoTo, Raise
  <2>3. UNCHANGED <<state, startCount, turn, starts, sentTurn, remote>>
    BY <1>15 DEF Status, journal, service
  <2> QED BY <1>6, <2>2, <2>3 DEF RowOf, SlotInv
<1>16. CASE KeepTurn(t)
  <2>1. cur[t] \in Run
    BY <1>16 DEF KeepTurn, PointInv, Body, Await
  <2>2. WorkOf(t)'
    BY <1>6, <1>16, <2>1 DEF KeepTurn, WorkOf, RowOf, TypeOK, LockInv, Polling, Body, Await, journal, owner, locals, service, bounds, vars, GoTo, Raise
  <2>3. \A s \in Run : RowOf(s)'
    BY <1>6, <1>16, <2>1 DEF KeepTurn, WorkOf, RowOf, TypeOK, LockInv, Polling, Body, Await, journal, owner, locals, service, bounds, vars, GoTo, Raise
  <2>4. SlotInv'
    BY <1>6, <1>16, <2>1 DEF KeepTurn, WorkOf, SlotInv, TypeOK, LockInv, Polling, Body, Await, journal, owner, locals, service, bounds, vars, GoTo, Raise
  <2> QED BY <2>2, <2>3, <2>4
<1>17. CASE PollAgain(t)
  <2>1. cur[t] \in Run
    BY <1>17 DEF PollAgain, PointInv, Body, Await
  <2>2. WorkOf(t)'
    BY <1>6, <1>17, <2>1 DEF PollAgain, WorkOf, RowOf, TypeOK, LockInv, Polling, Body, Await, journal, owner, locals, service, bounds, vars, GoTo, Raise
  <2>3. UNCHANGED <<state, startCount, turn, starts, sentTurn, remote>>
    BY <1>17 DEF PollAgain, journal, service
  <2> QED BY <1>6, <2>2, <2>3 DEF RowOf, SlotInv
<1>18. CASE Finish(t)
  <2>1. cur[t] \in Run
    BY <1>18 DEF Finish, PointInv, Body, Await
  <2>2. WorkOf(t)'
    BY <1>6, <1>18, <2>1 DEF Finish, WorkOf, RowOf, Outcome, TypeOK, LockInv, Polling, Body, Await, journal, owner, locals, service, bounds, vars, GoTo, Raise
  <2>3. \A s \in Run : RowOf(s)'
    BY <1>6, <1>18, <2>1 DEF Finish, WorkOf, RowOf, Outcome, TypeOK, LockInv, Polling, Body, Await, journal, owner, locals, service, bounds, vars, GoTo, Raise
  <2>4. SlotInv'
    BY <1>6, <1>18, <2>1 DEF Finish, WorkOf, SlotInv, Outcome, TypeOK, LockInv, Polling, Body, Await, journal, owner, locals, service, bounds, vars, GoTo, Raise
  <2> QED BY <2>2, <2>3, <2>4
<1>19. CASE Fail(t)
  <2>1. ASSUME pc[t] = "doctor" PROVE WorkOf(t)'
    <3>1. pc'[t] = "unlock"
      BY <1>19, <2>1 DEF Fail, TypeOK, GoTo, Raise
    <3> QED BY <3>1 DEF WorkOf, Polling, Body, Await
  <2>2. ASSUME pc[t] # "doctor" PROVE WorkOf(t)'
    <3>1. cur[t] \in Run
      BY <1>19, <2>2 DEF Fail, PointInv, Body, Await
    <3> QED
      BY <1>6, <1>19, <2>2, <3>1 DEF Fail, WorkOf, RowOf, Outcome, TypeOK, LockInv, Polling, Body, Await, journal, owner, locals, service, bounds, vars, GoTo, Raise
  <2>3. UNCHANGED <<state, startCount, turn, starts, sentTurn, remote>>
    BY <1>19 DEF Fail, journal, service
  <2> QED BY <1>6, <2>1, <2>2, <2>3 DEF RowOf, SlotInv
<1>20. CASE Deadline(t)
  <2>1. ASSUME pc[t] = "doctor" PROVE WorkOf(t)'
    <3>1. pc'[t] = "unlock"
      BY <1>20, <2>1 DEF Deadline, TypeOK, GoTo, Raise
    <3> QED BY <3>1 DEF WorkOf, Polling, Body, Await
  <2>2. ASSUME pc[t] # "doctor" PROVE WorkOf(t)'
    <3>1. cur[t] \in Run
      BY <1>20, <2>2 DEF Deadline, PointInv, Body, Await
    <3> QED
      BY <1>6, <1>20, <2>2, <3>1 DEF Deadline, WorkOf, RowOf, Outcome, TypeOK, LockInv, Polling, Body, Await, journal, owner, locals, service, bounds, vars, GoTo, Raise
  <2>3. UNCHANGED <<state, startCount, turn, starts, sentTurn, remote>>
    BY <1>20 DEF Deadline, journal, service
  <2> QED BY <1>6, <2>1, <2>2, <2>3 DEF RowOf, SlotInv
<1>21. CASE Handle(t)
  <2>1. cur[t] \in Run
    BY <1>21 DEF Handle, PointInv, Body, Await
  <2>2. WorkOf(t)'
    BY <1>6, <1>21, <2>1 DEF Handle, WorkOf, RowOf, Outcome, TypeOK, LockInv, Polling, Body, Await, journal, owner, locals, service, bounds, vars, GoTo, Raise
  <2>3. \A s \in Run : RowOf(s)'
    BY <1>6, <1>21, <2>1 DEF Handle, WorkOf, RowOf, Outcome, TypeOK, LockInv, Polling, Body, Await, journal, owner, locals, service, bounds, vars, GoTo, Raise
  <2>4. SlotInv'
    BY <1>6, <1>21, <2>1 DEF Handle, WorkOf, SlotInv, Outcome, TypeOK, LockInv, Polling, Body, Await, journal, owner, locals, service, bounds, vars, GoTo, Raise
  <2> QED BY <2>2, <2>3, <2>4
<1>22. CASE JournalFault(t)
  <2>1. pc'[t] = "unlock"
    BY <1>22 DEF JournalFault, TypeOK, GoTo
  <2>2. WorkOf(t)'
    BY <2>1 DEF WorkOf, Polling, Body, Await
  <2>3. UNCHANGED <<state, startCount, turn, starts, sentTurn, remote>>
    BY <1>22 DEF JournalFault, service, journal
  <2> QED BY <1>6, <2>2, <2>3 DEF RowOf, SlotInv
<1>23. CASE Unlock(t)
  <2>1. pc'[t] = "idle"
    BY <1>23 DEF Unlock, TypeOK, GoTo
  <2>2. WorkOf(t)'
    BY <2>1, IdleWork
  <2>3. UNCHANGED <<state, startCount, turn, starts, sentTurn, remote>>
    BY <1>23 DEF Unlock, journal, service
  <2> QED BY <1>6, <2>2, <2>3 DEF RowOf, SlotInv
<1> QED BY <1>7, <1>8, <1>9, <1>10, <1>11, <1>12, <1>13, <1>14, <1>15, <1>16, <1>17, <1>18, <1>19, <1>20, <1>21, <1>22, <1>23
     DEF Proceed, Network

\* A step that leaves the rows, the service and the chat alone keeps what the
\* coroutines and rows say of each other.
LEMMA RowsKept ==
  ASSUME WorkInv,
         UNCHANGED <<state, startCount, turn, starts, sentTurn, remote>>
  PROVE  (\A s \in Run : RowOf(s)') /\ SlotInv'
<1> QED BY DEF WorkInv, RowOf, SlotInv

\* A coroutine that comes in, an operator, a dying or a new process, the service:
\* whatever is not a step of the one at work.
LEMMA WorkOutside ==
  ASSUME TypeOK, LockInv, WorkInv, Demand \/ Environment
  PROVE  WorkInv'
<1> USE DirectAssumption
<1>1. (\A u \in Task : WorkOf(u)) /\ (\A s \in Run : RowOf(s)) /\ SlotInv
  BY DEF WorkInv
<1>2. ASSUME lock = NoTask PROVE \A u \in Task : pc[u] = "idle"
  BY <1>2 DEF LockInv
<1>3. ASSUME NEW t \in Task, Generate(t) PROVE WorkInv'
  <2>1. PICK k \in Key \cup {NoKey}, p \in Prompt, r \in Run :
          LET q == [key |-> k, prompt |-> p, bundle |-> bundle] IN
            /\ ~Pending
            /\ state[r] = "none"
            /\ state' = [state EXCEPT ![r] = "preparing"]
            /\ request' = [request EXCEPT ![r] = q]
            /\ cur' = [cur EXCEPT ![t] = r]
    BY <1>3 DEF Generate
  <2>2. /\ pc' = [pc EXCEPT ![t] = "heartbeat"] /\ lock = NoTask
        /\ UNCHANGED <<startCount, turn, starts, sentTurn, remote, bundle>>
    BY <1>3 DEF Generate, GoTo, service
  <2>3. \A u \in Task \ {t} : WorkOf(u)'
    BY <1>2, <2>2, IdleWork DEF TypeOK
  <2>4. WorkOf(t)'
    BY <2>1, <2>2 DEF WorkOf, Pending, Polling, Body, Await, TypeOK
  <2>5. \A s \in Run : RowOf(s)'
    BY <1>1, <2>1, <2>2 DEF RowOf, Outcome, TypeOK
  <2>6. SlotInv'
    BY <1>1, <2>1 DEF SlotInv, TypeOK
  <2> QED BY <2>3, <2>4, <2>5, <2>6 DEF WorkInv
<1>4. ASSUME NEW t \in Task, Reconcile(t) PROVE WorkInv'
  <2>1. PICK r \in Run :
          /\ state[r] = "uncertain"
          /\ request[r].bundle.scope = bundle.scope
          /\ cur' = [cur EXCEPT ![t] = r]
          /\ receipt' = [receipt EXCEPT ![t] = turn[r]]
    BY <1>4 DEF Reconcile
  <2>2. /\ pc' = [pc EXCEPT ![t] = "poll"] /\ lock = NoTask
        /\ looking' = looking \cup {t}
        /\ UNCHANGED <<state, startCount, turn, starts, sentTurn, remote, bundle, request>>
    BY <1>4 DEF Reconcile, GoTo, service, journal
  <2>3. \A u \in Task \ {t} : WorkOf(u)'
    BY <1>2, <2>2, IdleWork DEF TypeOK
  <2>4. WorkOf(t)'
    BY <2>1, <2>2 DEF WorkOf, Polling, Body, Await, TypeOK
  <2> QED BY <2>2, <2>3, <2>4, RowsKept DEF WorkInv
<1>5. ASSUME NEW t \in Task, Doctor(t) PROVE WorkInv'
  <2>1. /\ pc' = [pc EXCEPT ![t] = "doctor"] /\ lock = NoTask
        /\ UNCHANGED <<state, startCount, turn, starts, sentTurn, remote>>
    BY <1>5 DEF Doctor, GoTo, service, journal
  <2>2. \A u \in Task \ {t} : WorkOf(u)'
    BY <1>2, <2>1, IdleWork DEF TypeOK
  <2>3. WorkOf(t)'
    BY <2>1 DEF WorkOf, Polling, Body, Await, TypeOK
  <2> QED BY <2>1, <2>2, <2>3, RowsKept DEF WorkInv
<1>6. ASSUME NEW r \in Run, Acknowledge(r) PROVE WorkInv'
  <2>1. /\ lock = NoTask /\ pc' = pc /\ state[r] = "uncertain"
        /\ state' = [state EXCEPT ![r] = "abandoned"]
        /\ UNCHANGED <<startCount, turn, starts, sentTurn, remote>>
    BY <1>6 DEF Acknowledge, service
  <2>2. \A u \in Task : WorkOf(u)'
    BY <1>2, <2>1, IdleWork
  <2>3. \A s \in Run : RowOf(s)'
    BY <1>1, <2>1 DEF RowOf, Outcome, TypeOK
  <2>4. SlotInv'
    BY <1>1, <2>1 DEF SlotInv, TypeOK
  <2> QED BY <2>2, <2>3, <2>4 DEF WorkInv
<1>7. ASSUME Replay \/ Close PROVE WorkInv'
  <2>1. UNCHANGED <<state, startCount, turn, starts, sentTurn, remote, request, bundle,
                    pc, cur, looking, submitted, receipt, reply>>
    BY <1>7 DEF Replay, Close, journal, owner, service, locals
  <2>2. \A u \in Task : WorkOf(u)'
    BY <1>1, <2>1 DEF WorkOf, Pending
  <2> QED BY <2>1, <2>2, RowsKept DEF WorkInv
<1>8. ASSUME Exit \/ Import PROVE WorkInv'
  <2>1. UNCHANGED <<state, startCount, turn, starts, sentTurn, remote>>
    BY <1>8 DEF Exit, Import, journal, service
  <2>2. \A u \in Task : pc'[u] = "idle"
    BY <1>2, <1>8 DEF Exit, Import, LockInv
  <2>3. \A u \in Task : WorkOf(u)'
    BY <2>2, IdleWork
  <2> QED BY <2>1, <2>3, RowsKept DEF WorkInv
<1>9. CASE Restart
  <2>1. /\ ~up /\ pc' = pc
        /\ state' = [r \in Run |-> Recover(state[r])]
        /\ UNCHANGED <<startCount, turn, starts, sentTurn, remote>>
    BY <1>9 DEF Restart, service
  <2>2. \A u \in Task : WorkOf(u)'
    BY <1>2, <2>1, IdleWork DEF LockInv
  <2>3. \A s \in Run : RowOf(s)'
    BY <1>1, <2>1 DEF RowOf, Outcome, Recover, TypeOK, RunState
  <2>4. SlotInv'
    BY <1>1, <2>1 DEF SlotInv, Recover, TypeOK
  <2> QED BY <2>2, <2>3, <2>4 DEF WorkInv
<1>10. ASSUME NEW r \in Run, RemoteStarts(r) \/ RemoteEnds(r) PROVE WorkInv'
  <2>1. /\ remote[r] \in {"sent", "active"}
        /\ \E v \in {"active"} \cup Outcome : remote' = [remote EXCEPT ![r] = v]
        /\ UNCHANGED <<state, startCount, turn, starts, sentTurn, request, bundle,
                       pc, cur, looking, submitted, receipt, reply>>
    BY <1>10 DEF RemoteStarts, RemoteEnds, journal, owner, locals
  <2>2. remote[r] \notin Outcome /\ remote[r] # "none"
    BY <2>1 DEF Outcome
  <2>3. \A u \in Task : WorkOf(u)'
    BY <1>1, <2>1, <2>2 DEF WorkOf, Pending, TypeOK
  <2>4. \A s \in Run : RowOf(s)'
    BY <1>1, <2>1, <2>2 DEF RowOf, Outcome, TypeOK
  <2>5. SlotInv'
    BY <1>1, <2>1 DEF SlotInv
  <2> QED BY <2>3, <2>4, <2>5 DEF WorkInv
<1> QED BY <1>3, <1>4, <1>5, <1>6, <1>7, <1>8, <1>9, <1>10 DEF Demand, Environment

\* The place of the coroutine at work, the row of its run and the service
\* agree, at every await and at every point where the process may die.
THEOREM WorkCorrect == Spec => []WorkInv
<1>1. Init => WorkInv
  BY DirectAssumption
     DEF Init, WorkInv, WorkOf, RowOf, SlotInv, Polling, Body, Await, Outcome
<1>2. TypeOK /\ PointInv /\ LockInv /\ WorkInv /\ [Next]_vars => WorkInv'
  <2> SUFFICES ASSUME TypeOK, PointInv, LockInv, WorkInv, [Next]_vars PROVE WorkInv'
    OBVIOUS
  <2>1. ASSUME NEW t \in Task, Proceed(t) \/ Network(t) \/ Deadline(t) PROVE WorkInv'
    BY <2>1, WorkStep
  <2>2. CASE Demand \/ Environment
    BY <2>2, WorkOutside
  <2>3. CASE UNCHANGED vars
    BY <2>3 DEF WorkInv, WorkOf, RowOf, SlotInv, Pending, vars, journal, owner,
                locals, service
  <2> QED BY <2>1, <2>2, <2>3 DEF Next
<1> QED BY <1>1, <1>2, TypeCorrect, LockCorrect, PTL DEF Spec
-----------------------------------------------------------------------------
(* The promises.                                                           *)

\* A decided turn is never touched again, and its request neither: an action
\* that changes a row finds it undecided.
LEMMA DecidedRows ==
  ASSUME TypeOK, PointInv, LockInv, WorkInv, [Next]_vars,
         NEW r \in Run, state[r] \in Decided
  PROVE  state'[r] = state[r] /\ request'[r] = request[r]
<1> USE DirectAssumption
<1>1. \A t \in Task : WorkOf(t)
  BY DEF WorkInv
<1>2. ASSUME NEW t \in Task, Proceed(t) \/ Network(t) \/ Deadline(t)
      PROVE  state'[r] = state[r] /\ request'[r] = request[r]
  <2>1. request' = request
    BY <1>2 DEF Proceed, Network, Deadline, Heartbeat, MarkSubmitting, CountStart,
                Start, Started, SaveReceipt, MarkRunning, Poll, Status, KeepTurn,
                PollAgain, Finish, Fail, Handle, JournalFault, Unlock, journal
  <2>2. CASE UNCHANGED state
    BY <2>1, <2>2
  <2>3. CASE MarkSubmitting(t)
    BY <1>1, <2>1, <2>3 DEF MarkSubmitting, WorkOf, Decided, Outcome, TypeOK
  <2>4. CASE MarkRunning(t)
    BY <1>1, <2>1, <2>4 DEF MarkRunning, WorkOf, Decided, Outcome, TypeOK
  <2>5. CASE Finish(t)
    <3>1. state[cur[t]] \in {"submitting", "running", "uncertain"}
      BY <1>1, <2>5 DEF Finish, WorkOf, Polling
    <3>2. state' = [state EXCEPT ![cur[t]] = reply[t]] /\ r # cur[t]
      BY <2>5, <3>1 DEF Finish, Decided, Outcome
    <3> QED BY <2>1, <3>2 DEF TypeOK
  <2>6. CASE Handle(t)
    BY <1>1, <2>1, <2>6 DEF Handle, WorkOf, Decided, Outcome, TypeOK
  <2> QED BY <1>2, <2>2, <2>3, <2>4, <2>5, <2>6
          DEF Proceed, Network, Deadline, Heartbeat, CountStart, Start, Started,
              SaveReceipt, Poll, Status, KeepTurn, PollAgain, Fail, JournalFault,
              Unlock, journal
<1>3. ASSUME Demand \/ Environment PROVE state'[r] = state[r] /\ request'[r] = request[r]
  BY <1>3 DEF Demand, Environment, Generate, Reconcile, Doctor, Acknowledge, Replay,
              Close, Exit, Import, Restart, RemoteStarts, RemoteEnds, journal,
              Recover, Decided, Outcome, TypeOK
<1> QED BY <1>2, <1>3 DEF Next, vars, journal

\* What was handed out is a succeeded turn's, under its own prompt and import.
LEMMA TextsKept ==
  ASSUME TypeOK, PointInv, LockInv, WorkInv, TextOfItsRequest, [Next]_vars
  PROVE  TextOfItsRequest'
<1> SUFFICES ASSUME NEW e \in served'
             PROVE  /\ state'[e.run] = "succeeded"
                    /\ request'[e.run].prompt = e.prompt
                    /\ request'[e.run].bundle.id = e.import
  BY DEF TextOfItsRequest
<1>1. CASE e \in served
  <2>1. e.run \in Run /\ state[e.run] \in Decided
    BY <1>1 DEF TextOfItsRequest, TypeOK, Served, Decided, Outcome
  <2> QED BY <1>1, <2>1, DecidedRows DEF TextOfItsRequest
<1>2. CASE e \notin served
  <2>1. CASE Replay
    <3>1. PICK p \in Prompt, r \in Run :
            /\ SameRequest(r, [prompt |-> p, bundle |-> bundle])
            /\ state[r] = "succeeded"
            /\ e = [run |-> r, prompt |-> p, import |-> bundle.id]
      BY <1>2, <2>1 DEF Replay, SameRequest
    <3> QED BY <2>1, <3>1 DEF SameRequest, Replay, journal
  <2>2. ASSUME NEW t \in Task, Finish(t) PROVE /\ state'[e.run] = "succeeded"
                    /\ request'[e.run].prompt = e.prompt
                    /\ request'[e.run].bundle.id = e.import
    <3>1. cur[t] \in Run
      BY <2>2 DEF Finish, PointInv, Body
    <3>2. /\ reply[t] = "succeeded"
          /\ e = [run |-> cur[t], prompt |-> request[cur[t]].prompt,
                  import |-> request[cur[t]].bundle.id]
      BY <1>2, <2>2 DEF Finish
    <3> QED BY <2>2, <3>1, <3>2 DEF Finish, TypeOK
  <2> QED BY <1>2, <2>1, <2>2
          DEF Next, Proceed, Network, Deadline, Heartbeat, MarkSubmitting, CountStart,
              Start, Started, SaveReceipt, MarkRunning, Poll, Status, KeepTurn,
              PollAgain, Fail, Handle, JournalFault, Unlock, Demand, Environment,
              Generate, Reconcile, Doctor, Acknowledge, Close, Exit, Import, Restart,
              RemoteStarts, RemoteEnds, vars
<1> QED BY <1>1, <1>2

\* IInv is an inductive invariant of the engine.
THEOREM Correct == Spec => []IInv
<1>1. Init => TextOfItsRequest
  BY DEF Init, TextOfItsRequest
<1>2. TypeOK /\ PointInv /\ LockInv /\ WorkInv /\ TextOfItsRequest /\ [Next]_vars
        => TextOfItsRequest'
  BY TextsKept
<1> QED BY <1>1, <1>2, TypeCorrect, LockCorrect, WorkCorrect, PTL DEF Spec, IInv

\* Every variable has its type, always.
THEOREM WellTyped == Spec => []TypeOK
<1> QED BY TypeCorrect, PTL

\* At most one start request leaves for a turn, and it is counted before:
\* journal rows, replays, lookups and any number of restarts included.
THEOREM StartsOnce == Spec => []StartedOnce
<1>1. IInv => StartedOnce
  BY DEF IInv, WorkInv, RowOf, StartedOnce
<1> QED BY <1>1, Correct, PTL

\* A turn that may still take effect is the only one, unless abandoned.
THEOREM AloneInChat == Spec => []OneTurnInChat
<1>1. IInv => OneTurnInChat
  <2> SUFFICES ASSUME IInv, NEW r \in Run, NEW s \in Run,
                      remote[r] \in {"sent", "active"}, state[r] # "abandoned",
                      remote[s] \in {"sent", "active"}, state[s] # "abandoned"
               PROVE  r = s
    BY DEF OneTurnInChat
  <2>1. ASSUME NEW x \in Run, remote[x] \in {"sent", "active"}, state[x] # "abandoned"
        PROVE  state[x] \in {"submitting", "running", "uncertain"}
    BY <2>1 DEF IInv, TypeOK, WorkInv, RowOf, RunState, Outcome
  <2> QED BY <2>1 DEF IInv, WorkInv, SlotInv
<1> QED BY <1>1, Correct, PTL

\* An outcome in the journal is the service's, or nothing was ever sent.
THEOREM OutcomesTrue == Spec => []TruthfulOutcome
<1>1. IInv => TruthfulOutcome
  BY DEF IInv, WorkInv, RowOf, TruthfulOutcome
<1> QED BY <1>1, Correct, PTL

\* No text is handed out for another prompt or another import.
THEOREM TextsTrue == Spec => []TextOfItsRequest
<1>1. IInv => TextOfItsRequest
  BY DEF IInv
<1> QED BY <1>1, Correct, PTL

\* Status requests go to the chat the turn was started in.
THEOREM LookupsInChat == Spec => []LookupStaysInChat
<1>1. IInv => LookupStaysInChat
  BY DEF IInv, WorkInv, WorkOf, LookupStaysInChat, Body, Await
<1> QED BY <1>1, Correct, PTL

\* No step changes a decided turn.
THEOREM DecisionsKept == Spec => DecidedForGood
<1>1. IInv /\ [Next]_vars => [KeepsDecisions]_vars
  BY DecidedRows DEF IInv, KeepsDecisions
<1> QED BY <1>1, Correct, PTL DEF Spec, DecidedForGood

\* No status request carries an older turn_state than the one before it.
THEOREM TurnStateForward == Spec => TurnStateAdvances
<1>1. IInv /\ [Next]_vars => [TurnsAdvance]_vars
  <2> SUFFICES ASSUME IInv, [Next]_vars PROVE TurnsAdvance \/ UNCHANGED vars
    OBVIOUS
  <2>1. sentTurn \in [Run -> Nat]
    BY DEF IInv, TypeOK
  <2>2. CASE UNCHANGED sentTurn
    BY <2>1, <2>2 DEF TurnsAdvance
  <2>3. ASSUME NEW t \in Task, Poll(t) PROVE TurnsAdvance
    <3>1. /\ cur[t] \in Run /\ receipt[t] = turn[cur[t]]
          /\ sentTurn[cur[t]] <= turn[cur[t]]
      BY <2>3 DEF Poll, IInv, PointInv, WorkInv, WorkOf, RowOf, Body, Await
    <3> QED BY <2>1, <2>3, <3>1 DEF Poll, TurnsAdvance
  <2> QED BY <2>2, <2>3
          DEF Next, Proceed, Network, Deadline, Heartbeat, MarkSubmitting, CountStart,
              Start, Started, SaveReceipt, MarkRunning, Status, KeepTurn, PollAgain,
              Finish, Fail, Handle, JournalFault, Unlock, Demand, Environment, Generate,
              Reconcile, Doctor, Acknowledge, Replay, Close, Exit, Import, Restart,
              RemoteStarts, RemoteEnds, vars, service
<1> QED BY <1>1, Correct, PTL DEF Spec, TurnStateAdvances
-----------------------------------------------------------------------------
(* The engine implements SubmitOnce.                                       *)

\* What one row contributes to the phases, case by case.
LEMMA PhaseOf ==
  ASSUME TypeOK, NEW r \in Run
  PROVE  /\ AbstractPhase[r] = "new" <=> state[r] = "none"
         /\ AbstractPhase[r] = "open" <=> state[r] \in {"preparing", "submitting", "running"}
         /\ AbstractPhase[r] = "unknown" <=> state[r] = "uncertain"
         /\ state[r] \in Decided => AbstractPhase[r] = state[r]
         /\ AbstractPhase[r] \in Promise!Phase
<1> QED BY DEF TypeOK, RunState, AbstractPhase, Decided, Outcome, Promise!Phase,
               Promise!Settled, Promise!Outcome

\* A step that writes rows as SubmitOnce allows, and sends nothing, is a Judge.
LEMMA Judged ==
  ASSUME TypeOK, TypeOK',
         UNCHANGED <<starts, remote>>,
         \A r \in Run :
           \/ state'[r] = state[r]
           \/ state[r] = "none" /\ state'[r] = "preparing"
           \/ state[r] \in {"preparing", "submitting", "running"}
                /\ state'[r] \in {"preparing", "submitting", "running", "uncertain"}
           \/ state[r] = "uncertain" /\ state'[r] = "abandoned"
           \/ /\ state[r] \in {"preparing", "submitting", "running", "uncertain"}
              /\ state'[r] \in Outcome
              /\ \/ starts[r] > 0 /\ remote[r] = state'[r]
                 \/ ~(starts[r] > 0) /\ state'[r] = "failed"
  PROVE  Promise!Judge
<1> USE DirectAssumption
<1>1. AbstractPhase' \in [Run -> Promise!Phase]
  <2>1. AbstractPhase' = [r \in Run |-> AbstractPhase'[r]]
    BY DEF AbstractPhase
  <2>2. \A r \in Run : AbstractPhase'[r] \in Promise!Phase
    BY DEF TypeOK, RunState, AbstractPhase, Promise!Phase, Promise!Settled, Promise!Outcome
  <2> QED BY <2>1, <2>2
<1>2. ASSUME NEW r \in Run
      PROVE  \/ AbstractPhase'[r] = AbstractPhase[r]
             \/ Promise!Move(r, AbstractPhase[r], AbstractPhase'[r])
  <2>1. /\ state'[r] = "none" => AbstractPhase'[r] = "new"
        /\ state'[r] \in {"preparing", "submitting", "running"} => AbstractPhase'[r] = "open"
        /\ state'[r] = "uncertain" => AbstractPhase'[r] = "unknown"
        /\ state'[r] \in Decided => AbstractPhase'[r] = state'[r]
    BY DEF AbstractPhase, Decided, Outcome
  <2>2. CASE state'[r] = state[r]
    BY <2>2 DEF AbstractPhase
  <2>3. CASE state[r] = "none" /\ state'[r] = "preparing"
    BY <2>1, <2>3, PhaseOf DEF Promise!Move
  <2>4. CASE state[r] \in {"preparing", "submitting", "running"}
               /\ state'[r] \in {"preparing", "submitting", "running", "uncertain"}
    BY <2>1, <2>4, PhaseOf DEF Promise!Move
  <2>5. CASE state[r] = "uncertain" /\ state'[r] = "abandoned"
    BY <2>1, <2>5, PhaseOf DEF Promise!Move, Decided
  <2>6. CASE /\ state[r] \in {"preparing", "submitting", "running", "uncertain"}
             /\ state'[r] \in Outcome
             /\ \/ starts[r] > 0 /\ remote[r] = state'[r]
                \/ ~(starts[r] > 0) /\ state'[r] = "failed"
    <3>1. AbstractPhase[r] \in {"open", "unknown"}
      BY <2>6, PhaseOf
    <3>2. AbstractPhase'[r] = state'[r] /\ state'[r] \in Promise!Outcome
      BY <2>1, <2>6 DEF Decided, Outcome, Promise!Outcome
    <3>3. Promise!Known(r, state'[r])
      BY <2>6 DEF Promise!Known, Outcome
    <3> QED BY <3>1, <3>2, <3>3 DEF Promise!Move
  <2> QED BY <2>2, <2>3, <2>4, <2>5, <2>6
<1>3. /\ {r \in Run : starts[r] > 0}' = {r \in Run : starts[r] > 0}
      /\ [r \in Run |-> IF remote[r] = "sent" THEN "none" ELSE remote[r]]'
           = [r \in Run |-> IF remote[r] = "sent" THEN "none" ELSE remote[r]]
  OBVIOUS
<1> QED BY <1>1, <1>2, <1>3 DEF Promise!Judge

\* A step that keeps the states, the starts and the service is a stutter.
LEMMA Stutters ==
  ASSUME UNCHANGED <<state, starts, remote>>
  PROVE  UNCHANGED Promise!vars
<1> QED BY DEF Promise!vars, AbstractPhase

\* The start request is a Send: the row is the only pending one.
LEMMA Sends ==
  ASSUME IInv, NEW t \in Task, Start(t), NEW r \in Run, r = cur[t]
  PROVE  Promise!Send(r)
<1> USE DirectAssumption
<1>1. /\ state[r] = "submitting" /\ starts[r] = 0 /\ remote[r] = "none"
      /\ starts' = [starts EXCEPT ![r] = @ + 1]
      /\ remote' = [remote EXCEPT ![r] = "sent"] /\ state' = state
  BY DEF Start, IInv, WorkInv, WorkOf, RowOf, journal
<1>2. starts \in [Run -> Nat] /\ remote \in [Run -> Remote]
  BY DEF IInv, TypeOK
<1>3. AbstractPhase[r] = "open" /\ AbstractPhase' = AbstractPhase
  BY <1>1, PhaseOf DEF IInv, AbstractPhase
<1>4. ASSUME NEW s \in Run, starts[s] > 0 PROVE AbstractPhase[s] \in Promise!Settled
  <2>1. state[s] \notin {"none", "preparing"}
    BY <1>2, <1>4 DEF IInv, WorkInv, RowOf, TypeOK
  <2>2. s # r
    BY <1>1, <1>4
  <2>3. state[s] \notin {"submitting", "running", "uncertain"}
    BY <1>1, <2>2 DEF IInv, WorkInv, SlotInv
  <2>4. state[s] \in Decided
    BY <2>1, <2>3 DEF IInv, TypeOK, RunState, Decided, Outcome
  <2> QED BY <2>4, PhaseOf DEF IInv, Decided, Outcome, Promise!Settled, Promise!Outcome
<1>5. {s \in Run : starts[s] > 0}' = {s \in Run : starts[s] > 0} \cup {r}
  BY <1>1, <1>2
<1>6. [s \in Run |-> IF remote[s] = "sent" THEN "none" ELSE remote[s]]'
        = [s \in Run |-> IF remote[s] = "sent" THEN "none" ELSE remote[s]]
  BY <1>1, <1>2
<1> QED BY <1>1, <1>3, <1>4, <1>5, <1>6 DEF Promise!Send

\* Every step of the engine is a step of SubmitOnce, or none.
LEMMA StepRefines ==
  ASSUME IInv, TypeOK', [Next]_vars
  PROVE  Promise!Next \/ UNCHANGED Promise!vars
<1> USE DirectAssumption
<1>1. /\ TypeOK /\ \A t \in Task : WorkOf(t)
      /\ \A r \in Run : RowOf(r)
      /\ starts \in [Run -> Nat] /\ startCount \in [Run -> Nat]
      /\ state \in [Run -> RunState] /\ remote \in [Run -> Remote]
  BY DEF IInv, WorkInv, TypeOK
<1>2. ASSUME UNCHANGED <<state, starts, remote>>
      PROVE  Promise!Next \/ UNCHANGED Promise!vars
  BY <1>2, Stutters
<1>3. ASSUME NEW t \in Task, MarkSubmitting(t) \/ MarkRunning(t) \/ Finish(t) \/ Handle(t)
      PROVE  Promise!Judge
  <2>1. PICK r \in Run : r = cur[t]
    BY <1>3 DEF MarkSubmitting, MarkRunning, Finish, Handle, IInv, PointInv, Body
  <2>2. UNCHANGED <<starts, remote>>
    BY <1>3 DEF MarkSubmitting, MarkRunning, Finish, Handle, service
  <2>3. \A s \in Run \ {r} : state'[s] = state[s]
    BY <1>1, <1>3, <2>1 DEF MarkSubmitting, MarkRunning, Finish, Handle
  <2>4. CASE MarkSubmitting(t) \/ MarkRunning(t)
    <3>1. /\ state[r] \in {"preparing", "submitting", "running"}
          /\ state'[r] \in {"submitting", "running"}
      BY <1>1, <2>1, <2>4 DEF MarkSubmitting, MarkRunning, WorkOf
    <3> QED BY <1>1, <2>2, <2>3, <3>1, Judged
  <2>5. CASE Finish(t)
    <3>1. /\ state[r] \in {"submitting", "running", "uncertain"}
          /\ state'[r] \in Outcome /\ remote[r] = state'[r]
      BY <1>1, <2>1, <2>5 DEF Finish, WorkOf, Polling, Outcome
    <3>2. starts[r] > 0
      BY <1>1, <3>1 DEF RowOf, Outcome
    <3> QED BY <1>1, <2>2, <2>3, <3>1, <3>2, Judged
  <2>6. CASE Handle(t)
    <3>1. state[r] \in {"preparing", "submitting", "running"} \cup Outcome
      BY <1>1, <2>1, <2>6 DEF Handle, WorkOf
    <3>2. CASE state[r] \in Outcome
      <4>1. state'[r] = state[r]
        BY <1>1, <2>1, <2>6, <3>2 DEF Handle
      <4> QED BY <2>2, <2>3, <4>1, Judged, <1>1
    <3>3. CASE state[r] \notin Outcome /\ t \in submitted
      <4>1. state'[r] = "uncertain"
        BY <1>1, <2>1, <2>6, <3>3 DEF Handle
      <4> QED BY <1>1, <2>2, <2>3, <3>1, <3>3, <4>1, Judged
    <3>4. CASE state[r] \notin Outcome /\ t \notin submitted
      <4>1. state'[r] = "failed" /\ starts[r] = 0
        BY <1>1, <2>1, <2>6, <3>4 DEF Handle, WorkOf
      <4> QED BY <1>1, <2>2, <2>3, <3>1, <3>4, <4>1, Judged DEF Outcome
    <3> QED BY <3>2, <3>3, <3>4
  <2> QED BY <1>3, <2>4, <2>5, <2>6
<1>4. ASSUME NEW t \in Task, Generate(t) PROVE Promise!Judge
  <2>1. PICK r \in Run : state[r] = "none" /\ state' = [state EXCEPT ![r] = "preparing"]
    BY <1>4 DEF Generate
  <2>2. UNCHANGED <<starts, remote>>
    BY <1>4 DEF Generate, service
  <2> QED BY <1>1, <2>1, <2>2, Judged
<1>5. ASSUME NEW r \in Run, Acknowledge(r) PROVE Promise!Judge
  <2>1. /\ state[r] = "uncertain" /\ state' = [state EXCEPT ![r] = "abandoned"]
        /\ UNCHANGED <<starts, remote>>
    BY <1>5 DEF Acknowledge, service
  <2> QED BY <1>1, <2>1, Judged
<1>6. ASSUME Restart PROVE Promise!Judge
  <2>1. /\ state' = [r \in Run |-> Recover(state[r])]
        /\ UNCHANGED <<starts, remote>>
    BY <1>6 DEF Restart, service
  <2>2. \A r \in Run :
          \/ state'[r] = state[r]
          \/ state[r] \in {"submitting", "running"} /\ state'[r] = "uncertain"
          \/ state[r] = "preparing" /\ state'[r] = "failed" /\ starts[r] = 0
    BY <1>1, <2>1 DEF Recover, RowOf
  <2> QED BY <1>1, <2>1, <2>2, Judged DEF Outcome
<1>7. ASSUME NEW r \in Run, RemoteStarts(r) \/ RemoteEnds(r)
      PROVE  Promise!Begin(r) \/ Promise!End(r)
  <2>1. starts[r] > 0 /\ remote[r] \in {"sent", "active"}
    BY <1>1, <1>7 DEF RemoteStarts, RemoteEnds, RowOf
  <2>2. UNCHANGED <<state, starts>>
    BY <1>7 DEF RemoteStarts, RemoteEnds, journal
  <2>3. AbstractPhase' = AbstractPhase
    BY <2>2 DEF AbstractPhase
  <2>4. CASE RemoteStarts(r)
    BY <1>1, <2>1, <2>2, <2>3, <2>4 DEF RemoteStarts, Promise!Begin
  <2>5. CASE RemoteEnds(r)
    <3>1. PICK v \in Outcome : remote' = [remote EXCEPT ![r] = v]
      BY <2>5 DEF RemoteEnds
    <3>2. remote[r] = "active"
      BY <2>5 DEF RemoteEnds
    <3>3. [s \in Run |-> IF remote[s] = "sent" THEN "none" ELSE remote[s]]'
            = [[s \in Run |-> IF remote[s] = "sent" THEN "none" ELSE remote[s]]
                 EXCEPT ![r] = v]
      BY <1>1, <3>1, <3>2 DEF Outcome
    <3> QED BY <2>2, <2>3, <3>1, <3>2, <3>3 DEF Promise!End, Promise!Outcome, Outcome
  <2> QED BY <1>7, <2>4, <2>5
<1>8. ASSUME NEW t \in Task, Start(t) PROVE \E r \in Run : Promise!Send(r)
  <2>1. PICK r \in Run : r = cur[t]
    BY <1>8 DEF Start, IInv, PointInv, Body, Await
  <2>2. Promise!Send(r)
    BY <1>8, <2>1, Sends
  <2> QED BY <2>2
<1> QED BY <1>2, <1>3, <1>4, <1>5, <1>6, <1>7, <1>8
        DEF Promise!Next, Next, Proceed, Network, Deadline, Heartbeat, CountStart,
            Started, SaveReceipt, Poll, Status, KeepTurn, PollAgain, Fail,
            JournalFault, Unlock, Demand, Environment, Reconcile, Doctor, Replay,
            Close, Exit, Import, vars, journal, service

\* The engine implements SubmitOnce under the mapping of DirectEngine: one request
\* per turn, alone in the chat, with an outcome only when it is known.
THEOREM Refines == Spec => SubmitsOnce
<1>1. Init => Promise!Init
  BY DEF Init, Promise!Init, AbstractPhase
<1>2. IInv /\ TypeOK' /\ [Next]_vars => [Promise!Next]_(Promise!vars)
  BY StepRefines
<1> QED BY <1>1, <1>2, Correct, TypeCorrect, PTL DEF Spec, SubmitsOnce, Promise!Spec
=============================================================================
