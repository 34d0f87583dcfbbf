------------------------- MODULE RunSupervisorProofs -------------------------
(***************************************************************************)
(* Theorems about RunSupervisor for every value of its constants.          *)
(*                                                                         *)
(* The invariant is built in layers, each proved with the ones before it:  *)
(* types; who holds the generation lock; what the program point of the     *)
(* holder says of its run and of the ledger; who owns a run in flight.     *)
(***************************************************************************)
EXTENDS RunSupervisor, TLAPS

\* A busy thread has a run, and one about to save a receipt has a receipt.
PointInv ==
  \A t \in Thread :
    /\ pc[t] \notin {"idle", "enqueue", "dead"} => cur[t] \in Run
    /\ pc[t] = "receipt" => last[t] \in Receipt
    /\ pc[t] = "misread" => last[t] \in {"uncertain", "failed"}

\* The generation lock is held exactly at the locked program points, a
\* lookup only visits the points it shares with an execution, and a process
\* that is down runs nothing.
LockInv ==
  /\ \A t \in Thread : pc[t] \in LockedPc <=> holder = t
  /\ \A t \in looking : pc[t] \in {"lookup", "observe", "conclude", "release", "unlock"}
  /\ \A t \in Thread : pc[t] = "lookup" => t \in looking
  /\ ~up => \A t \in Thread : pc[t] = "idle"

\* Another thread, which could not read the input, has marked the run since its
\* execution recorded an intent.
Marked(r) == state[r] = "uncertain" \/ r \in overtaken

\* What the program point of an execution says of the run it works for.
WorkOf(t) ==
  LET r == cur[t] IN
  /\ pc[t] \notin {"idle", "enqueue", "dead"} => state[r] # "none"
  /\ pc[t] = "misread" /\ last[t] = "uncertain" => HasRemoteIntent(r)
  /\ pc[t] \in {"prepare", "bind", "bound"} =>
       (state[r] = "preparing" \/ Marked(r)) /\ prep[r] # "none" /\ attempt[r] = "none"
  /\ pc[t] = "prepare" => calls["prepare"][r] = 0
  /\ pc[t] \in {"submit", "receipt", "saved"} =>
       (state[r] = "submitting" \/ Marked(r)) /\ attempt[r] # "none"
  /\ pc[t] = "submit" => calls["submit"][r] = 0
  /\ pc[t] \in {"observe", "cancelling", "conclude"} /\ t \notin looking =>
       (state[r] = "running" \/ Marked(r)) /\ HasRemoteIntent(r)
  /\ pc[t] = "cancelling" => r \in cancelSent /\ calls["cancel"][r] = 0
  /\ pc[t] = "conclude" => last[t] = remote[r] /\ remote[r] \in Terminal
  /\ pc[t] = "relock" \/ t \in looking => state[r] \in Terminal \cup {"uncertain"}

\* How the state of a run, its intents, the calls made and the remote task agree.
LedgerOf(r) ==
  /\ state[r] \in {"none", "queued"} => prep[r] = "none"
  /\ state[r] \in {"none", "queued", "preparing"} => attempt[r] = "none"
  /\ state[r] \in {"preparing", "submitting", "running", "uncertain", "succeeded"} =>
       HasRemoteIntent(r)
  /\ state[r] \in {"submitting", "running"} => attempt[r] # "none"
  /\ prep[r] = "none" => calls["prepare"][r] = 0
  /\ attempt[r] = "none" => calls["submit"][r] = 0
  /\ calls["submit"][r] = 0 => remote[r] = "none"
  /\ r \notin cancelSent => calls["cancel"][r] = 0
  /\ \A op \in Op : calls[op][r] \in {0, 1}
  /\ r \in overtaken => state[r] = "failed"
  /\ state[r] \in Terminal /\ r \notin overtaken =>
       \/ remote[r] = state[r]
       \/ remote[r] = "none" /\ state[r] # "succeeded" /\ attempt[r] = "none"
  /\ state[r] = "succeeded" <=> r \in published

WorkInv == (\A t \in Thread : WorkOf(t)) /\ (\A r \in Run : LedgerOf(r))

\* The program points between the lease of a run and its outcome.
OwnPc == (ExecPc \ {"locked", "admitted"}) \cup {"except"}

\* A run in preparation, submission or observation belongs to the thread
\* that holds the lock, unless the journal failed under its handler.
OwnerInv ==
  \A r \in Run :
    state[r] \in {"preparing", "submitting", "running"} /\ up /\ ~faulted =>
      \E t \in Thread \ looking : holder = t /\ cur[t] = r /\ pc[t] \in OwnPc

SlotInv == OwnerInv /\ OneInFlight

\* The program points from the lease to the end of the observation: in between
\* nobody else's run is in flight, whatever has become of the execution's own.
WritePc == {"prepare", "bind", "bound", "submit", "receipt", "saved", "observe",
            "cancelling"}

AloneInv ==
  \A t \in Thread \ looking, r \in Run :
    pc[t] \in WritePc /\ state[r] \in InFlight => r = cur[t]

\* A reserved context is reserved for a dispatched run of that context.
BusyInv ==
  \A c \in Ctx, r \in Run :
    busy[c] = r => CtxOf(r) = c /\ state[r] \notin {"none", "queued"}

\* One queued run at a time reserves the writing of a context.
QueueInv ==
  \A r, s \in Run :
    state[r] = "queued" /\ state[s] = "queued" /\ CtxOf(r) = CtxOf(s) => r = s

\* idempotency_records names the run accepted with the key.
KeyInv ==
  \A r \in Run :
    state[r] # "none" /\ request[r].key # NoKey => keyRun[request[r].key] = r

ContextInv ==
  ContextReserved /\ BusyInv /\ FrozenRevision /\ QueueInv /\ KeyInv

\* The inductive invariant: each conjunct is preserved with the help of the
\* ones before it.
IInv ==
  TypeOK /\ PointInv /\ LockInv /\ WorkInv /\ SlotInv /\ AloneInv /\ ContextInv

\* Types are preserved by every action, given that a busy thread has a run
\* and that a thread that saves a receipt has one (PointInv): the code's
\* locals record.run_id and handle are set before they are used.
LEMMA TypedInit == Init => TypeOK /\ PointInv
<1> SUFFICES ASSUME Init PROVE TypeOK /\ PointInv
  OBVIOUS
<1> USE DEF Init, FreshProcess
<1>1. NoRequest \in Request
  BY DEF NoRequest, Request
<1>2. PointInv
  BY DEF PointInv
<1>3. /\ state \in [Run -> RunState] /\ request \in [Run -> Request]
      /\ prep \in [Run -> {"none", "uncertain", "confirmed"}]
      /\ attempt \in [Run -> {"none", "intent"} \cup Receipt]
      /\ remote \in [Run -> Remote] /\ calls \in [Op -> [Run -> Nat]]
  BY <1>1 DEF RunState, Remote
<1>4. /\ pc \in [Thread -> Pc] /\ last \in [Thread -> Last]
      /\ asked \in [Thread -> Request]
  BY <1>1 DEF Pc, Last
<1> QED BY <1>2, <1>3, <1>4 DEF TypeOK

\* CtxOf (context_ref of a run) names a context.
LEMMA CtxOfType == ASSUME TypeOK, NEW r \in Run PROVE CtxOf(r) \in Ctx
  BY DEF TypeOK, CtxOf, Ctx, Request

\* A step that leaves the other threads where they are.
LEMMA PointStep ==
  ASSUME PointInv, NEW t \in Thread,
         \A s \in Thread \ {t} : pc'[s] = pc[s] /\ cur'[s] = cur[s] /\ last'[s] = last[s],
         pc'[t] \notin {"idle", "enqueue", "dead"} => cur'[t] \in Run,
         pc'[t] \notin {"receipt", "misread"}
  PROVE  PointInv'
  BY DEF PointInv

\* A call that is over, and one that raises to its caller, leave a thread that
\* waits for the next or looks at the error.
LEMMA LeavesTyped ==
  ASSUME TypeOK, PointInv, NEW t \in Thread,
         Done(t) \/ (pc[t] \notin {"idle", "enqueue", "dead"} /\ GiveUp(t))
  PROVE  /\ PointInv' /\ pc' \in [Thread -> Pc] /\ cur' \in [Thread -> Run \cup {0}]
         /\ last' \in [Thread -> Last]
<1>1. CASE Done(t)
  <2>1. /\ pc' = [pc EXCEPT ![t] = "idle"] /\ cur' = [cur EXCEPT ![t] = 0]
        /\ last' = [last EXCEPT ![t] = "none"]
        /\ pc \in [Thread -> Pc] /\ cur \in [Thread -> Run \cup {0}]
        /\ last \in [Thread -> Last]
    BY <1>1 DEF Done, GoTo, TypeOK
  <2>2. PointInv'
    BY <2>1, PointStep
  <2> QED BY <2>1, <2>2 DEF Pc, Last
<1>2. CASE ~Done(t)
  <2>1. /\ pc' = [pc EXCEPT ![t] = "after"] /\ cur' = cur
        /\ last' = [last EXCEPT ![t] = "error"]
        /\ pc \in [Thread -> Pc] /\ cur \in [Thread -> Run \cup {0}]
        /\ last \in [Thread -> Last] /\ cur[t] \in Run
    BY <1>2 DEF GiveUp, GoTo, TypeOK, PointInv
  <2>2. PointInv'
    BY <2>1, PointStep
  <2> QED BY <2>1, <2>2 DEF Pc, Last
<1> QED BY <1>1, <1>2

\* No step of a thread breaks a type or leaves a busy thread without a run.
LEMMA TypedStep ==
  ASSUME TypeOK, PointInv, NEW t \in Thread, Step(t)
  PROVE  TypeOK' /\ PointInv'
<1> USE BoundsAssumption DEF TypeOK, PointInv, vars, journal, intake, wishes, effects,
        contexts, process, threads, locals, world, GoTo, Raise, Done, Pc, LockedPc, ExecPc
<1>1. CASE EnqueueCommit(t)
  <2>1. PICK r \in Run : Insert(r, asked[t])
    BY <1>1 DEF EnqueueCommit
  <2>2. rev[IF asked[t].ctx = Isolated THEN r ELSE asked[t].ctx] \in Nat
    BY DEF Request, Ctx
  <2>3. request' \in [Run -> Request]
    BY <2>1, <2>2 DEF Insert, Request
  <2>4. state' \in [Run -> RunState] /\ keyRun' \in [Key -> Run \cup {0}]
    BY <2>1 DEF Insert, RunState, Request
  <2>5. asked' \in [Thread -> Request]
    BY <1>1 DEF EnqueueCommit, Request, NoRequest
  <2> QED BY <1>1, <2>3, <2>4, <2>5 DEF EnqueueCommit
<1>2. CASE EnqueueReturn(t)
  BY <1>2 DEF EnqueueReturn, Request, NoRequest
<1>3. CASE WorkerPick(t)
  BY <1>3 DEF WorkerPick
<1>4. CASE Acquire(t)
  BY <1>4 DEF Acquire
<1>5. CASE WaitTimeout(t)
  BY <1>5, LeavesTyped DEF WaitTimeout
<1>6. CASE Admit(t)
  BY <1>6 DEF Admit
<1>7. CASE Blocked(t)
  BY <1>7 DEF Blocked, Last
<1>8. CASE Begin(t)
  <2>1. cur[t] \in Run /\ CtxOf(cur[t]) \in Ctx
    BY <1>8, CtxOfType DEF Begin
  <2>2. epoch[CtxOf(cur[t])] + 1 \in Nat
    BY <2>1
  <2>3. /\ lease' \in [Thread -> Nat]
        /\ UNCHANGED <<published, intake, wishes, attempt, attemptEpoch, rev, process,
                       cur, looking, asked, world>>
    BY <1>8, <2>2 DEF Begin
  <2>4. \/ /\ busy' = [busy EXCEPT ![CtxOf(cur[t])] = cur[t]]
           /\ epoch' = [epoch EXCEPT ![CtxOf(cur[t])] = @ + 1]
           /\ state' = [state EXCEPT ![cur[t]] = "preparing"]
           /\ prep' = [prep EXCEPT ![cur[t]] = "uncertain"]
           /\ GoTo(t, "prepare") /\ UNCHANGED last
        \/ Raise(t, "error") /\ UNCHANGED <<busy, epoch, state, prep>>
    BY <1>8 DEF Begin
  <2>5. state' \in [Run -> RunState] /\ prep' \in [Run -> {"none", "uncertain", "confirmed"}]
    <3>1. \/ state' = state /\ prep' = prep
          \/ /\ state' = [state EXCEPT ![cur[t]] = "preparing"]
             /\ prep' = [prep EXCEPT ![cur[t]] = "uncertain"]
      BY <2>4
    <3>2. /\ state \in [Run -> RunState] /\ cur[t] \in Run
          /\ prep \in [Run -> {"none", "uncertain", "confirmed"}]
      BY <2>1
    <3> HIDE DEF TypeOK, PointInv
    <3> QED BY <3>1, <3>2 DEF RunState
  <2>6. busy' \in [Ctx -> Run \cup {0}]
    BY <2>1, <2>4
  <2>7. epoch' \in [Ctx -> Nat]
    BY <2>1, <2>2, <2>4
  <2>8. pc' \in [Thread -> Pc] /\ last' \in [Thread -> Last]
    BY <2>4 DEF Last
  <2>9. PointInv'
    <3>1. cur' = cur
      BY <2>3
    <3>2. pc'[t] \notin {"receipt", "misread"} /\ \A s \in Thread \ {t} : pc'[s] = pc[s] /\ last'[s] = last[s]
      BY <2>4
    <3> QED BY <2>1, <3>1, <3>2
  <2> QED BY <2>3, <2>5, <2>6, <2>7, <2>8, <2>9
<1>9. CASE Prepare(t)
  BY <1>9 DEF Prepare, Call, Op, Last
<1>10. CASE Bind(t)
  BY <1>10 DEF Bind
<1>11. CASE CommitIntent(t)
  BY <1>11 DEF CommitIntent, RunState
<1>12. CASE CancelBeforeGeneration(t)
  BY <1>12 DEF CancelBeforeGeneration, Last, Terminal
<1>13. CASE Submit(t)
  BY <1>13 DEF Submit, Call, Op, Remote, Last, Receipt
<1>14. CASE SaveReceipt(t)
  BY <1>14 DEF SaveReceipt
<1>15. CASE MarkRunning(t)
  BY <1>15 DEF MarkRunning, RunState
<1>16. CASE DispatchCancel(t)
  BY <1>16 DEF DispatchCancel, MayObserve
<1>17. CASE RequestCancel(t)
  BY <1>17 DEF RequestCancel, Call, Op, Last
<1>18. CASE ObserveTerminal(t)
  BY <1>18 DEF ObserveTerminal, MayObserve, Last
<1>19. CASE Publish(t)
  <2>1. cur[t] \in Run /\ CtxOf(cur[t]) \in Ctx
    BY <1>19, CtxOfType DEF Publish
  <2> QED BY <1>19, <2>1 DEF Publish, RunState, Last
<1>20. CASE SetOutcome(t)
  BY <1>20 DEF SetOutcome, RunState, Last, Terminal
<1>21. CASE Fail(t)
  BY <1>21 DEF Fail, Last
<1>22. CASE Handle(t)
  BY <1>22 DEF Handle, RunState
<1>23. CASE JournalFault(t)
  BY <1>23 DEF JournalFault
<1>24. CASE Release(t)
  BY <1>24 DEF Release, Ctx
<1>25. CASE Unlock(t)
  <2>1. CASE t \in Worker /\ last[t] # "none"
    BY <1>25, <2>1 DEF Unlock, Last
  <2>2. CASE Done(t)
    <3>1. /\ PointInv' /\ pc' \in [Thread -> Pc] /\ cur' \in [Thread -> Run \cup {0}]
          /\ last' \in [Thread -> Last]
      <4> HIDE DEF Done, TypeOK, PointInv, Pc
      <4> QED BY <2>2, LeavesTyped
    <3> QED BY <1>25, <3>1 DEF Unlock
  <2> QED BY <1>25, <2>1, <2>2 DEF Unlock
<1>26. CASE WorkerAfter(t)
  BY <1>26 DEF WorkerAfter, Last
<1>27. CASE ReconcileLock(t)
  <2>1. CASE holder = NoThread
    <3>1. /\ pc' = [pc EXCEPT ![t] = "lookup"] /\ cur' = cur /\ last' = last
          /\ pc[t] = "relock"
      BY <1>27, <2>1 DEF ReconcileLock
    <3>2. PointInv'
      BY <3>1, PointStep
    <3> QED BY <1>27, <2>1, <3>1, <3>2 DEF ReconcileLock
  <2>2. CASE Done(t) /\ UNCHANGED <<holder, looking>>
    <3>1. /\ PointInv' /\ pc' \in [Thread -> Pc] /\ cur' \in [Thread -> Run \cup {0}]
          /\ last' \in [Thread -> Last]
      <4> HIDE DEF Done, TypeOK, PointInv, Pc
      <4> QED BY <2>2, LeavesTyped
    <3> QED BY <1>27, <2>2, <3>1 DEF ReconcileLock
  <2> QED BY <1>27, <2>1, <2>2 DEF ReconcileLock
<1>28. CASE Lookup(t)
  BY <1>28 DEF Lookup
<1>29. CASE Misread(t)
  <2>1. last' \in [Thread -> Last] /\ last'[t] \in {"uncertain", "failed"}
    BY <1>29 DEF Misread, Last, Terminal
  <2>2. \A s \in Thread \ {t} : last'[s] = last[s]
    BY <1>29 DEF Misread
  <2> QED BY <1>29, <2>1, <2>2 DEF Misread
<1>30. CASE MarkUnread(t)
  <2>1. state' \in [Run -> RunState] /\ overtaken' \subseteq Run
    <3>1. cur[t] \in Run /\ last[t] \in RunState
      BY <1>30 DEF MarkUnread, RunState
    <3> QED BY <1>30, <3>1 DEF MarkUnread
  <2>2. PointInv' /\ pc' \in [Thread -> Pc] /\ cur' \in [Thread -> Run \cup {0}]
          /\ last' \in [Thread -> Last]
    BY <1>30, LeavesTyped DEF MarkUnread
  <2> QED BY <1>30, <2>1, <2>2 DEF MarkUnread
<1> QED BY <1>1, <1>2, <1>3, <1>4, <1>5, <1>6, <1>7, <1>8, <1>9, <1>10,
       <1>11, <1>12, <1>13, <1>14, <1>15, <1>16, <1>17, <1>18, <1>19, <1>20,
       <1>21, <1>22, <1>23, <1>24, <1>25, <1>26, <1>27, <1>28, <1>29, <1>30 DEF Step

\* Every variable has its type, and a thread away from its start is about a run.
THEOREM TypeCorrect == Spec => [](TypeOK /\ PointInv)
<1>1. TypeOK /\ PointInv /\ [Next]_vars => TypeOK' /\ PointInv'
  <2> SUFFICES ASSUME TypeOK, PointInv, [Next]_vars PROVE TypeOK' /\ PointInv'
    OBVIOUS
  <2>1. ASSUME NEW t \in Thread, Step(t) PROVE TypeOK' /\ PointInv'
    BY <2>1, TypedStep
  <2> USE DEF TypeOK, PointInv, vars, journal, intake, wishes, effects,
          contexts, process, threads, locals, world, GoTo, Pc, LockedPc, ExecPc
  <2>2. ASSUME NEW t \in Caller, EnqueueCheck(t) PROVE TypeOK' /\ PointInv'
    BY <2>2 DEF EnqueueCheck, Request, Thread, Ctx
  <2>3. ASSUME NEW t \in Caller, NEW r \in Run, CallExecute(t, r) PROVE TypeOK' /\ PointInv'
    BY <2>3 DEF CallExecute, Thread
  <2>4. ASSUME NEW t \in Caller, NEW r \in Run, ReconcileStart(t, r) PROVE TypeOK' /\ PointInv'
    BY <2>4 DEF ReconcileStart, Thread
  <2>5. ASSUME NEW r \in Run, Cancel(r) PROVE TypeOK' /\ PointInv'
    BY <2>5 DEF Cancel, RunState
  <2>6. CASE Stop
    BY <2>6 DEF Stop
  <2>7. CASE Exit
    BY <2>7 DEF Exit, FreshProcess, Last, Request, NoRequest
  <2>8. CASE Restart
    BY <2>8 DEF Restart, RunState
  <2>9. ASSUME NEW r \in Run, RemoteEnds(r) PROVE TypeOK' /\ PointInv'
    BY <2>9 DEF RemoteEnds, Remote
  <2>10. CASE UNCHANGED vars
    BY <2>10
  <2>13. ASSUME NEW t \in Worker, WorkerDies(t) PROVE TypeOK' /\ PointInv'
    BY <2>13 DEF WorkerDies, Thread, Last
  <2>14. ASSUME NEW t \in Worker, StartWorker(t) PROVE TypeOK' /\ PointInv'
    BY <2>14 DEF StartWorker, Thread
  <2> QED BY <2>1, <2>2, <2>3, <2>4, <2>5, <2>6, <2>7, <2>8, <2>9, <2>10, <2>13, <2>14
            DEF Next, Demand, Environment
<1> QED BY TypedInit, <1>1, PTL DEF Spec
-----------------------------------------------------------------------------
(* The generation lock.                                                    *)

\* The lock changes hands only where the program point says so.
LEMMA LockStep ==
  ASSUME TypeOK, PointInv, LockInv, NEW t \in Thread, Step(t)
  PROVE  LockInv'
<1> USE NamesAssumption DEF TypeOK, PointInv, LockInv, journal, process, threads, locals, world,
        GoTo, Raise, Done, LockedPc, ExecPc
<1>1. CASE EnqueueCommit(t)
  BY <1>1 DEF EnqueueCommit
<1>2. CASE EnqueueReturn(t)
  BY <1>2 DEF EnqueueReturn
<1>3. CASE WorkerPick(t)
  BY <1>3 DEF WorkerPick
<1>4. CASE Acquire(t)
  BY <1>4 DEF Acquire
<1>5. CASE WaitTimeout(t)
  <2>1. PICK p \in {"after", "idle"} : pc' = [pc EXCEPT ![t] = p]
    BY <1>5 DEF WaitTimeout, GiveUp, Done
  <2>2. pc[t] = "wait" /\ holder' = holder /\ looking' = looking /\ up' = up
    BY <1>5 DEF WaitTimeout, GiveUp, Done
  <2> QED BY <2>1, <2>2
<1>6. CASE Admit(t)
  BY <1>6 DEF Admit
<1>7. CASE Blocked(t)
  BY <1>7 DEF Blocked
<1>8. CASE Begin(t)
  <2>1. PICK p \in {"prepare", "except"} : pc' = [pc EXCEPT ![t] = p]
    BY <1>8 DEF Begin
  <2>2. pc[t] = "admitted" /\ holder' = holder /\ looking' = looking /\ up' = up
    BY <1>8 DEF Begin
  <2> QED BY <2>1, <2>2
<1>9. CASE Prepare(t)
  BY <1>9 DEF Prepare
<1>10. CASE Bind(t)
  BY <1>10 DEF Bind
<1>11. CASE CommitIntent(t)
  BY <1>11 DEF CommitIntent
<1>12. CASE CancelBeforeGeneration(t)
  BY <1>12 DEF CancelBeforeGeneration
<1>13. CASE Submit(t)
  <2>1. PICK p \in {"receipt", "except"} : pc' = [pc EXCEPT ![t] = p]
    BY <1>13 DEF Submit
  <2>2. pc[t] = "submit" /\ holder' = holder /\ looking' = looking /\ up' = up
    BY <1>13 DEF Submit
  <2> QED BY <2>1, <2>2
<1>14. CASE SaveReceipt(t)
  BY <1>14 DEF SaveReceipt
<1>15. CASE MarkRunning(t)
  BY <1>15 DEF MarkRunning
<1>16. CASE DispatchCancel(t)
  BY <1>16 DEF DispatchCancel, MayObserve, CancelDue
<1>17. CASE RequestCancel(t)
  <2>1. pc[t] = "cancelling" /\ t \notin looking /\ holder = t
    BY <1>17 DEF RequestCancel
  <2>2. pc' = [pc EXCEPT ![t] = "observe"] \/ pc' = [pc EXCEPT ![t] = "except"]
    BY <1>17, <2>1 DEF RequestCancel
  <2> QED BY <1>17, <2>1, <2>2 DEF RequestCancel
<1>18. CASE ObserveTerminal(t)
  BY <1>18 DEF ObserveTerminal, MayObserve
<1>19. CASE Publish(t)
  BY <1>19 DEF Publish
<1>20. CASE SetOutcome(t)
  BY <1>20 DEF SetOutcome
<1>21. CASE Fail(t)
  BY <1>21 DEF Fail
<1>22. CASE Handle(t)
  BY <1>22 DEF Handle
<1>23. CASE JournalFault(t)
  BY <1>23 DEF JournalFault
<1>24. CASE Release(t)
  BY <1>24 DEF Release
<1>25. CASE Unlock(t)
  BY <1>25 DEF Unlock
<1>26. CASE WorkerAfter(t)
  BY <1>26 DEF WorkerAfter
<1>27. CASE ReconcileLock(t)
  BY <1>27 DEF ReconcileLock
<1>28. CASE Lookup(t)
  BY <1>28 DEF Lookup
<1>29. CASE Misread(t)
  BY <1>29 DEF Misread
<1>30. CASE MarkUnread(t)
  <2>1. PICK p \in {"after", "idle"} : pc' = [pc EXCEPT ![t] = p]
    BY <1>30 DEF MarkUnread, GiveUp
  <2>2. pc[t] = "misread" /\ holder' = holder /\ looking' = looking /\ up' = up
    BY <1>30 DEF MarkUnread
  <2> QED BY <2>1, <2>2
<1> QED BY <1>1, <1>2, <1>3, <1>4, <1>5, <1>6, <1>7, <1>8, <1>9, <1>10,
       <1>11, <1>12, <1>13, <1>14, <1>15, <1>16, <1>17, <1>18, <1>19, <1>20,
       <1>21, <1>22, <1>23, <1>24, <1>25, <1>26, <1>27, <1>28, <1>29, <1>30 DEF Step

\* Exactly the thread at a locked program point holds _generation_lock, and
\* a dead process has no thread at work.
THEOREM LockCorrect == Spec => []LockInv
<1>1. Init => LockInv
  BY NamesAssumption DEF Init, LockInv, FreshProcess, LockedPc, ExecPc
<1>2. TypeOK /\ PointInv /\ LockInv /\ [Next]_vars => LockInv'
  <2> SUFFICES ASSUME TypeOK, PointInv, LockInv, [Next]_vars PROVE LockInv'
    OBVIOUS
  <2>1. ASSUME NEW t \in Thread, Step(t) PROVE LockInv'
    BY <2>1, LockStep
  <2> USE NamesAssumption DEF TypeOK, PointInv, LockInv, vars, journal, process, threads, locals, world, GoTo,
          LockedPc, ExecPc
  <2>2. ASSUME NEW t \in Caller, EnqueueCheck(t) PROVE LockInv'
    BY <2>2 DEF EnqueueCheck, Thread
  <2>3. ASSUME NEW t \in Caller, NEW r \in Run, CallExecute(t, r) PROVE LockInv'
    BY <2>3 DEF CallExecute, Thread
  <2>4. ASSUME NEW t \in Caller, NEW r \in Run, ReconcileStart(t, r) PROVE LockInv'
    BY <2>4 DEF ReconcileStart, Thread
  <2>5. ASSUME NEW r \in Run, Cancel(r) PROVE LockInv'
    BY <2>5 DEF Cancel
  <2>6. CASE Stop
    BY <2>6 DEF Stop
  <2>7. CASE Exit
    BY <2>7 DEF Exit, FreshProcess
  <2>8. CASE Restart
    BY <2>8 DEF Restart
  <2>9. ASSUME NEW r \in Run, RemoteEnds(r) PROVE LockInv'
    BY <2>9 DEF RemoteEnds
  <2>10. CASE UNCHANGED vars
    BY <2>10
  <2>13. ASSUME NEW t \in Worker, WorkerDies(t) PROVE LockInv'
    BY <2>13 DEF WorkerDies, Thread
  <2>14. ASSUME NEW t \in Worker, StartWorker(t) PROVE LockInv'
    BY <2>14 DEF StartWorker, Thread
  <2> QED BY <2>1, <2>2, <2>3, <2>4, <2>5, <2>6, <2>7, <2>8, <2>9, <2>10, <2>13, <2>14
            DEF Next, Demand, Environment
<1> QED BY <1>1, <1>2, TypeCorrect, PTL DEF Spec
-----------------------------------------------------------------------------
(* Program points and the ledger.                                          *)

\* A step of t that changes no run: only t's own point has to be looked at.
LEMMA LocalStep ==
  ASSUME WorkInv, NEW t \in Thread, WorkOf(t)',
         UNCHANGED <<state, prep, attempt, calls, remote, cancelSent, published, overtaken>>,
         \A s \in Thread \ {t} :
           /\ pc'[s] = pc[s] /\ cur'[s] = cur[s] /\ last'[s] = last[s]
           /\ s \in looking' <=> s \in looking
  PROVE  WorkInv'
<1>1. ASSUME NEW s \in Thread \ {t} PROVE WorkOf(s)'
  <2>1. /\ pc'[s] = pc[s] /\ cur'[s] = cur[s] /\ last'[s] = last[s]
        /\ s \in looking' <=> s \in looking
    OBVIOUS
  <2>2. WorkOf(s)
    BY DEF WorkInv
  <2> QED BY <2>1, <2>2 DEF WorkOf, Marked, HasRemoteIntent
<1>2. ASSUME NEW r \in Run PROVE LedgerOf(r)'
  BY DEF WorkInv, LedgerOf, HasRemoteIntent
<1> QED BY <1>1, <1>2 DEF WorkInv

\* The step leaves run q and its remote task as they were.
SameRun(q) ==
  /\ state'[q] = state[q] /\ prep'[q] = prep[q]
  /\ attempt'[q] = attempt[q] /\ remote'[q] = remote[q]
  /\ \A op \in Op : calls'[op][q] = calls[op][q]
  /\ q \in cancelSent' <=> q \in cancelSent
  /\ q \in published' <=> q \in published
  /\ q \in overtaken' <=> q \in overtaken

\* A step of the lock's holder on its own run: the other threads are
\* outside the lock and care only about what is settled.
LEMMA HolderStep ==
  ASSUME LockInv, WorkInv, NEW t \in Thread, pc[t] \in LockedPc,
         NEW r \in Run, WorkOf(t)', LedgerOf(r)',
         state[r] \in Terminal \cup {"uncertain"} =>
           state'[r] \in Terminal \cup {"uncertain"},
         state'[r] # "none",
         HasRemoteIntent(r) => HasRemoteIntent(r)',
         \A q \in Run \ {r} : SameRun(q),
         \A s \in Thread \ {t} :
           pc'[s] = pc[s] /\ cur'[s] = cur[s] /\ last'[s] = last[s],
         looking' = looking,
         \A s \in Thread : pc[s] \notin {"idle", "enqueue", "dead"} => cur[s] \in Run
  PROVE  WorkInv'
<1>1. ASSUME NEW s \in Thread \ {t} PROVE WorkOf(s)'
  <2>1. pc[s] \notin LockedPc /\ s \notin looking
    BY DEF LockInv, LockedPc, ExecPc
  <2>2. pc[s] \notin {"idle", "enqueue", "dead"} => cur[s] \in Run /\ state[cur[s]] # "none"
    BY DEF WorkInv, WorkOf
  <2>3. pc[s] = "relock" => cur[s] \in Run /\ state[cur[s]] \in Terminal \cup {"uncertain"}
    BY DEF WorkInv, WorkOf
  <2>4. pc[s] = "misread" /\ last[s] = "uncertain" => cur[s] \in Run /\ HasRemoteIntent(cur[s])
    BY DEF WorkInv, WorkOf
  <2>5. pc[s] = "misread" /\ last[s] = "uncertain" =>
          attempt'[cur[s]] # "none" \/ prep'[cur[s]] # "none"
    <3>1. CASE cur[s] = r
      BY <2>4, <3>1 DEF HasRemoteIntent
    <3>2. CASE cur[s] # r
      BY <2>4, <3>2 DEF SameRun, HasRemoteIntent
    <3> QED BY <3>1, <3>2
  <2>6. pc'[s] = pc[s] /\ cur'[s] = cur[s] /\ s \notin looking'
    BY <2>1
  <2>7. pc[s] \notin {"idle", "enqueue", "dead"} => state'[cur[s]] # "none"
    BY <2>2 DEF SameRun
  <2>8. pc[s] = "relock" => state'[cur[s]] \in Terminal \cup {"uncertain"}
    BY <2>3 DEF SameRun
  <2> QED BY <2>1, <2>5, <2>6, <2>7, <2>8 DEF WorkOf, HasRemoteIntent, LockedPc, ExecPc
<1>2. ASSUME NEW q \in Run \ {r} PROVE LedgerOf(q)'
  <2>1. LedgerOf(q)
    BY DEF WorkInv
  <2>2. /\ state'[q] = state[q] /\ prep'[q] = prep[q]
        /\ attempt'[q] = attempt[q] /\ remote'[q] = remote[q]
        /\ q \in cancelSent' <=> q \in cancelSent
        /\ q \in published' <=> q \in published
        /\ q \in overtaken' <=> q \in overtaken
    BY DEF SameRun
  <2>3. \A op \in Op : calls'[op][q] = calls[op][q]
    BY DEF SameRun
  <2>4. /\ calls'["prepare"][q] = calls["prepare"][q]
        /\ calls'["submit"][q] = calls["submit"][q]
        /\ calls'["cancel"][q] = calls["cancel"][q]
    BY <2>3 DEF Op
  <2> QED BY <2>1, <2>2, <2>3, <2>4 DEF LedgerOf, HasRemoteIntent
<1> QED BY <1>1, <1>2 DEF WorkInv

\* Every step of a thread keeps program points and ledger in agreement.
LEMMA WorkStep ==
  ASSUME TypeOK, PointInv, LockInv, WorkInv, NEW t \in Thread, Step(t)
  PROVE  WorkInv'
<1> USE DEF TypeOK, PointInv, journal, intake, wishes, effects, contexts, process, threads,
        locals, world, GoTo
<1>1. CASE EnqueueCommit(t)
  <2>1. PICK r \in Run : state[r] = "none" /\ state' = [state EXCEPT ![r] = "queued"]
    BY <1>1 DEF EnqueueCommit, Insert
  <2>2. ASSUME NEW s \in Thread PROVE WorkOf(s)'
    BY <1>1, <2>1
      DEF EnqueueCommit, LockInv, WorkInv, WorkOf, Marked, HasRemoteIntent, Terminal
  <2>3. ASSUME NEW q \in Run PROVE LedgerOf(q)'
    BY <1>1, <2>1 DEF EnqueueCommit, WorkInv, LedgerOf, HasRemoteIntent, Terminal
  <2> QED BY <2>2, <2>3 DEF WorkInv
<1>2. CASE EnqueueReturn(t)
  <2>1. WorkOf(t)'
    BY <1>2
      DEF EnqueueReturn, LockInv, WorkInv, WorkOf, Marked, HasRemoteIntent, LockedPc,
          ExecPc
  <2> QED BY <1>2, <2>1, LocalStep DEF EnqueueReturn
<1>3. CASE WorkerPick(t)
  <2>1. WorkOf(t)'
    BY <1>3
      DEF WorkerPick, LockInv, WorkInv, WorkOf, Marked, HasRemoteIntent, LockedPc,
          ExecPc
  <2> QED BY <1>3, <2>1, LocalStep DEF WorkerPick
<1>4. CASE Acquire(t)
  <2>1. WorkOf(t)'
    BY <1>4
      DEF Acquire, LockInv, WorkInv, WorkOf, Marked, HasRemoteIntent, LockedPc, ExecPc
  <2> QED BY <1>4, <2>1, LocalStep DEF Acquire
<1>5. CASE WaitTimeout(t)
  <2>1. WorkOf(t)'
    BY <1>5
      DEF WaitTimeout, GiveUp, Done, LockInv, WorkInv, WorkOf, Marked, HasRemoteIntent,
          LockedPc, ExecPc
  <2> QED BY <1>5, <2>1, LocalStep DEF WaitTimeout, GiveUp, Done
<1>6. CASE Admit(t)
  <2>1. WorkOf(t)'
    BY <1>6
      DEF Admit, LockInv, WorkInv, WorkOf, Marked, HasRemoteIntent, LockedPc, ExecPc
  <2> QED BY <1>6, <2>1, LocalStep DEF Admit
<1>7. CASE Blocked(t)
  <2>1. WorkOf(t)'
    BY <1>7
      DEF Blocked, Raise, LockInv, WorkInv, WorkOf, Marked, HasRemoteIntent, LockedPc,
          ExecPc
  <2> QED BY <1>7, <2>1, LocalStep DEF Blocked, Raise
<1>8. CASE Begin(t)
  <2>1. pc[t] \in LockedPc /\ cur[t] \in Run /\ looking' = looking
    BY <1>8 DEF Begin, Raise, HasRemoteIntent, Op, LockedPc, ExecPc
  <2>2. PICK r \in Run : r = cur[t]
    BY <2>1
  <2>3. WorkOf(t)'
    BY <1>8
      DEF Begin, Raise, HasRemoteIntent, Op, LockInv, WorkInv, WorkOf, Marked, LedgerOf,
          Terminal
  <2>4. LedgerOf(r)'
    BY <1>8, <2>2
      DEF Begin, Raise, HasRemoteIntent, Op, LockInv, WorkInv, WorkOf, Marked, LedgerOf,
          Terminal
  <2>5. state[r] \in Terminal \cup {"uncertain"} =>
          state'[r] \in Terminal \cup {"uncertain"}
    BY <1>8, <2>2
      DEF Begin, Raise, HasRemoteIntent, Op, LockInv, WorkInv, WorkOf, Marked, Terminal
  <2>6. ASSUME NEW q \in Run \ {r} PROVE SameRun(q)
    BY <1>8, <2>2 DEF Begin, Raise, HasRemoteIntent, Op, SameRun
  <2>7. \A s \in Thread \ {t} : pc'[s] = pc[s] /\ cur'[s] = cur[s] /\ last'[s] = last[s]
    BY <1>8 DEF Begin, Raise, HasRemoteIntent, Op
  <2>8. \A s \in Thread : pc[s] \notin {"idle", "enqueue", "dead"} => cur[s] \in Run
    OBVIOUS
  <2>9. state'[r] # "none"
    BY <1>8, <2>2 DEF Begin, Raise, HasRemoteIntent, Op, WorkInv, WorkOf, Marked
  <2>10. HasRemoteIntent(r) => HasRemoteIntent(r)'
    BY <1>8, <2>2 DEF Begin, Raise, HasRemoteIntent, Op
  <2> QED BY <2>1, <2>3, <2>4, <2>5, <2>6, <2>7, <2>8, <2>9, <2>10, HolderStep
<1>9. CASE Prepare(t)
  <2>1. pc[t] \in LockedPc /\ cur[t] \in Run /\ looking' = looking
    BY <1>9 DEF Prepare, Raise, Call, HasRemoteIntent, Op, LockedPc, ExecPc
  <2>2. PICK r \in Run : r = cur[t]
    BY <2>1
  <2>3. WorkOf(t)'
    BY <1>9
      DEF Prepare, Raise, Call, HasRemoteIntent, Op, LockInv, WorkInv, WorkOf, Marked,
          LedgerOf, Terminal
  <2>4. LedgerOf(r)'
    BY <1>9, <2>2
      DEF Prepare, Raise, Call, HasRemoteIntent, Op, LockInv, WorkInv, WorkOf, Marked,
          LedgerOf, Terminal
  <2>5. state[r] \in Terminal \cup {"uncertain"} =>
          state'[r] \in Terminal \cup {"uncertain"}
    BY <1>9, <2>2
      DEF Prepare, Raise, Call, HasRemoteIntent, Op, LockInv, WorkInv, WorkOf, Marked,
          Terminal
  <2>6. ASSUME NEW q \in Run \ {r} PROVE SameRun(q)
    BY <1>9, <2>2 DEF Prepare, Raise, Call, HasRemoteIntent, Op, SameRun
  <2>7. \A s \in Thread \ {t} : pc'[s] = pc[s] /\ cur'[s] = cur[s] /\ last'[s] = last[s]
    BY <1>9 DEF Prepare, Raise, Call, HasRemoteIntent, Op
  <2>8. \A s \in Thread : pc[s] \notin {"idle", "enqueue", "dead"} => cur[s] \in Run
    OBVIOUS
  <2>9. state'[r] # "none"
    BY <1>9, <2>2 DEF Prepare, Raise, Call, HasRemoteIntent, Op, WorkInv, WorkOf, Marked
  <2>10. HasRemoteIntent(r) => HasRemoteIntent(r)'
    BY <1>9, <2>2 DEF Prepare, Raise, Call, HasRemoteIntent, Op
  <2> QED BY <2>1, <2>3, <2>4, <2>5, <2>6, <2>7, <2>8, <2>9, <2>10, HolderStep
<1>10. CASE Bind(t)
  <2>1. pc[t] \in LockedPc /\ cur[t] \in Run /\ looking' = looking
    BY <1>10 DEF Bind, HasRemoteIntent, Op, LockedPc, ExecPc
  <2>2. PICK r \in Run : r = cur[t]
    BY <2>1
  <2>3. WorkOf(t)'
    BY <1>10
      DEF Bind, HasRemoteIntent, Op, LockInv, WorkInv, WorkOf, Marked, LedgerOf,
          Terminal
  <2>4. LedgerOf(r)'
    BY <1>10, <2>2
      DEF Bind, HasRemoteIntent, Op, LockInv, WorkInv, WorkOf, Marked, LedgerOf,
          Terminal
  <2>5. state[r] \in Terminal \cup {"uncertain"} =>
          state'[r] \in Terminal \cup {"uncertain"}
    BY <1>10, <2>2
      DEF Bind, HasRemoteIntent, Op, LockInv, WorkInv, WorkOf, Marked, Terminal
  <2>6. ASSUME NEW q \in Run \ {r} PROVE SameRun(q)
    BY <1>10, <2>2 DEF Bind, HasRemoteIntent, Op, SameRun
  <2>7. \A s \in Thread \ {t} : pc'[s] = pc[s] /\ cur'[s] = cur[s] /\ last'[s] = last[s]
    BY <1>10 DEF Bind, HasRemoteIntent, Op
  <2>8. \A s \in Thread : pc[s] \notin {"idle", "enqueue", "dead"} => cur[s] \in Run
    OBVIOUS
  <2>9. state'[r] # "none"
    BY <1>10, <2>2 DEF Bind, HasRemoteIntent, Op, WorkInv, WorkOf, Marked
  <2>10. HasRemoteIntent(r) => HasRemoteIntent(r)'
    BY <1>10, <2>2 DEF Bind, HasRemoteIntent, Op
  <2> QED BY <2>1, <2>3, <2>4, <2>5, <2>6, <2>7, <2>8, <2>9, <2>10, HolderStep
<1>11. CASE CommitIntent(t)
  <2>1. pc[t] \in LockedPc /\ cur[t] \in Run /\ looking' = looking
    BY <1>11 DEF CommitIntent, HasRemoteIntent, Op, LockedPc, ExecPc
  <2>2. PICK r \in Run : r = cur[t]
    BY <2>1
  <2>3. WorkOf(t)'
    BY <1>11
      DEF CommitIntent, HasRemoteIntent, Op, LockInv, WorkInv, WorkOf, Marked, LedgerOf,
          Terminal
  <2>4. LedgerOf(r)'
    BY <1>11, <2>2
      DEF CommitIntent, HasRemoteIntent, Op, LockInv, WorkInv, WorkOf, Marked, LedgerOf,
          Terminal
  <2>5. state[r] \in Terminal \cup {"uncertain"} =>
          state'[r] \in Terminal \cup {"uncertain"}
    BY <1>11, <2>2
      DEF CommitIntent, HasRemoteIntent, Op, LockInv, WorkInv, WorkOf, Marked, Terminal
  <2>6. ASSUME NEW q \in Run \ {r} PROVE SameRun(q)
    BY <1>11, <2>2 DEF CommitIntent, HasRemoteIntent, Op, SameRun
  <2>7. \A s \in Thread \ {t} : pc'[s] = pc[s] /\ cur'[s] = cur[s] /\ last'[s] = last[s]
    BY <1>11 DEF CommitIntent, HasRemoteIntent, Op
  <2>8. \A s \in Thread : pc[s] \notin {"idle", "enqueue", "dead"} => cur[s] \in Run
    OBVIOUS
  <2>9. state'[r] # "none"
    BY <1>11, <2>2 DEF CommitIntent, HasRemoteIntent, Op, WorkInv, WorkOf, Marked
  <2>10. HasRemoteIntent(r) => HasRemoteIntent(r)'
    BY <1>11, <2>2 DEF CommitIntent, HasRemoteIntent, Op
  <2> QED BY <2>1, <2>3, <2>4, <2>5, <2>6, <2>7, <2>8, <2>9, <2>10, HolderStep
<1>12. CASE CancelBeforeGeneration(t)
  <2>1. WorkOf(t)'
    BY <1>12
      DEF CancelBeforeGeneration, Raise, LockInv, WorkInv, WorkOf, Marked,
          HasRemoteIntent, LockedPc, ExecPc
  <2> QED BY <1>12, <2>1, LocalStep DEF CancelBeforeGeneration, Raise
<1>13. CASE Submit(t)
  <2>1. pc[t] \in LockedPc /\ cur[t] \in Run /\ looking' = looking
    BY <1>13 DEF Submit, Raise, Call, HasRemoteIntent, Op, Receipt, LockedPc, ExecPc
  <2>2. PICK r \in Run : r = cur[t]
    BY <2>1
  <2>3. WorkOf(t)'
    BY <1>13
      DEF Submit, Raise, Call, HasRemoteIntent, Op, Receipt, LockInv, WorkInv, WorkOf,
          Marked, LedgerOf, Terminal
  <2>4. LedgerOf(r)'
    BY <1>13, <2>2
      DEF Submit, Raise, Call, HasRemoteIntent, Op, Receipt, LockInv, WorkInv, WorkOf,
          Marked, LedgerOf, Terminal
  <2>5. state[r] \in Terminal \cup {"uncertain"} =>
          state'[r] \in Terminal \cup {"uncertain"}
    BY <1>13, <2>2
      DEF Submit, Raise, Call, HasRemoteIntent, Op, Receipt, LockInv, WorkInv, WorkOf,
          Marked, Terminal
  <2>6. ASSUME NEW q \in Run \ {r} PROVE SameRun(q)
    BY <1>13, <2>2 DEF Submit, Raise, Call, HasRemoteIntent, Op, Receipt, SameRun
  <2>7. \A s \in Thread \ {t} : pc'[s] = pc[s] /\ cur'[s] = cur[s] /\ last'[s] = last[s]
    BY <1>13 DEF Submit, Raise, Call, HasRemoteIntent, Op, Receipt
  <2>8. \A s \in Thread : pc[s] \notin {"idle", "enqueue", "dead"} => cur[s] \in Run
    OBVIOUS
  <2>9. state'[r] # "none"
    BY <1>13, <2>2
      DEF Submit, Raise, Call, HasRemoteIntent, Op, Receipt, WorkInv, WorkOf, Marked
  <2>10. HasRemoteIntent(r) => HasRemoteIntent(r)'
    BY <1>13, <2>2 DEF Submit, Raise, Call, HasRemoteIntent, Op, Receipt
  <2> QED BY <2>1, <2>3, <2>4, <2>5, <2>6, <2>7, <2>8, <2>9, <2>10, HolderStep
<1>14. CASE SaveReceipt(t)
  <2>1. pc[t] \in LockedPc /\ cur[t] \in Run /\ looking' = looking
    BY <1>14 DEF SaveReceipt, HasRemoteIntent, Op, Receipt, LockedPc, ExecPc
  <2>2. PICK r \in Run : r = cur[t]
    BY <2>1
  <2>3. WorkOf(t)'
    BY <1>14
      DEF SaveReceipt, HasRemoteIntent, Op, Receipt, LockInv, WorkInv, WorkOf, Marked,
          LedgerOf, Terminal
  <2>4. LedgerOf(r)'
    BY <1>14, <2>2
      DEF SaveReceipt, HasRemoteIntent, Op, Receipt, LockInv, WorkInv, WorkOf, Marked,
          LedgerOf, Terminal
  <2>5. state[r] \in Terminal \cup {"uncertain"} =>
          state'[r] \in Terminal \cup {"uncertain"}
    BY <1>14, <2>2
      DEF SaveReceipt, HasRemoteIntent, Op, Receipt, LockInv, WorkInv, WorkOf, Marked,
          Terminal
  <2>6. ASSUME NEW q \in Run \ {r} PROVE SameRun(q)
    BY <1>14, <2>2 DEF SaveReceipt, HasRemoteIntent, Op, Receipt, SameRun
  <2>7. \A s \in Thread \ {t} : pc'[s] = pc[s] /\ cur'[s] = cur[s] /\ last'[s] = last[s]
    BY <1>14 DEF SaveReceipt, HasRemoteIntent, Op, Receipt
  <2>8. \A s \in Thread : pc[s] \notin {"idle", "enqueue", "dead"} => cur[s] \in Run
    OBVIOUS
  <2>9. state'[r] # "none"
    BY <1>14, <2>2
      DEF SaveReceipt, HasRemoteIntent, Op, Receipt, WorkInv, WorkOf, Marked
  <2>10. HasRemoteIntent(r) => HasRemoteIntent(r)'
    BY <1>14, <2>2 DEF SaveReceipt, HasRemoteIntent, Op, Receipt
  <2> QED BY <2>1, <2>3, <2>4, <2>5, <2>6, <2>7, <2>8, <2>9, <2>10, HolderStep
<1>15. CASE MarkRunning(t)
  <2>1. pc[t] \in LockedPc /\ cur[t] \in Run /\ looking' = looking
    BY <1>15 DEF MarkRunning, HasRemoteIntent, Op, LockedPc, ExecPc
  <2>2. PICK r \in Run : r = cur[t]
    BY <2>1
  <2>3. WorkOf(t)'
    BY <1>15
      DEF MarkRunning, HasRemoteIntent, Op, LockInv, WorkInv, WorkOf, Marked, LedgerOf,
          Terminal
  <2>4. LedgerOf(r)'
    BY <1>15, <2>2
      DEF MarkRunning, HasRemoteIntent, Op, LockInv, WorkInv, WorkOf, Marked, LedgerOf,
          Terminal
  <2>5. state[r] \in Terminal \cup {"uncertain"} =>
          state'[r] \in Terminal \cup {"uncertain"}
    BY <1>15, <2>2
      DEF MarkRunning, HasRemoteIntent, Op, LockInv, WorkInv, WorkOf, Marked, Terminal
  <2>6. ASSUME NEW q \in Run \ {r} PROVE SameRun(q)
    BY <1>15, <2>2 DEF MarkRunning, HasRemoteIntent, Op, SameRun
  <2>7. \A s \in Thread \ {t} : pc'[s] = pc[s] /\ cur'[s] = cur[s] /\ last'[s] = last[s]
    BY <1>15 DEF MarkRunning, HasRemoteIntent, Op
  <2>8. \A s \in Thread : pc[s] \notin {"idle", "enqueue", "dead"} => cur[s] \in Run
    OBVIOUS
  <2>9. state'[r] # "none"
    BY <1>15, <2>2 DEF MarkRunning, HasRemoteIntent, Op, WorkInv, WorkOf, Marked
  <2>10. HasRemoteIntent(r) => HasRemoteIntent(r)'
    BY <1>15, <2>2 DEF MarkRunning, HasRemoteIntent, Op
  <2> QED BY <2>1, <2>3, <2>4, <2>5, <2>6, <2>7, <2>8, <2>9, <2>10, HolderStep
<1>16. CASE DispatchCancel(t)
  <2>1. pc[t] \in LockedPc /\ cur[t] \in Run /\ looking' = looking
    BY <1>16
      DEF DispatchCancel, MayObserve, CancelDue, HasRemoteIntent, Op, LockedPc, ExecPc
  <2>2. PICK r \in Run : r = cur[t]
    BY <2>1
  <2>3. WorkOf(t)'
    BY <1>16
      DEF DispatchCancel, MayObserve, CancelDue, HasRemoteIntent, Op, LockInv, WorkInv,
          WorkOf, Marked, LedgerOf, Terminal
  <2>4. LedgerOf(r)'
    BY <1>16, <2>2
      DEF DispatchCancel, MayObserve, CancelDue, HasRemoteIntent, Op, LockInv, WorkInv,
          WorkOf, Marked, LedgerOf, Terminal
  <2>5. state[r] \in Terminal \cup {"uncertain"} =>
          state'[r] \in Terminal \cup {"uncertain"}
    BY <1>16, <2>2
      DEF DispatchCancel, MayObserve, CancelDue, HasRemoteIntent, Op, LockInv, WorkInv,
          WorkOf, Marked, Terminal
  <2>6. ASSUME NEW q \in Run \ {r} PROVE SameRun(q)
    BY <1>16, <2>2
      DEF DispatchCancel, MayObserve, CancelDue, HasRemoteIntent, Op, SameRun
  <2>7. \A s \in Thread \ {t} : pc'[s] = pc[s] /\ cur'[s] = cur[s] /\ last'[s] = last[s]
    BY <1>16 DEF DispatchCancel, MayObserve, CancelDue, HasRemoteIntent, Op
  <2>8. \A s \in Thread : pc[s] \notin {"idle", "enqueue", "dead"} => cur[s] \in Run
    OBVIOUS
  <2>9. state'[r] # "none"
    BY <1>16, <2>2
      DEF DispatchCancel, MayObserve, CancelDue, HasRemoteIntent, Op, WorkInv, WorkOf,
          Marked
  <2>10. HasRemoteIntent(r) => HasRemoteIntent(r)'
    BY <1>16, <2>2 DEF DispatchCancel, MayObserve, CancelDue, HasRemoteIntent, Op
  <2> QED BY <2>1, <2>3, <2>4, <2>5, <2>6, <2>7, <2>8, <2>9, <2>10, HolderStep
<1>17. CASE RequestCancel(t)
  <2>1. pc[t] \in LockedPc /\ cur[t] \in Run /\ looking' = looking
    BY <1>17 DEF RequestCancel, Raise, Call, HasRemoteIntent, Op, LockedPc, ExecPc
  <2>2. PICK r \in Run : r = cur[t]
    BY <2>1
  <2>3. WorkOf(t)'
    BY <1>17
      DEF RequestCancel, Raise, Call, HasRemoteIntent, Op, LockInv, WorkInv, WorkOf,
          Marked, LedgerOf, Terminal
  <2>4. LedgerOf(r)'
    BY <1>17, <2>2
      DEF RequestCancel, Raise, Call, HasRemoteIntent, Op, LockInv, WorkInv, WorkOf,
          Marked, LedgerOf, Terminal
  <2>5. state[r] \in Terminal \cup {"uncertain"} =>
          state'[r] \in Terminal \cup {"uncertain"}
    BY <1>17, <2>2
      DEF RequestCancel, Raise, Call, HasRemoteIntent, Op, LockInv, WorkInv, WorkOf,
          Marked, Terminal
  <2>6. ASSUME NEW q \in Run \ {r} PROVE SameRun(q)
    BY <1>17, <2>2 DEF RequestCancel, Raise, Call, HasRemoteIntent, Op, SameRun
  <2>7. \A s \in Thread \ {t} : pc'[s] = pc[s] /\ cur'[s] = cur[s] /\ last'[s] = last[s]
    BY <1>17 DEF RequestCancel, Raise, Call, HasRemoteIntent, Op
  <2>8. \A s \in Thread : pc[s] \notin {"idle", "enqueue", "dead"} => cur[s] \in Run
    OBVIOUS
  <2>9. state'[r] # "none"
    BY <1>17, <2>2
      DEF RequestCancel, Raise, Call, HasRemoteIntent, Op, WorkInv, WorkOf, Marked
  <2>10. HasRemoteIntent(r) => HasRemoteIntent(r)'
    BY <1>17, <2>2 DEF RequestCancel, Raise, Call, HasRemoteIntent, Op
  <2> QED BY <2>1, <2>3, <2>4, <2>5, <2>6, <2>7, <2>8, <2>9, <2>10, HolderStep
<1>18. CASE ObserveTerminal(t)
  <2>1. WorkOf(t)'
    BY <1>18
      DEF ObserveTerminal, MayObserve, LockInv, WorkInv, WorkOf, Marked,
          HasRemoteIntent, LockedPc, ExecPc
  <2> QED BY <1>18, <2>1, LocalStep DEF ObserveTerminal, MayObserve
<1>19. CASE Publish(t)
  <2>1. pc[t] \in LockedPc /\ cur[t] \in Run /\ looking' = looking
    BY <1>19 DEF Publish, HasRemoteIntent, Op, LockedPc, ExecPc
  <2>2. PICK r \in Run : r = cur[t]
    BY <2>1
  <2>3. WorkOf(t)'
    BY <1>19
      DEF Publish, HasRemoteIntent, Op, LockInv, WorkInv, WorkOf, Marked, LedgerOf,
          Terminal
  <2>4. LedgerOf(r)'
    BY <1>19, <2>2
      DEF Publish, HasRemoteIntent, Op, LockInv, WorkInv, WorkOf, Marked, LedgerOf,
          Terminal
  <2>5. state[r] \in Terminal \cup {"uncertain"} =>
          state'[r] \in Terminal \cup {"uncertain"}
    BY <1>19, <2>2
      DEF Publish, HasRemoteIntent, Op, LockInv, WorkInv, WorkOf, Marked, Terminal
  <2>6. ASSUME NEW q \in Run \ {r} PROVE SameRun(q)
    BY <1>19, <2>2 DEF Publish, HasRemoteIntent, Op, SameRun
  <2>7. \A s \in Thread \ {t} : pc'[s] = pc[s] /\ cur'[s] = cur[s] /\ last'[s] = last[s]
    BY <1>19 DEF Publish, HasRemoteIntent, Op
  <2>8. \A s \in Thread : pc[s] \notin {"idle", "enqueue", "dead"} => cur[s] \in Run
    OBVIOUS
  <2>9. state'[r] # "none"
    BY <1>19, <2>2 DEF Publish, HasRemoteIntent, Op, WorkInv, WorkOf, Marked
  <2>10. HasRemoteIntent(r) => HasRemoteIntent(r)'
    BY <1>19, <2>2 DEF Publish, HasRemoteIntent, Op
  <2> QED BY <2>1, <2>3, <2>4, <2>5, <2>6, <2>7, <2>8, <2>9, <2>10, HolderStep
<1>20. CASE SetOutcome(t)
  <2>1. pc[t] \in LockedPc /\ cur[t] \in Run /\ looking' = looking
    BY <1>20 DEF SetOutcome, Raise, HasRemoteIntent, Op, LockedPc, ExecPc
  <2>2. PICK r \in Run : r = cur[t]
    BY <2>1
  <2>3. WorkOf(t)'
    BY <1>20
      DEF SetOutcome, Raise, HasRemoteIntent, Op, LockInv, WorkInv, WorkOf, Marked,
          LedgerOf, Terminal
  <2>4. LedgerOf(r)'
    BY <1>20, <2>2
      DEF SetOutcome, Raise, HasRemoteIntent, Op, LockInv, WorkInv, WorkOf, Marked,
          LedgerOf, Terminal
  <2>5. state[r] \in Terminal \cup {"uncertain"} =>
          state'[r] \in Terminal \cup {"uncertain"}
    BY <1>20, <2>2
      DEF SetOutcome, Raise, HasRemoteIntent, Op, LockInv, WorkInv, WorkOf, Marked,
          Terminal
  <2>6. ASSUME NEW q \in Run \ {r} PROVE SameRun(q)
    BY <1>20, <2>2 DEF SetOutcome, Raise, HasRemoteIntent, Op, SameRun
  <2>7. \A s \in Thread \ {t} : pc'[s] = pc[s] /\ cur'[s] = cur[s] /\ last'[s] = last[s]
    BY <1>20 DEF SetOutcome, Raise, HasRemoteIntent, Op
  <2>8. \A s \in Thread : pc[s] \notin {"idle", "enqueue", "dead"} => cur[s] \in Run
    OBVIOUS
  <2>9. state'[r] # "none"
    BY <1>20, <2>2 DEF SetOutcome, Raise, HasRemoteIntent, Op, WorkInv, WorkOf, Marked
  <2>10. HasRemoteIntent(r) => HasRemoteIntent(r)'
    BY <1>20, <2>2 DEF SetOutcome, Raise, HasRemoteIntent, Op
  <2> QED BY <2>1, <2>3, <2>4, <2>5, <2>6, <2>7, <2>8, <2>9, <2>10, HolderStep
<1>21. CASE Fail(t)
  <2>1. WorkOf(t)'
    BY <1>21
      DEF Fail, Raise, LockInv, WorkInv, WorkOf, Marked, HasRemoteIntent, LockedPc,
          ExecPc
  <2> QED BY <1>21, <2>1, LocalStep DEF Fail, Raise
<1>22. CASE Handle(t)
  <2>1. pc[t] \in LockedPc /\ cur[t] \in Run /\ looking' = looking
    BY <1>22 DEF Handle, HasRemoteIntent, Op, LockedPc, ExecPc
  <2>2. PICK r \in Run : r = cur[t]
    BY <2>1
  <2>3. WorkOf(t)'
    BY <1>22
      DEF Handle, HasRemoteIntent, Op, LockInv, WorkInv, WorkOf, Marked, LedgerOf,
          Terminal
  <2>4. LedgerOf(r)'
    BY <1>22, <2>2
      DEF Handle, HasRemoteIntent, Op, LockInv, WorkInv, WorkOf, Marked, LedgerOf,
          Terminal
  <2>5. state[r] \in Terminal \cup {"uncertain"} =>
          state'[r] \in Terminal \cup {"uncertain"}
    BY <1>22, <2>2
      DEF Handle, HasRemoteIntent, Op, LockInv, WorkInv, WorkOf, Marked, Terminal
  <2>6. ASSUME NEW q \in Run \ {r} PROVE SameRun(q)
    BY <1>22, <2>2 DEF Handle, HasRemoteIntent, Op, SameRun
  <2>7. \A s \in Thread \ {t} : pc'[s] = pc[s] /\ cur'[s] = cur[s] /\ last'[s] = last[s]
    BY <1>22 DEF Handle, HasRemoteIntent, Op
  <2>8. \A s \in Thread : pc[s] \notin {"idle", "enqueue", "dead"} => cur[s] \in Run
    OBVIOUS
  <2>9. state'[r] # "none"
    BY <1>22, <2>2 DEF Handle, HasRemoteIntent, Op, WorkInv, WorkOf, Marked
  <2>10. HasRemoteIntent(r) => HasRemoteIntent(r)'
    BY <1>22, <2>2 DEF Handle, HasRemoteIntent, Op
  <2> QED BY <2>1, <2>3, <2>4, <2>5, <2>6, <2>7, <2>8, <2>9, <2>10, HolderStep
<1>23. CASE JournalFault(t)
  <2>1. WorkOf(t)'
    BY <1>23
      DEF JournalFault, LockInv, WorkInv, WorkOf, Marked, HasRemoteIntent, LockedPc,
          ExecPc
  <2> QED BY <1>23, <2>1, LocalStep DEF JournalFault
<1>24. CASE Release(t)
  <2>1. WorkOf(t)'
    BY <1>24
      DEF Release, LockInv, WorkInv, WorkOf, Marked, HasRemoteIntent, LockedPc, ExecPc
  <2> QED BY <1>24, <2>1, LocalStep DEF Release
<1>25. CASE Unlock(t)
  <2>1. WorkOf(t)'
    BY <1>25
      DEF Unlock, Done, LockInv, WorkInv, WorkOf, Marked, HasRemoteIntent, LockedPc,
          ExecPc
  <2> QED BY <1>25, <2>1, LocalStep DEF Unlock, Done
<1>26. CASE WorkerAfter(t)
  <2>1. WorkOf(t)'
    BY <1>26
      DEF WorkerAfter, Done, LockInv, WorkInv, WorkOf, Marked, HasRemoteIntent,
          LockedPc, ExecPc
  <2> QED BY <1>26, <2>1, LocalStep DEF WorkerAfter, Done
<1>27. CASE ReconcileLock(t)
  <2>1. WorkOf(t)'
    BY <1>27
      DEF ReconcileLock, Done, LockInv, WorkInv, WorkOf, Marked, HasRemoteIntent,
          LockedPc, ExecPc
  <2> QED BY <1>27, <2>1, LocalStep DEF ReconcileLock, Done
<1>28. CASE Lookup(t)
  <2>1. WorkOf(t)'
    BY <1>28
      DEF Lookup, LockInv, WorkInv, WorkOf, Marked, HasRemoteIntent, LockedPc, ExecPc
  <2> QED BY <1>28, <2>1, LocalStep DEF Lookup
<1>29. CASE Misread(t)
  <2>1. WorkOf(t)'
    BY <1>29
      DEF Misread, LockInv, WorkInv, WorkOf, Marked, HasRemoteIntent, LockedPc, ExecPc
  <2> QED BY <1>29, <2>1, LocalStep DEF Misread
<1>30. CASE MarkUnread(t)
  <2>1. PICK r \in Run : r = cur[t]
    BY <1>30 DEF MarkUnread
  <2>2. /\ UNCHANGED <<prep, attempt, calls, remote, cancelSent, published, looking>>
        /\ \A s \in Thread \ {t} :
             pc'[s] = pc[s] /\ cur'[s] = cur[s] /\ last'[s] = last[s]
        /\ pc'[t] \in {"idle", "after"} /\ (pc'[t] = "after" => cur'[t] = cur[t])
    BY <1>30 DEF MarkUnread, GiveUp, Done
  <2>3. /\ \A q \in Run \ {r} : state'[q] = state[q] /\ (q \in overtaken' <=> q \in overtaken)
        /\ \/ state'[r] = state[r] /\ (r \in overtaken' <=> r \in overtaken)
           \/ /\ state[r] \notin Terminal
              /\ \/ state'[r] = "uncertain" /\ HasRemoteIntent(r)
                    /\ (r \in overtaken' <=> r \in overtaken)
                 \/ /\ state'[r] = "failed"
                    /\ r \in overtaken' <=> (r \in overtaken \/ HasRemoteIntent(r))
    BY <1>30, <2>1 DEF MarkUnread, WorkInv, WorkOf
  <2>4. state[r] # "none" /\ LedgerOf(r)
    BY <1>30, <2>1 DEF MarkUnread, WorkInv, WorkOf
  <2>5. ASSUME NEW q \in Run
        PROVE  /\ Marked(q) => Marked(q)'
               /\ state[q] # "none" => state'[q] # "none"
               /\ state[q] \in Terminal \cup {"uncertain"} =>
                    state'[q] \in Terminal \cup {"uncertain"}
               /\ HasRemoteIntent(q) => Marked(q)' \/ state'[q] = state[q]
    BY <2>3, <2>4 DEF Marked, LedgerOf, Terminal
  <2>6. \A q \in Run : HasRemoteIntent(q)' <=> HasRemoteIntent(q)
    BY <2>2 DEF HasRemoteIntent
  <2>7. ASSUME NEW s \in Thread, s # t PROVE WorkOf(s)'
    <3>1. /\ pc'[s] = pc[s] /\ cur'[s] = cur[s] /\ last'[s] = last[s]
          /\ s \in looking' <=> s \in looking
          /\ WorkOf(s)
      BY <2>2, <2>7 DEF WorkInv
    <3>2. CASE pc[s] \in {"idle", "enqueue", "dead"}
      <4>1. s \notin looking
        BY <3>2 DEF LockInv
      <4> QED BY <3>1, <3>2, <4>1 DEF WorkOf
    <3>3. CASE pc[s] \notin {"idle", "enqueue", "dead"}
      <4>1. PICK q \in Run : q = cur[s]
        BY <3>3
      <4>2. /\ HasRemoteIntent(q)' <=> HasRemoteIntent(q)
            /\ prep[q] # "none" \/ attempt[q] # "none" => HasRemoteIntent(q)
        BY <2>6 DEF HasRemoteIntent
      <4> QED BY <2>2, <2>5, <3>1, <3>3, <4>1, <4>2 DEF WorkOf
    <3> QED BY <3>2, <3>3
  <2>8. WorkOf(t)'
    <3>1. t \notin looking
      BY <1>30 DEF MarkUnread, LockInv
    <3> QED BY <2>1, <2>2, <2>4, <2>5, <3>1 DEF WorkOf
  <2>9. ASSUME NEW q \in Run PROVE LedgerOf(q)'
    <3>1. CASE q # r
      BY <2>2, <2>3, <3>1 DEF WorkInv, LedgerOf, HasRemoteIntent
    <3>2. CASE q = r
      <4>1. LedgerOf(r)
        BY <2>4
      <4> QED BY <2>2, <2>3, <2>4, <3>2, <4>1 DEF LedgerOf, HasRemoteIntent, Terminal
    <3> QED BY <3>1, <3>2
  <2> QED BY <2>7, <2>8, <2>9 DEF WorkInv
<1> QED BY <1>1, <1>2, <1>3, <1>4, <1>5, <1>6, <1>7, <1>8, <1>9, <1>10,
       <1>11, <1>12, <1>13, <1>14, <1>15, <1>16, <1>17, <1>18, <1>19, <1>20,
       <1>21, <1>22, <1>23, <1>24, <1>25, <1>26, <1>27, <1>28, <1>29, <1>30 DEF Step

\* Program points, intents, calls and the remote task agree at every step.
THEOREM WorkCorrect == Spec => []WorkInv
<1>1. Init => WorkInv
  BY DEF Init, WorkInv, WorkOf, Marked, LedgerOf, FreshProcess, HasRemoteIntent,
         Terminal, Op
<1>2. TypeOK /\ PointInv /\ LockInv /\ WorkInv /\ [Next]_vars => WorkInv'
  <2> SUFFICES ASSUME TypeOK, PointInv, LockInv, WorkInv, [Next]_vars PROVE WorkInv'
    OBVIOUS
  <2>1. ASSUME NEW t \in Thread, Step(t) PROVE WorkInv'
    BY <2>1, WorkStep
  <2> USE DEF TypeOK, PointInv, vars, journal, intake, wishes, effects, contexts, process,
          threads, locals, world, GoTo
  <2>2. ASSUME NEW t \in Caller, EnqueueCheck(t) PROVE WorkInv'
    <3>1. t \in Thread /\ WorkOf(t)'
      BY <2>2 DEF EnqueueCheck, LockInv, WorkOf, Marked, HasRemoteIntent, Thread
    <3> QED BY <2>2, <3>1, LocalStep DEF EnqueueCheck
  <2>3. ASSUME NEW t \in Caller, NEW r \in Run, CallExecute(t, r) PROVE WorkInv'
    <3>1. t \in Thread /\ WorkOf(t)'
      BY <2>3 DEF CallExecute, LockInv, WorkOf, Marked, HasRemoteIntent, Thread
    <3> QED BY <2>3, <3>1, LocalStep DEF CallExecute
  <2>4. ASSUME NEW t \in Caller, NEW r \in Run, ReconcileStart(t, r) PROVE WorkInv'
    <3>1. t \in Thread /\ WorkOf(t)'
      BY <2>4 DEF ReconcileStart, LockInv, WorkOf, Marked, HasRemoteIntent, Thread
    <3> QED BY <2>4, <3>1, LocalStep DEF ReconcileStart
  <2>5. ASSUME NEW r \in Run, Cancel(r) PROVE WorkInv'
    <3>1. \/ state' = state
          \/ state[r] = "queued" /\ state' = [state EXCEPT ![r] = "cancelled"]
      BY <2>5 DEF Cancel, WorkInv, LedgerOf
    <3>2. ASSUME NEW s \in Thread PROVE WorkOf(s)'
      BY <2>5, <3>1
        DEF Cancel, LockInv, WorkInv, WorkOf, Marked, HasRemoteIntent, Terminal
    <3>3. ASSUME NEW q \in Run PROVE LedgerOf(q)'
      BY <2>5, <3>1 DEF Cancel, WorkInv, LedgerOf, HasRemoteIntent, Terminal
    <3> QED BY <3>2, <3>3 DEF WorkInv
  <2>6. CASE Stop
    BY <2>6 DEF Stop, WorkInv, WorkOf, Marked, LedgerOf, HasRemoteIntent
  <2>7. CASE Exit
    <3>1. \A s \in Thread : WorkOf(s)'
      BY <2>7 DEF Exit, FreshProcess, WorkOf, Marked, HasRemoteIntent
    <3>2. \A q \in Run : LedgerOf(q)'
      BY <2>7 DEF Exit, WorkInv, LedgerOf, HasRemoteIntent
    <3> QED BY <3>1, <3>2 DEF WorkInv
  <2>8. CASE Restart
    <3>1. \A s \in Thread : WorkOf(s)'
      BY <2>8 DEF Restart, LockInv, WorkOf, Marked, HasRemoteIntent
    <3>2. \A q \in Run : LedgerOf(q)'
      BY <2>8
        DEF Restart, WorkInv, LedgerOf, HasRemoteIntent, NeedsLookup, Unsettled,
            Terminal, RunState
    <3> QED BY <3>1, <3>2 DEF WorkInv
  <2>9. ASSUME NEW r \in Run, RemoteEnds(r) PROVE WorkInv'
    <3>1. \A s \in Thread : WorkOf(s)'
      BY <2>9 DEF RemoteEnds, WorkInv, WorkOf, Marked, HasRemoteIntent, Terminal
    <3>2. \A q \in Run : LedgerOf(q)'
      BY <2>9 DEF RemoteEnds, WorkInv, LedgerOf, HasRemoteIntent, Terminal
    <3> QED BY <3>1, <3>2 DEF WorkInv
  <2>10. CASE UNCHANGED vars
    BY <2>10 DEF WorkInv, WorkOf, Marked, LedgerOf, HasRemoteIntent
  <2>13. ASSUME NEW t \in Worker, WorkerDies(t) PROVE WorkInv'
    <3>1. t \in Thread /\ WorkOf(t)'
      BY <2>13 DEF WorkerDies, LockInv, WorkInv, WorkOf, Thread
    <3> QED BY <2>13, <3>1, LocalStep DEF WorkerDies
  <2>14. ASSUME NEW t \in Worker, StartWorker(t) PROVE WorkInv'
    <3>1. t \in Thread /\ WorkOf(t)'
      BY <2>14 DEF StartWorker, LockInv, WorkInv, WorkOf, Thread
    <3> QED BY <2>14, <3>1, LocalStep DEF StartWorker
  <2>11. CASE Demand
    BY <2>2, <2>3, <2>4, <2>5, <2>11, <2>14 DEF Demand
  <2>12. CASE Environment
    BY <2>6, <2>7, <2>8, <2>9, <2>12, <2>13 DEF Environment
  <2> QED BY <2>1, <2>10, <2>11, <2>12 DEF Next
<1> QED BY <1>1, <1>2, TypeCorrect, LockCorrect, PTL DEF Spec
-----------------------------------------------------------------------------
(* The one slot for remote work.                                          *)

\* If s owned a run it still does, at a program point of its execution.
Keeps(s) ==
  s \notin looking /\ holder = s /\ pc[s] \in OwnPc =>
    s \notin looking' /\ holder' = s /\ cur'[s] = cur[s] /\ pc'[s] \in OwnPc

\* A step that changes no run's state.
LEMMA QuietStep ==
  ASSUME SlotInv, state' = state,
         up' /\ ~faulted' => up /\ ~faulted /\ \A s \in Thread : Keeps(s)
  PROVE  SlotInv'
<1>1. OneInFlight'
  BY DEF SlotInv, OneInFlight
<1>2. OwnerInv'
  BY DEF SlotInv, OwnerInv, Keeps
<1> QED BY <1>1, <1>2 DEF SlotInv

\* A step that changes the state of r alone, and puts nothing in flight.
LEMMA SlotStep ==
  ASSUME SlotInv, NEW r \in Run, \A q \in Run \ {r} : state'[q] = state[q],
         state'[r] \in InFlight => state[r] \in InFlight,
         up' /\ ~faulted' =>
           /\ up /\ ~faulted
           /\ \A s \in Thread : cur[s] = r \/ Keeps(s),
         state'[r] \in {"preparing", "submitting", "running"} =>
           \E s \in Thread : /\ s \notin looking' /\ holder' = s
                             /\ cur'[s] = r /\ pc'[s] \in OwnPc
  PROVE  SlotInv'
<1>1. OneInFlight'
  BY DEF SlotInv, OneInFlight
<1>2. ASSUME NEW q \in Run, up', ~faulted',
             state'[q] \in {"preparing", "submitting", "running"}
      PROVE  \E s \in Thread : /\ s \notin looking' /\ holder' = s
                               /\ cur'[s] = q /\ pc'[s] \in OwnPc
  <2>1. CASE q = r
    BY <1>2, <2>1
  <2>2. CASE q # r
    <3>1. PICK s \in Thread \ looking : holder = s /\ cur[s] = q /\ pc[s] \in OwnPc
      BY <1>2, <2>2 DEF SlotInv, OwnerInv
    <3> QED BY <1>2, <2>2, <3>1 DEF Keeps
  <2> QED BY <2>1, <2>2
<1>3. OwnerInv'
  BY <1>2 DEF OwnerInv
<1> QED BY <1>1, <1>3 DEF SlotInv

\* No step of a thread puts a second run in flight.
LEMMA SlotOfStep ==
  ASSUME TypeOK, PointInv, LockInv, WorkInv, SlotInv, NEW t \in Thread, Step(t)
  PROVE  SlotInv'
<1> USE NamesAssumption DEF TypeOK, PointInv, journal, intake, wishes, effects, contexts,
        process, threads, locals, world, GoTo
<1>1. CASE EnqueueCommit(t)
  <2>1. PICK r \in Run : state[r] = "none" /\ state' = [state EXCEPT ![r] = "queued"]
    BY <1>1 DEF EnqueueCommit, Insert
  <2>2. \A q \in Run \ {r} : state'[q] = state[q]
    BY <2>1
  <2>3. state'[r] = "queued"
    BY <2>1
  <2>4. up' /\ ~faulted' => up /\ ~faulted /\ \A s \in Thread : Keeps(s)
    BY <1>1 DEF EnqueueCommit, LockInv, Keeps, OwnPc, LockedPc, ExecPc
  <2> QED BY <2>2, <2>3, <2>4, SlotStep DEF InFlight
<1>2. CASE EnqueueReturn(t)
  <2>1. state' = state
    BY <1>2 DEF EnqueueReturn
  <2>2. up' /\ ~faulted' => up /\ ~faulted /\ \A s \in Thread : Keeps(s)
    BY <1>2 DEF EnqueueReturn, LockInv, Keeps, OwnPc, LockedPc, ExecPc
  <2> QED BY <2>1, <2>2, QuietStep
<1>3. CASE WorkerPick(t)
  <2>1. state' = state
    BY <1>3 DEF WorkerPick
  <2>2. up' /\ ~faulted' => up /\ ~faulted /\ \A s \in Thread : Keeps(s)
    BY <1>3 DEF WorkerPick, LockInv, Keeps, OwnPc, LockedPc, ExecPc
  <2> QED BY <2>1, <2>2, QuietStep
<1>4. CASE Acquire(t)
  <2>1. state' = state
    BY <1>4 DEF Acquire
  <2>2. up' /\ ~faulted' => up /\ ~faulted /\ \A s \in Thread : Keeps(s)
    BY <1>4 DEF Acquire, LockInv, Keeps, OwnPc, LockedPc, ExecPc
  <2> QED BY <2>1, <2>2, QuietStep
<1>5. CASE WaitTimeout(t)
  <2>1. state' = state
    BY <1>5 DEF WaitTimeout, GiveUp, Done
  <2>2. up' /\ ~faulted' => up /\ ~faulted /\ \A s \in Thread : Keeps(s)
    BY <1>5 DEF WaitTimeout, GiveUp, Done, LockInv, Keeps, OwnPc, LockedPc, ExecPc
  <2> QED BY <2>1, <2>2, QuietStep
<1>6. CASE Admit(t)
  <2>1. state' = state
    BY <1>6 DEF Admit
  <2>2. up' /\ ~faulted' => up /\ ~faulted /\ \A s \in Thread : Keeps(s)
    BY <1>6 DEF Admit, LockInv, Keeps, OwnPc, LockedPc, ExecPc
  <2> QED BY <2>1, <2>2, QuietStep
<1>7. CASE Blocked(t)
  <2>1. state' = state
    BY <1>7 DEF Blocked, Raise
  <2>2. up' /\ ~faulted' => up /\ ~faulted /\ \A s \in Thread : Keeps(s)
    BY <1>7 DEF Blocked, Raise, LockInv, Keeps, OwnPc, LockedPc, ExecPc
  <2> QED BY <2>1, <2>2, QuietStep
<1>8. CASE Begin(t)
  <2>1. up /\ ~faulted /\ holder = t /\ t \notin looking /\ cur[t] \in Run
    BY <1>8 DEF Begin, Latch, LockInv, LockedPc, ExecPc
  <2>2. \A q \in Run : state[q] \notin InFlight
    BY <1>8, <2>1 DEF Begin, Latch, SlotInv, OwnerInv, OwnPc, ExecPc, InFlight
  <2>3. CASE state' = state
    <3>1. \A q \in Run : state'[q] \notin InFlight
      BY <2>2, <2>3
    <3> QED BY <3>1 DEF SlotInv, OwnerInv, OneInFlight, InFlight
  <2>4. CASE state' # state
    <3>1. /\ state' = [state EXCEPT ![cur[t]] = "preparing"]
          /\ pc' = [pc EXCEPT ![t] = "prepare"]
          /\ holder' = holder /\ looking' = looking /\ cur' = cur
      BY <1>8, <2>4 DEF Begin
    <3>2. \A q \in Run : q # cur[t] => state'[q] \notin InFlight
      BY <2>2, <3>1
    <3>3. holder' = t /\ t \notin looking' /\ pc'[t] \in OwnPc /\ cur'[t] = cur[t]
      BY <2>1, <3>1 DEF OwnPc, ExecPc
    <3>4. OneInFlight'
      BY <3>2 DEF OneInFlight
    <3>5. OwnerInv'
      BY <3>2, <3>3 DEF OwnerInv, InFlight
    <3> QED BY <3>4, <3>5 DEF SlotInv
  <2> QED BY <2>3, <2>4
<1>9. CASE Prepare(t)
  <2>1. state' = state
    BY <1>9 DEF Prepare, Raise, Call
  <2>2. up' /\ ~faulted' => up /\ ~faulted /\ \A s \in Thread : Keeps(s)
    BY <1>9 DEF Prepare, Raise, Call, LockInv, Keeps, OwnPc, LockedPc, ExecPc
  <2> QED BY <2>1, <2>2, QuietStep
<1>10. CASE Bind(t)
  <2>1. state' = state
    BY <1>10 DEF Bind
  <2>2. up' /\ ~faulted' => up /\ ~faulted /\ \A s \in Thread : Keeps(s)
    BY <1>10 DEF Bind, LockInv, Keeps, OwnPc, LockedPc, ExecPc
  <2> QED BY <2>1, <2>2, QuietStep
<1>11. CASE CommitIntent(t)
  <2>1. PICK r \in Run : r = cur[t]
    BY <1>11 DEF CommitIntent
  <2>2. \A q \in Run \ {r} : state'[q] = state[q]
    BY <1>11, <2>1 DEF CommitIntent
  <2>3. state'[r] \in InFlight => state[r] \in InFlight
    BY <1>11, <2>1 DEF CommitIntent, InFlight, Terminal, WorkInv, LedgerOf, RunState
  <2>4. up' /\ ~faulted' => /\ up /\ ~faulted
                           /\ \A s \in Thread : cur[s] = r \/ Keeps(s)
    BY <1>11, <2>1 DEF CommitIntent, LockInv, Keeps, OwnPc, LockedPc, ExecPc
  <2>5. t \notin looking' /\ holder' = t /\ cur'[t] = r /\ pc'[t] \in OwnPc
    BY <1>11, <2>1 DEF CommitIntent, LockInv, OwnPc, LockedPc, ExecPc
  <2> QED BY <2>2, <2>3, <2>4, <2>5, SlotStep
<1>12. CASE CancelBeforeGeneration(t)
  <2>1. state' = state
    BY <1>12 DEF CancelBeforeGeneration, Raise
  <2>2. up' /\ ~faulted' => up /\ ~faulted /\ \A s \in Thread : Keeps(s)
    BY <1>12 DEF CancelBeforeGeneration, Raise, LockInv, Keeps, OwnPc, LockedPc, ExecPc
  <2> QED BY <2>1, <2>2, QuietStep
<1>13. CASE Submit(t)
  <2>1. state' = state
    BY <1>13 DEF Submit, Raise, Call
  <2>2. up' /\ ~faulted' => up /\ ~faulted /\ \A s \in Thread : Keeps(s)
    BY <1>13 DEF Submit, Raise, Call, LockInv, Keeps, OwnPc, LockedPc, ExecPc
  <2> QED BY <2>1, <2>2, QuietStep
<1>14. CASE SaveReceipt(t)
  <2>1. state' = state
    BY <1>14 DEF SaveReceipt
  <2>2. up' /\ ~faulted' => up /\ ~faulted /\ \A s \in Thread : Keeps(s)
    BY <1>14 DEF SaveReceipt, LockInv, Keeps, OwnPc, LockedPc, ExecPc
  <2> QED BY <2>1, <2>2, QuietStep
<1>15. CASE MarkRunning(t)
  <2>1. PICK r \in Run : r = cur[t]
    BY <1>15 DEF MarkRunning
  <2>2. \A q \in Run \ {r} : state'[q] = state[q]
    BY <1>15, <2>1 DEF MarkRunning
  <2>3. state'[r] \in InFlight => state[r] \in InFlight
    BY <1>15, <2>1 DEF MarkRunning, InFlight, Terminal, WorkInv, LedgerOf, RunState
  <2>4. up' /\ ~faulted' => /\ up /\ ~faulted
                           /\ \A s \in Thread : cur[s] = r \/ Keeps(s)
    BY <1>15, <2>1 DEF MarkRunning, LockInv, Keeps, OwnPc, LockedPc, ExecPc
  <2>5. t \notin looking' /\ holder' = t /\ cur'[t] = r /\ pc'[t] \in OwnPc
    BY <1>15, <2>1 DEF MarkRunning, LockInv, OwnPc, LockedPc, ExecPc
  <2> QED BY <2>2, <2>3, <2>4, <2>5, SlotStep
<1>16. CASE DispatchCancel(t)
  <2>1. state' = state
    BY <1>16 DEF DispatchCancel, MayObserve
  <2>2. up' /\ ~faulted' => up /\ ~faulted /\ \A s \in Thread : Keeps(s)
    BY <1>16 DEF DispatchCancel, MayObserve, LockInv, Keeps, OwnPc, LockedPc, ExecPc
  <2> QED BY <2>1, <2>2, QuietStep
<1>17. CASE RequestCancel(t)
  <2>1. state' = state
    BY <1>17 DEF RequestCancel, Raise, Call
  <2>2. up' /\ ~faulted' => up /\ ~faulted /\ \A s \in Thread : Keeps(s)
    BY <1>17 DEF RequestCancel, Raise, Call, LockInv, Keeps, OwnPc, LockedPc, ExecPc
  <2> QED BY <2>1, <2>2, QuietStep
<1>18. CASE ObserveTerminal(t)
  <2>1. state' = state
    BY <1>18 DEF ObserveTerminal, MayObserve
  <2>2. up' /\ ~faulted' => up /\ ~faulted /\ \A s \in Thread : Keeps(s)
    BY <1>18 DEF ObserveTerminal, MayObserve, LockInv, Keeps, OwnPc, LockedPc, ExecPc
  <2> QED BY <2>1, <2>2, QuietStep
<1>19. CASE Publish(t)
  <2>1. PICK r \in Run : r = cur[t]
    BY <1>19 DEF Publish
  <2>2. \A q \in Run \ {r} : state'[q] = state[q]
    BY <1>19, <2>1 DEF Publish
  <2>3. state'[r] \in InFlight => state[r] \in InFlight
    BY <1>19, <2>1 DEF Publish, InFlight, Terminal, WorkInv, LedgerOf, RunState
  <2>4. up' /\ ~faulted' => /\ up /\ ~faulted
                           /\ \A s \in Thread : cur[s] = r \/ Keeps(s)
    BY <1>19, <2>1 DEF Publish, LockInv, Keeps, OwnPc, LockedPc, ExecPc
  <2>5. state'[r] \notin {"preparing", "submitting", "running"}
    BY <1>19, <2>1 DEF Publish, Terminal, RunState
  <2> QED BY <2>2, <2>3, <2>4, <2>5, SlotStep
<1>20. CASE SetOutcome(t)
  <2>1. PICK r \in Run : r = cur[t]
    BY <1>20 DEF SetOutcome
  <2>2. \A q \in Run \ {r} : state'[q] = state[q]
    BY <1>20, <2>1 DEF SetOutcome, Raise
  <2>3. state'[r] \in InFlight => state[r] \in InFlight
    BY <1>20, <2>1
      DEF SetOutcome, Raise, InFlight, Terminal, WorkInv, LedgerOf, RunState
  <2>4. up' /\ ~faulted' => /\ up /\ ~faulted
                           /\ \A s \in Thread : cur[s] = r \/ Keeps(s)
    BY <1>20, <2>1 DEF SetOutcome, Raise, LockInv, Keeps, OwnPc, LockedPc, ExecPc
  <2>5. state'[r] \notin {"preparing", "submitting", "running"}
    BY <1>20, <2>1 DEF SetOutcome, Raise, Terminal, RunState
  <2> QED BY <2>2, <2>3, <2>4, <2>5, SlotStep
<1>21. CASE Fail(t)
  <2>1. state' = state
    BY <1>21 DEF Fail, Raise
  <2>2. up' /\ ~faulted' => up /\ ~faulted /\ \A s \in Thread : Keeps(s)
    BY <1>21 DEF Fail, Raise, LockInv, Keeps, OwnPc, LockedPc, ExecPc
  <2> QED BY <2>1, <2>2, QuietStep
<1>22. CASE Handle(t)
  <2>1. PICK r \in Run : r = cur[t]
    BY <1>22 DEF Handle
  <2>2. \A q \in Run \ {r} : state'[q] = state[q]
    BY <1>22, <2>1 DEF Handle, HasRemoteIntent, PreserveQueue
  <2>3. state'[r] \in InFlight => state[r] \in InFlight
    BY <1>22, <2>1
      DEF Handle, HasRemoteIntent, PreserveQueue, InFlight, Terminal, WorkInv, LedgerOf,
          RunState
  <2>4. up' /\ ~faulted' => /\ up /\ ~faulted
                           /\ \A s \in Thread : cur[s] = r \/ Keeps(s)
    BY <1>22, <2>1
      DEF Handle, HasRemoteIntent, PreserveQueue, LockInv, Keeps, OwnPc, LockedPc,
          ExecPc
  <2>5. state'[r] \notin {"preparing", "submitting", "running"}
    BY <1>22, <2>1 DEF Handle, HasRemoteIntent, PreserveQueue, Terminal, RunState
  <2> QED BY <2>2, <2>3, <2>4, <2>5, SlotStep
<1>23. CASE JournalFault(t)
  <2>1. state' = state
    BY <1>23 DEF JournalFault
  <2>2. up' /\ ~faulted' => up /\ ~faulted /\ \A s \in Thread : Keeps(s)
    BY <1>23 DEF JournalFault, LockInv, Keeps, OwnPc, LockedPc, ExecPc
  <2> QED BY <2>1, <2>2, QuietStep
<1>24. CASE Release(t)
  <2>1. state' = state
    BY <1>24 DEF Release
  <2>2. up' /\ ~faulted' => up /\ ~faulted /\ \A s \in Thread : Keeps(s)
    BY <1>24 DEF Release, LockInv, Keeps, OwnPc, LockedPc, ExecPc
  <2> QED BY <2>1, <2>2, QuietStep
<1>25. CASE Unlock(t)
  <2>1. state' = state
    BY <1>25 DEF Unlock, Done
  <2>2. up' /\ ~faulted' => up /\ ~faulted /\ \A s \in Thread : Keeps(s)
    BY <1>25 DEF Unlock, Done, LockInv, Keeps, OwnPc, LockedPc, ExecPc
  <2> QED BY <2>1, <2>2, QuietStep
<1>26. CASE WorkerAfter(t)
  <2>1. state' = state
    BY <1>26 DEF WorkerAfter, Done
  <2>2. up' /\ ~faulted' => up /\ ~faulted /\ \A s \in Thread : Keeps(s)
    BY <1>26 DEF WorkerAfter, Done, LockInv, Keeps, OwnPc, LockedPc, ExecPc
  <2> QED BY <2>1, <2>2, QuietStep
<1>27. CASE ReconcileLock(t)
  <2>1. state' = state
    BY <1>27 DEF ReconcileLock, Done
  <2>2. up' /\ ~faulted' => up /\ ~faulted /\ \A s \in Thread : Keeps(s)
    BY <1>27 DEF ReconcileLock, Done, LockInv, Keeps, OwnPc, LockedPc, ExecPc
  <2> QED BY <2>1, <2>2, QuietStep
<1>28. CASE Lookup(t)
  <2>1. state' = state
    BY <1>28 DEF Lookup
  <2>2. up' /\ ~faulted' => up /\ ~faulted /\ \A s \in Thread : Keeps(s)
    BY <1>28 DEF Lookup, LockInv, Keeps, OwnPc, LockedPc, ExecPc
  <2> QED BY <2>1, <2>2, QuietStep
<1>29. CASE Misread(t)
  <2>1. state' = state
    BY <1>29 DEF Misread
  <2>2. up' /\ ~faulted' => up /\ ~faulted /\ \A s \in Thread : Keeps(s)
    BY <1>29 DEF Misread, LockInv, Keeps, OwnPc, LockedPc, ExecPc
  <2> QED BY <2>1, <2>2, QuietStep
<1>30. CASE MarkUnread(t)
  <2>1. PICK r \in Run : r = cur[t]
    BY <1>30 DEF MarkUnread
  <2>2. up' /\ ~faulted' => up /\ ~faulted /\ \A s \in Thread : Keeps(s)
    BY <1>30 DEF MarkUnread, GiveUp, Done, LockInv, Keeps, OwnPc, LockedPc, ExecPc
  <2>3. CASE state' = state
    BY <2>2, <2>3, QuietStep
  <2>4. CASE state' # state
    <3>1. /\ state[r] \notin Terminal /\ state' = [state EXCEPT ![r] = last[t]]
          /\ last[t] \in {"uncertain", "failed"}
      BY <1>30, <2>1, <2>4 DEF MarkUnread
    <3>2. \A q \in Run \ {r} : state'[q] = state[q]
      BY <3>1
    <3>3. state'[r] \in InFlight => state[r] \in InFlight
      <4>1. state[r] # "none" /\ (last[t] = "uncertain" => HasRemoteIntent(r)) /\ LedgerOf(r)
        BY <1>30, <2>1 DEF MarkUnread, WorkInv, WorkOf
      <4> QED BY <3>1, <4>1 DEF LedgerOf, HasRemoteIntent, InFlight, Terminal, RunState
    <3>4. state'[r] \notin {"preparing", "submitting", "running"}
      BY <3>1
    <3> QED BY <2>2, <3>2, <3>3, <3>4, SlotStep
  <2> QED BY <2>3, <2>4
<1> QED BY <1>1, <1>2, <1>3, <1>4, <1>5, <1>6, <1>7, <1>8, <1>9, <1>10,
       <1>11, <1>12, <1>13, <1>14, <1>15, <1>16, <1>17, <1>18, <1>19, <1>20,
       <1>21, <1>22, <1>23, <1>24, <1>25, <1>26, <1>27, <1>28, <1>29, <1>30 DEF Step

\* At most one run may have remote work outstanding, and while the process
\* is sound a run in preparation, submission or observation is the one the
\* holder of _generation_lock executes.
THEOREM SlotCorrect == Spec => []SlotInv
<1>1. Init => SlotInv
  BY DEF Init, SlotInv, OwnerInv, OneInFlight, InFlight
<1>2. TypeOK /\ PointInv /\ LockInv /\ WorkInv /\ SlotInv /\ [Next]_vars => SlotInv'
  <2> SUFFICES ASSUME TypeOK, PointInv, LockInv, WorkInv, SlotInv, [Next]_vars
               PROVE  SlotInv'
    OBVIOUS
  <2>1. ASSUME NEW t \in Thread, Step(t) PROVE SlotInv'
    BY <2>1, SlotOfStep
  <2> USE DEF journal, intake, wishes, effects, contexts, process, threads, locals, world,
          GoTo, OwnPc, LockedPc, ExecPc
  <2>2. ASSUME NEW t \in Caller, EnqueueCheck(t) PROVE SlotInv'
    <3>1. state' = state /\ up' = up /\ faulted' = faulted
      BY <2>2 DEF EnqueueCheck
    <3>2. \A s \in Thread : Keeps(s)
      BY <2>2 DEF EnqueueCheck, TypeOK, Keeps
    <3> QED BY <3>1, <3>2, QuietStep
  <2>3. ASSUME NEW t \in Caller, NEW r \in Run, CallExecute(t, r) PROVE SlotInv'
    <3>1. state' = state /\ up' = up /\ faulted' = faulted
      BY <2>3 DEF CallExecute
    <3>2. \A s \in Thread : Keeps(s)
      BY <2>3 DEF CallExecute, TypeOK, Keeps
    <3> QED BY <3>1, <3>2, QuietStep
  <2>4. ASSUME NEW t \in Caller, NEW r \in Run, ReconcileStart(t, r) PROVE SlotInv'
    <3>1. state' = state /\ up' = up /\ faulted' = faulted
      BY <2>4 DEF ReconcileStart
    <3>2. \A s \in Thread : Keeps(s)
      BY <2>4 DEF ReconcileStart, TypeOK, Keeps
    <3> QED BY <3>1, <3>2, QuietStep
  <2>5. ASSUME NEW r \in Run, Cancel(r) PROVE SlotInv'
    <3>1. \/ state' = state
          \/ state' = [state EXCEPT ![r] = "cancelled"]
      BY <2>5 DEF Cancel
    <3>2. state'[r] \in InFlight => state[r] \in InFlight
      BY <3>1 DEF TypeOK, InFlight
    <3>3. \A q \in Run \ {r} : state'[q] = state[q]
      BY <3>1 DEF TypeOK
    <3>4. up' = up /\ faulted' = faulted /\ \A s \in Thread : Keeps(s)
      BY <2>5 DEF Cancel, Keeps
    <3>5. CASE state' = state
      BY <3>4, <3>5, QuietStep
    <3>6. CASE state' = [state EXCEPT ![r] = "cancelled"]
      <4>1. state'[r] = "cancelled"
        BY <3>6 DEF TypeOK
      <4> QED BY <3>2, <3>3, <3>4, <4>1, SlotStep
    <3> QED BY <3>1, <3>5, <3>6
  <2>6. CASE Stop
    <3>1. state' = state /\ up' = up /\ faulted' = faulted /\ \A s \in Thread : Keeps(s)
      BY <2>6 DEF Stop, Keeps
    <3> QED BY <3>1, QuietStep
  <2>7. CASE Exit
    BY <2>7 DEF Exit, SlotInv, OwnerInv, OneInFlight
  <2>8. CASE Restart
    <3>1. \A q \in Run : LedgerOf(q)
      BY DEF WorkInv
    <3>2. \A q \in Run : /\ state'[q] \in InFlight => state[q] \in InFlight
                         /\ state'[q] \notin {"preparing", "submitting", "running"}
      BY <2>8, <3>1
        DEF Restart, LedgerOf, NeedsLookup, Unsettled, InFlight, Terminal, TypeOK,
            RunState, HasRemoteIntent
    <3> QED BY <3>2 DEF SlotInv, OwnerInv, OneInFlight
  <2>9. ASSUME NEW r \in Run, RemoteEnds(r) PROVE SlotInv'
    <3>1. state' = state /\ up' = up /\ faulted' = faulted /\ \A s \in Thread : Keeps(s)
      BY <2>9 DEF RemoteEnds, Keeps
    <3> QED BY <3>1, QuietStep
  <2>10. CASE UNCHANGED vars
    <3>1. state' = state /\ up' = up /\ faulted' = faulted /\ \A s \in Thread : Keeps(s)
      BY <2>10 DEF vars, Keeps
    <3> QED BY <3>1, QuietStep
  <2>13. ASSUME NEW t \in Worker, WorkerDies(t) PROVE SlotInv'
    <3>1. state' = state /\ up' = up /\ faulted' = faulted
      BY <2>13 DEF WorkerDies
    <3>2. \A s \in Thread : Keeps(s)
      BY <2>13 DEF WorkerDies, TypeOK, Keeps
    <3> QED BY <3>1, <3>2, QuietStep
  <2>14. ASSUME NEW t \in Worker, StartWorker(t) PROVE SlotInv'
    <3>1. state' = state /\ up' = up /\ faulted' = faulted
      BY <2>14 DEF StartWorker
    <3>2. \A s \in Thread : Keeps(s)
      BY <2>14 DEF StartWorker, TypeOK, Keeps
    <3> QED BY <3>1, <3>2, QuietStep
  <2>11. CASE Demand
    BY <2>2, <2>3, <2>4, <2>5, <2>11, <2>14 DEF Demand
  <2>12. CASE Environment
    BY <2>6, <2>7, <2>8, <2>9, <2>12, <2>13 DEF Environment
  <2> QED BY <2>1, <2>10, <2>11, <2>12 DEF Next
<1> QED BY <1>1, <1>2, TypeCorrect, LockCorrect, WorkCorrect, PTL DEF Spec
-----------------------------------------------------------------------------
(* The execution that writes is alone.                                      *)

\* Only the transaction of the lease (Begin) puts a run in flight: a mark, of
\* the handler or of a thread that could not read the input, finds it there.
LEMMA InFlightStep ==
  ASSUME TypeOK, PointInv, WorkInv, NEW t \in Thread, Step(t), ~Begin(t), NEW q \in Run
  PROVE  state'[q] \in InFlight => state[q] \in InFlight
<1> USE DEF journal, contexts, InFlight
<1>1. /\ WorkOf(t) /\ \A r \in Run : LedgerOf(r)
      /\ pc[t] \notin {"idle", "enqueue", "dead"} => cur[t] \in Run
      /\ pc[t] = "misread" => last[t] \in {"uncertain", "failed"}
      /\ state \in [Run -> RunState]
  BY DEF WorkInv, PointInv, TypeOK
<1>2. \A r \in Run : HasRemoteIntent(r) => state[r] \notin {"none", "queued"}
  BY <1>1 DEF LedgerOf, HasRemoteIntent
<1>3. CASE EnqueueCommit(t)
  BY <1>1, <1>3 DEF EnqueueCommit, Insert
<1>4. CASE CommitIntent(t)
  BY <1>1, <1>4 DEF CommitIntent
<1>5. CASE MarkRunning(t)
  BY <1>1, <1>5 DEF MarkRunning
<1>6. CASE Publish(t)
  BY <1>1, <1>6 DEF Publish
<1>7. CASE SetOutcome(t)
  BY <1>1, <1>7 DEF SetOutcome
<1>8. CASE Handle(t)
  <2>1. PICK r \in Run : r = cur[t]
    BY <1>1, <1>8 DEF Handle
  <2>2. \/ state' = state
        \/ /\ state[r] \notin Terminal \cup {"uncertain"}
           /\ state' = [state EXCEPT ![r] =
                          IF HasRemoteIntent(r) THEN "uncertain" ELSE "failed"]
    BY <1>8, <2>1 DEF Handle
  <2> QED BY <1>1, <1>2, <2>2 DEF Terminal, RunState
<1>9. CASE MarkUnread(t)
  <2>1. PICK r \in Run : r = cur[t]
    BY <1>1, <1>9 DEF MarkUnread
  <2>2. \/ state' = state
        \/ state[r] \notin Terminal /\ state' = [state EXCEPT ![r] = last[t]]
    BY <1>9, <2>1 DEF MarkUnread
  <2>3. last[t] = "uncertain" => HasRemoteIntent(r)
    BY <1>1, <1>9, <2>1 DEF MarkUnread, WorkOf
  <2>4. last[t] \in {"uncertain", "failed"}
    BY <1>1, <1>9 DEF MarkUnread
  <2> QED BY <1>1, <1>2, <2>2, <2>3, <2>4 DEF Terminal, RunState
<1>10. CASE UNCHANGED state
  BY <1>10
<1> QED BY <1>3, <1>4, <1>5, <1>6, <1>7, <1>8, <1>9, <1>10, Step(t), ~Begin(t)
          DEF Step, EnqueueReturn, WorkerPick, Acquire, WaitTimeout, Misread, GiveUp,
              Done, Admit, Blocked, Prepare, Bind, CancelBeforeGeneration, Submit,
              SaveReceipt, DispatchCancel, RequestCancel, ObserveTerminal, Fail,
              JournalFault, Release, Unlock, WorkerAfter, ReconcileLock, Lookup

\* Nor does any other step bring an execution to the points where it writes.
LEMMA WriterStep ==
  ASSUME TypeOK, LockInv, NEW t \in Thread, Step(t), ~Begin(t), NEW s \in Thread \ looking',
         pc'[s] \in WritePc
  PROVE  pc[s] \in WritePc /\ s \notin looking /\ cur'[s] = cur[s]
<1> USE DEF process, threads, locals, GoTo
<1>1. CASE s # t
  BY <1>1
    DEF TypeOK, Step, EnqueueCommit, EnqueueReturn, WorkerPick, Acquire, WaitTimeout,
        Misread, GiveUp, Done, Admit, Blocked, Prepare, Bind, CancelBeforeGeneration,
        Submit, SaveReceipt, DispatchCancel, RequestCancel, ObserveTerminal, Fail,
        JournalFault, Release, Unlock, WorkerAfter, ReconcileLock, Lookup, CommitIntent,
        MarkRunning, Publish, SetOutcome, Handle, MarkUnread, Raise
<1>2. CASE s = t
  <2>1. pc \in [Thread -> Pc] /\ cur \in [Thread -> Run \cup {0}]
    BY DEF TypeOK
  <2> USE DEF WritePc
  <2>2. CASE EnqueueCommit(t) \/ EnqueueReturn(t) \/ WorkerPick(t) \/ Acquire(t)
             \/ WaitTimeout(t) \/ Misread(t) \/ MarkUnread(t) \/ Admit(t) \/ Blocked(t)
    BY <1>2, <2>1, <2>2
      DEF EnqueueCommit, EnqueueReturn, WorkerPick, Acquire, WaitTimeout, Misread,
          MarkUnread, Admit, Blocked, GiveUp, Done, Raise
  <2>3. CASE Prepare(t) \/ Bind(t) \/ CommitIntent(t) \/ CancelBeforeGeneration(t)
             \/ Submit(t) \/ SaveReceipt(t) \/ MarkRunning(t)
    BY <1>2, <2>1, <2>3
      DEF Prepare, Bind, CommitIntent, CancelBeforeGeneration, Submit, SaveReceipt,
          MarkRunning, Raise
  <2>4. CASE DispatchCancel(t) \/ RequestCancel(t) \/ ObserveTerminal(t) \/ Publish(t)
             \/ SetOutcome(t) \/ Fail(t) \/ Handle(t) \/ JournalFault(t) \/ Release(t)
    BY <1>2, <2>1, <2>4
      DEF DispatchCancel, RequestCancel, ObserveTerminal, MayObserve, Publish,
          SetOutcome, Fail, Handle, JournalFault, Release, Raise
  <2>5. CASE Unlock(t) \/ WorkerAfter(t) \/ ReconcileLock(t)
    BY <1>2, <2>1, <2>5 DEF Unlock, WorkerAfter, ReconcileLock, Done
  <2>6. CASE Lookup(t)
    BY <1>2, <2>1, <2>6 DEF Lookup, LockInv
  <2> QED BY <2>2, <2>3, <2>4, <2>5, <2>6, Step(t), ~Begin(t) DEF Step
<1> QED BY <1>1, <1>2

\* While an execution is between its lease and the end of its observation,
\* nobody else's run is in flight, even if a thread that could not read the
\* input has failed the execution's own.
THEOREM AloneCorrect == Spec => []AloneInv
<1>1. Init => AloneInv
  BY DEF Init, FreshProcess, AloneInv, WritePc
<1>2. /\ TypeOK /\ PointInv /\ LockInv /\ WorkInv /\ SlotInv /\ AloneInv /\ [Next]_vars
      => AloneInv'
  <2> SUFFICES ASSUME TypeOK, PointInv, LockInv, WorkInv, SlotInv, AloneInv, [Next]_vars
               PROVE  AloneInv'
    OBVIOUS
  <2> USE DEF journal, contexts, process, threads, locals
  <2>1. ASSUME NEW t \in Thread, Step(t), ~Begin(t) PROVE AloneInv'
    <3>1. \A q \in Run : state'[q] \in InFlight => state[q] \in InFlight
      BY <2>1, InFlightStep
    <3>2. ASSUME NEW s \in Thread \ looking', NEW q \in Run, pc'[s] \in WritePc,
                 state'[q] \in InFlight
          PROVE  q = cur'[s]
      <4>1. pc[s] \in WritePc /\ s \notin looking /\ cur'[s] = cur[s]
        BY <2>1, <3>2, WriterStep
      <4> QED BY <3>1, <3>2, <4>1 DEF AloneInv
    <3> QED BY <3>2 DEF AloneInv
  <2>2. ASSUME NEW t \in Thread, Begin(t) PROVE AloneInv'
    <3>1. up /\ ~faulted /\ holder = t /\ t \notin looking /\ cur[t] \in Run
      BY <2>2 DEF Begin, Latch, LockInv, PointInv, LockedPc, ExecPc
    <3>2. \A q \in Run : state[q] \notin InFlight
      BY <2>2, <3>1 DEF Begin, Latch, SlotInv, OwnerInv, OwnPc, ExecPc, InFlight
    <3>3. /\ \A q \in Run : q # cur[t] => state'[q] = state[q]
          /\ \A s \in Thread : s # t => pc'[s] = pc[s]
          /\ cur' = cur
      BY <2>2 DEF Begin, Raise, GoTo, TypeOK
    <3>4. \A s \in Thread : s # t => pc[s] \notin WritePc
      BY <3>1 DEF LockInv, LockedPc, ExecPc, WritePc
    <3> QED BY <3>2, <3>3, <3>4 DEF AloneInv
  <2>3. ASSUME NEW t \in Caller, \/ EnqueueCheck(t)
                                 \/ \E r \in Run : CallExecute(t, r) \/ ReconcileStart(t, r)
        PROVE  AloneInv'
    <3>1. /\ state' = state /\ looking' = looking
          /\ \A s \in Thread : pc'[s] \in WritePc => pc'[s] = pc[s] /\ cur'[s] = cur[s]
      BY <2>3 DEF EnqueueCheck, CallExecute, ReconcileStart, GoTo, TypeOK, WritePc
    <3> QED BY <3>1 DEF AloneInv
  <2>4. ASSUME NEW r \in Run, Cancel(r) PROVE AloneInv'
    <3>1. /\ pc' = pc /\ cur' = cur /\ looking' = looking
          /\ \A q \in Run : state'[q] \in InFlight => state[q] \in InFlight
      BY <2>4 DEF Cancel, TypeOK, InFlight
    <3> QED BY <3>1 DEF AloneInv
  <2>5. CASE Exit
    BY <2>5 DEF Exit, FreshProcess, AloneInv, WritePc
  <2>6. CASE Restart
    BY <2>6 DEF Restart, LockInv, AloneInv, WritePc
  <2>7. ASSUME NEW t \in Worker, WorkerDies(t) \/ StartWorker(t) PROVE AloneInv'
    <3>1. /\ state' = state /\ looking' = looking
          /\ \A s \in Thread : pc'[s] \in WritePc => pc'[s] = pc[s] /\ cur'[s] = cur[s]
      BY <2>7 DEF WorkerDies, StartWorker, GoTo, TypeOK, WritePc
    <3> QED BY <3>1 DEF AloneInv
  <2>8. CASE Stop \/ \E r \in Run : RemoteEnds(r)
    BY <2>8 DEF Stop, RemoteEnds, AloneInv
  <2>9. CASE UNCHANGED vars
    BY <2>9 DEF vars, AloneInv
  <2>10. CASE Demand
    BY <2>3, <2>4, <2>7, <2>10 DEF Demand
  <2>11. CASE Environment
    BY <2>5, <2>6, <2>7, <2>8, <2>11 DEF Environment
  <2> QED BY <2>1, <2>2, <2>9, <2>10, <2>11 DEF Next
<1> QED BY <1>1, <1>2, TypeCorrect, LockCorrect, WorkCorrect, SlotCorrect, PTL DEF Spec
-----------------------------------------------------------------------------
(* Contexts and keys.                                                       *)

\* A step that touches no context, key or state.
LEMMA IdleStep ==
  ASSUME ContextInv, UNCHANGED <<state, request, keyRun, busy, rev>>
  PROVE  ContextInv'
  BY DEF ContextInv, ContextReserved, BusyInv, FrozenRevision, QueueInv, KeyInv, CtxOf

\* A step that moves states without putting anything in flight or in the queue.
LEMMA ProgressStep ==
  ASSUME ContextInv, BoundsAssumption, TypeOK, UNCHANGED <<request, keyRun, busy, rev>>,
         \A q \in Run :
           /\ state'[q] \in InFlight => state[q] \in InFlight
           /\ state'[q] \in {"none", "queued"} => state'[q] = state[q]
           /\ state[q] = "none" => state'[q] = "none"
  PROVE  ContextInv'
<1>1. \A q \in Run : CtxOf(q)' = CtxOf(q)
  BY DEF CtxOf
<1>2. ContextReserved'
  BY <1>1 DEF ContextInv, ContextReserved
<1>3. BusyInv'
  BY <1>1 DEF ContextInv, BusyInv, TypeOK
<1>4. FrozenRevision'
  BY <1>1 DEF ContextInv, FrozenRevision
<1>5. QueueInv'
  BY <1>1 DEF ContextInv, QueueInv
<1>6. KeyInv'
  BY DEF ContextInv, KeyInv
<1> QED BY <1>2, <1>3, <1>4, <1>5, <1>6 DEF ContextInv

\* A run's own context is nobody else's.
LEMMA OwnContext ==
  ASSUME TypeOK, NEW r \in Run, NEW q \in Run, CtxOf(q) = r
  PROVE  q = r
  BY NamesAssumption DEF TypeOK, CtxOf, Request

\* Every step of a thread keeps reservations, revisions and keys in order.
LEMMA ContextOfStep ==
  ASSUME TypeOK, PointInv, LockInv, WorkInv, SlotInv, ContextInv, NEW t \in Thread, Step(t)
  PROVE  ContextInv'
<1> USE BoundsAssumption DEF journal, intake, wishes, effects, contexts, process, threads,
        locals, world
<1>1. CASE EnqueueCommit(t)
  <2> DEFINE q == asked[t]
  <2>1. PICK r \in Run : Insert(r, q)
    BY <1>1 DEF EnqueueCommit
  <2>2. q \in Request /\ state[r] = "none" /\ busy' = busy /\ rev' = rev
    BY <1>1, <2>1 DEF EnqueueCommit, Insert, TypeOK
  <2>3. state' = [state EXCEPT ![r] = "queued"]
    BY <2>1 DEF Insert
  <2>4. /\ request'[r].key = q.key
        /\ request'[r].ctx = q.ctx
        /\ request'[r].rev = rev[IF q.ctx = Isolated THEN r ELSE q.ctx]
        /\ \A s \in Run \ {r} : request'[s] = request[s]
    BY <2>1 DEF Insert, TypeOK
  <2>5. \A s \in Run \ {r} : CtxOf(s)' = CtxOf(s)
    BY <2>4 DEF CtxOf
  <2>6. CtxOf(r)' = IF q.ctx = Isolated THEN r ELSE q.ctx
    BY <2>4 DEF CtxOf
  <2>7. CtxOf(r)' \in Ctx
    BY <2>2, <2>6 DEF Ctx, Request
  <2>8. \A s \in Run \ {r} : state'[s] = state[s]
    BY <2>3 DEF TypeOK
  <2>9. state'[r] = "queued"
    BY <2>3 DEF TypeOK
  <2>10. busy[CtxOf(r)'] = 0 /\ \A s \in Run \ {r} : state[s] = "queued" => CtxOf(s) # CtxOf(r)'
    <3>1. CASE q.ctx = Isolated
      <4>1. busy[r] \in Run \cup {0} /\ r \in Ctx
        BY DEF TypeOK, Ctx
      <4>2. busy[r] = 0
        BY <2>2, <4>1, OwnContext DEF ContextInv, BusyInv
      <4>3. \A s \in Run \ {r} : CtxOf(s) # r
        BY OwnContext
      <4> QED BY <2>6, <3>1, <4>2, <4>3
    <3>2. CASE q.ctx # Isolated
      <4>1. ContextAvailable(q.ctx)
        BY <1>1, <3>2 DEF EnqueueCommit, Accepts, ContextAllows
      <4> QED BY <2>6, <3>2, <4>1 DEF ContextAvailable
    <3> QED BY <3>1, <3>2
  <2>11. ContextReserved'
    BY <2>2, <2>5, <2>8, <2>9 DEF ContextInv, ContextReserved, InFlight
  <2>12. BusyInv'
    BY <2>2, <2>5, <2>8 DEF ContextInv, BusyInv
  <2>13. FrozenRevision'
    <3>1. ASSUME NEW s \in Run, state'[s] = "queued"
          PROVE  rev'[CtxOf(s)'] = request'[s].rev /\ busy'[CtxOf(s)'] = 0
      <4>1. CASE s = r
        BY <2>2, <2>4, <2>6, <2>10, <4>1
      <4>2. CASE s # r
        BY <2>2, <2>4, <2>5, <2>8, <3>1, <4>2 DEF ContextInv, FrozenRevision
      <4> QED BY <4>1, <4>2
    <3> QED BY <3>1 DEF FrozenRevision
  <2>14. QueueInv'
    BY <2>5, <2>8, <2>10 DEF ContextInv, QueueInv
  <2>15. KeyInv'
    <3>1. q.key # NoKey => keyRun[q.key] = 0 /\ keyRun' = [keyRun EXCEPT ![q.key] = r]
      BY <1>1, <2>1 DEF EnqueueCommit, Accepts, Insert
    <3>2. q.key = NoKey => keyRun' = keyRun
      BY <2>1 DEF Insert
    <3>3. ASSUME NEW s \in Run, state'[s] # "none", request'[s].key # NoKey
          PROVE  keyRun'[request'[s].key] = s
      <4>1. CASE s = r
        BY <2>2, <2>4, <3>1, <3>3, <4>1 DEF TypeOK, Request
      <4>2. CASE s # r
        <5>1. request'[s] = request[s] /\ keyRun[request[s].key] = s
          BY <2>4, <2>8, <3>3, <4>2 DEF ContextInv, KeyInv
        <5>2. s # 0
          BY DEF Run
        <5> QED BY <2>2, <3>1, <3>2, <3>3, <5>1, <5>2 DEF TypeOK, Request
      <4> QED BY <4>1, <4>2
    <3> QED BY <3>3 DEF KeyInv
  <2> QED BY <2>11, <2>12, <2>13, <2>14, <2>15 DEF ContextInv
<1>2. CASE EnqueueReturn(t)
  BY <1>2, IdleStep DEF EnqueueReturn
<1>3. CASE WorkerPick(t)
  BY <1>3, IdleStep DEF WorkerPick
<1>4. CASE Acquire(t)
  BY <1>4, IdleStep DEF Acquire
<1>5. CASE WaitTimeout(t)
  BY <1>5, IdleStep DEF WaitTimeout, GiveUp, Done
<1>6. CASE Admit(t)
  BY <1>6, IdleStep DEF Admit
<1>7. CASE Blocked(t)
  BY <1>7, IdleStep DEF Blocked
<1>8. CASE Begin(t)
  <2>1. CASE UNCHANGED <<state, busy>>
    BY <1>8, <2>1, IdleStep DEF Begin
  <2>2. CASE ~UNCHANGED <<state, busy>>
    <3>1. PICK r \in Run : r = cur[t]
      BY <1>8 DEF Begin, PointInv
    <3>2. /\ state[r] = "queued" /\ state' = [state EXCEPT ![r] = "preparing"]
          /\ busy' = [busy EXCEPT ![CtxOf(r)] = r]
          /\ UNCHANGED <<request, keyRun, rev>>
      BY <1>8, <2>2, <3>1 DEF Begin
    <3>3. CtxOf(r) \in Ctx /\ r # 0 /\ busy[CtxOf(r)] = 0
      BY <3>2, CtxOfType DEF Run, ContextInv, FrozenRevision
    <3>4. \A q \in Run : CtxOf(q)' = CtxOf(q)
      BY <3>2 DEF CtxOf
    <3>5. /\ state'[r] = "preparing" /\ busy'[CtxOf(r)] = r
          /\ \A q \in Run \ {r} : state'[q] = state[q]
          /\ \A c \in Ctx \ {CtxOf(r)} : busy'[c] = busy[c]
      BY <3>2, <3>3 DEF TypeOK
    <3>6. \A q \in Run : CtxOf(q) \in Ctx
      BY CtxOfType
    <3>7. ContextReserved'
      <4>1. ASSUME NEW q \in Run, q # r, state[q] \in InFlight PROVE CtxOf(q) # CtxOf(r)
        BY <3>3, <4>1 DEF ContextInv, ContextReserved, Run
      <4> QED BY <3>4, <3>5, <3>6, <4>1 DEF ContextInv, ContextReserved
    <3>8. BusyInv'
      BY <3>3, <3>4, <3>5 DEF ContextInv, BusyInv
    <3>9. FrozenRevision'
      <4>1. ASSUME NEW q \in Run, state'[q] = "queued" PROVE CtxOf(q) # CtxOf(r) /\ state[q] = "queued"
        BY <3>2, <3>5, <4>1 DEF ContextInv, QueueInv
      <4> QED BY <3>2, <3>4, <3>5, <3>6, <4>1 DEF ContextInv, FrozenRevision
    <3>10. QueueInv'
      BY <3>4, <3>5 DEF ContextInv, QueueInv
    <3>11. KeyInv'
      BY <3>2, <3>5 DEF ContextInv, KeyInv
    <3> QED BY <3>7, <3>8, <3>9, <3>10, <3>11 DEF ContextInv
  <2> QED BY <2>1, <2>2
<1>9. CASE Prepare(t)
  BY <1>9, IdleStep DEF Prepare, Call
<1>10. CASE Bind(t)
  BY <1>10, IdleStep DEF Bind
<1>11. CASE CommitIntent(t)
  <2>1. cur[t] \in Run
    BY <1>11 DEF CommitIntent, PointInv
  <2>2. UNCHANGED <<request, keyRun, busy, rev>>
    BY <1>11 DEF CommitIntent
  <2>3. LedgerOf(cur[t])
    BY <2>1 DEF WorkInv
  <2>4. ASSUME NEW q \in Run
        PROVE  /\ state'[q] \in InFlight => state[q] \in InFlight
               /\ state'[q] \in {"none", "queued"} => state'[q] = state[q]
               /\ state[q] = "none" => state'[q] = "none"
    BY <1>11, <2>1, <2>3
      DEF CommitIntent, TypeOK, LedgerOf, InFlight, Terminal, RunState, WorkInv, WorkOf,
          Marked, HasRemoteIntent
  <2> QED BY <2>2, <2>4, ProgressStep
<1>12. CASE CancelBeforeGeneration(t)
  BY <1>12, IdleStep DEF CancelBeforeGeneration
<1>13. CASE Submit(t)
  BY <1>13, IdleStep DEF Submit, Call
<1>14. CASE SaveReceipt(t)
  BY <1>14, IdleStep DEF SaveReceipt
<1>15. CASE MarkRunning(t)
  <2>1. cur[t] \in Run
    BY <1>15 DEF MarkRunning, PointInv
  <2>2. UNCHANGED <<request, keyRun, busy, rev>>
    BY <1>15 DEF MarkRunning
  <2>3. LedgerOf(cur[t])
    BY <2>1 DEF WorkInv
  <2>4. ASSUME NEW q \in Run
        PROVE  /\ state'[q] \in InFlight => state[q] \in InFlight
               /\ state'[q] \in {"none", "queued"} => state'[q] = state[q]
               /\ state[q] = "none" => state'[q] = "none"
    BY <1>15, <2>1, <2>3
      DEF MarkRunning, TypeOK, LedgerOf, InFlight, Terminal, RunState, WorkInv, WorkOf,
          Marked, HasRemoteIntent
  <2> QED BY <2>2, <2>4, ProgressStep
<1>16. CASE DispatchCancel(t)
  BY <1>16, IdleStep DEF DispatchCancel, MayObserve
<1>17. CASE RequestCancel(t)
  BY <1>17, IdleStep DEF RequestCancel, Call
<1>18. CASE ObserveTerminal(t)
  BY <1>18, IdleStep DEF ObserveTerminal, MayObserve
<1>19. CASE Publish(t)
  <2>1. PICK r \in Run : r = cur[t]
    BY <1>19 DEF Publish, PointInv
  <2>2. /\ state' = [state EXCEPT ![r] = "succeeded"] /\ state[r] \in {"running", "uncertain"}
        /\ rev' = [rev EXCEPT ![CtxOf(r)] = @ + 1]
        /\ busy[CtxOf(r)] = r /\ UNCHANGED <<request, keyRun, busy>>
    BY <1>19, <2>1 DEF Publish, OwnsContext
  <2>3. /\ state'[r] = "succeeded"
        /\ \A q \in Run \ {r} : state'[q] = state[q]
        /\ \A c \in Ctx \ {CtxOf(r)} : rev'[c] = rev[c]
    BY <2>2 DEF TypeOK
  <2>4. \A q \in Run : CtxOf(q)' = CtxOf(q) /\ CtxOf(q) \in Ctx
    BY <2>2, CtxOfType DEF CtxOf
  <2>5. ContextReserved'
    BY <2>2, <2>3, <2>4 DEF ContextInv, ContextReserved, InFlight
  <2>6. BusyInv'
    BY <2>2, <2>3, <2>4 DEF ContextInv, BusyInv, TypeOK
  <2>7. FrozenRevision'
    <3>1. ASSUME NEW q \in Run, state'[q] = "queued" PROVE CtxOf(q) # CtxOf(r) /\ state[q] = "queued"
      BY <2>2, <2>3, <3>1 DEF ContextInv, FrozenRevision, Run
    <3> QED BY <2>2, <2>3, <2>4, <3>1 DEF ContextInv, FrozenRevision
  <2>8. QueueInv' /\ KeyInv'
    BY <2>2, <2>3, <2>4 DEF ContextInv, QueueInv, KeyInv
  <2> QED BY <2>5, <2>6, <2>7, <2>8 DEF ContextInv
<1>20. CASE SetOutcome(t)
  <2>1. cur[t] \in Run
    BY <1>20 DEF SetOutcome, PointInv
  <2>2. UNCHANGED <<request, keyRun, busy, rev>>
    BY <1>20 DEF SetOutcome
  <2>3. LedgerOf(cur[t])
    BY <2>1 DEF WorkInv
  <2>4. ASSUME NEW q \in Run
        PROVE  /\ state'[q] \in InFlight => state[q] \in InFlight
               /\ state'[q] \in {"none", "queued"} => state'[q] = state[q]
               /\ state[q] = "none" => state'[q] = "none"
    BY <1>20, <2>1, <2>3
      DEF SetOutcome, TypeOK, LedgerOf, InFlight, Terminal, RunState, WorkInv, WorkOf,
          Marked, HasRemoteIntent
  <2> QED BY <2>2, <2>4, ProgressStep
<1>21. CASE Fail(t)
  BY <1>21, IdleStep DEF Fail
<1>22. CASE Handle(t)
  <2>1. cur[t] \in Run
    BY <1>22 DEF Handle, PointInv
  <2>2. UNCHANGED <<request, keyRun, busy, rev>>
    BY <1>22 DEF Handle
  <2>3. LedgerOf(cur[t])
    BY <2>1 DEF WorkInv
  <2>4. ASSUME NEW q \in Run
        PROVE  /\ state'[q] \in InFlight => state[q] \in InFlight
               /\ state'[q] \in {"none", "queued"} => state'[q] = state[q]
               /\ state[q] = "none" => state'[q] = "none"
    BY <1>22, <2>1, <2>3
      DEF Handle, HasRemoteIntent, PreserveQueue, TypeOK, LedgerOf, InFlight, Terminal,
          RunState, WorkInv, WorkOf, Marked
  <2> QED BY <2>2, <2>4, ProgressStep
<1>23. CASE JournalFault(t)
  BY <1>23, IdleStep DEF JournalFault
<1>24. CASE Release(t)
  <2>1. CASE state[cur[t]] \notin Terminal
    BY <1>24, <2>1, IdleStep DEF Release
  <2>2. CASE state[cur[t]] \in Terminal
    <3>1. /\ busy' = [c \in Ctx |-> IF c \in Released(t) THEN 0 ELSE busy[c]]
          /\ UNCHANGED <<state, request, keyRun, rev>>
      BY <1>24, <2>2 DEF Release
    <3>2. \A c \in Released(t) : busy[c] = cur[t]
      BY DEF Released, OwnsContext
    <3>3. \A q \in Run : CtxOf(q)' = CtxOf(q) /\ CtxOf(q) \in Ctx
      BY <3>1, CtxOfType DEF CtxOf
    <3>4. \A c \in Ctx : busy'[c] \in {0, busy[c]}
      BY <3>1
    <3>5. ContextReserved'
      BY <2>2, <3>1, <3>2, <3>3 DEF ContextInv, ContextReserved, InFlight, Terminal
    <3>6. BusyInv'
      BY <3>1, <3>3, <3>4 DEF ContextInv, BusyInv, Run
    <3>7. FrozenRevision'
      BY <3>1, <3>3, <3>4 DEF ContextInv, FrozenRevision
    <3>8. QueueInv' /\ KeyInv'
      BY <3>1, <3>3 DEF ContextInv, QueueInv, KeyInv
    <3> QED BY <3>5, <3>6, <3>7, <3>8 DEF ContextInv
  <2> QED BY <2>1, <2>2
<1>25. CASE Unlock(t)
  BY <1>25, IdleStep DEF Unlock
<1>26. CASE WorkerAfter(t)
  BY <1>26, IdleStep DEF WorkerAfter
<1>27. CASE ReconcileLock(t)
  BY <1>27, IdleStep DEF ReconcileLock
<1>28. CASE Lookup(t)
  BY <1>28, IdleStep DEF Lookup
<1>29. CASE Misread(t)
  BY <1>29, IdleStep DEF Misread
<1>30. CASE MarkUnread(t)
  <2>1. PICK r \in Run : r = cur[t]
    BY <1>30 DEF MarkUnread, PointInv
  <2>2. UNCHANGED <<request, keyRun, busy, rev>>
    BY <1>30 DEF MarkUnread
  <2>3. /\ LedgerOf(r) /\ state[r] # "none" /\ (last[t] = "uncertain" => HasRemoteIntent(r))
        /\ last[t] \in {"uncertain", "failed"}
    BY <1>30, <2>1 DEF MarkUnread, WorkInv, WorkOf, PointInv
  <2>4. ASSUME NEW q \in Run
        PROVE  /\ state'[q] \in InFlight => state[q] \in InFlight
               /\ state'[q] \in {"none", "queued"} => state'[q] = state[q]
               /\ state[q] = "none" => state'[q] = "none"
    BY <1>30, <2>1, <2>3
      DEF MarkUnread, TypeOK, LedgerOf, HasRemoteIntent, InFlight, Terminal, RunState
  <2> QED BY <2>2, <2>4, ProgressStep
<1> QED BY <1>1, <1>2, <1>3, <1>4, <1>5, <1>6, <1>7, <1>8, <1>9, <1>10,
       <1>11, <1>12, <1>13, <1>14, <1>15, <1>16, <1>17, <1>18, <1>19, <1>20,
       <1>21, <1>22, <1>23, <1>24, <1>25, <1>26, <1>27, <1>28, <1>29, <1>30 DEF Step

\* Contexts: a run in flight has its context reserved, what is reserved was
\* dispatched, the revision a queued run froze stands still, and a key names
\* the one run that was accepted with it.
THEOREM ContextCorrect == Spec => []ContextInv
<1>1. Init => ContextInv
  BY BoundsAssumption
    DEF Init, ContextInv, ContextReserved, BusyInv, FrozenRevision, QueueInv, KeyInv,
        InFlight, Run
<1>2. TypeOK /\ PointInv /\ LockInv /\ WorkInv /\ SlotInv /\ ContextInv /\ [Next]_vars
        => ContextInv'
  <2> SUFFICES ASSUME TypeOK, PointInv, LockInv, WorkInv, SlotInv, ContextInv, [Next]_vars
               PROVE  ContextInv'
    OBVIOUS
  <2>1. ASSUME NEW t \in Thread, Step(t) PROVE ContextInv'
    BY <2>1, ContextOfStep
  <2> USE BoundsAssumption DEF journal, intake, contexts
  <2>2. ASSUME NEW t \in Caller, EnqueueCheck(t) PROVE ContextInv'
    BY <2>2, IdleStep DEF EnqueueCheck
  <2>3. ASSUME NEW t \in Caller, NEW r \in Run, CallExecute(t, r) PROVE ContextInv'
    BY <2>3, IdleStep DEF CallExecute
  <2>4. ASSUME NEW t \in Caller, NEW r \in Run, ReconcileStart(t, r) PROVE ContextInv'
    BY <2>4, IdleStep DEF ReconcileStart
  <2>5. ASSUME NEW r \in Run, Cancel(r) PROVE ContextInv'
    <3>1. UNCHANGED <<request, keyRun, busy, rev>>
      BY <2>5 DEF Cancel
    <3>2. ASSUME NEW q \in Run
          PROVE  /\ state'[q] \in InFlight => state[q] \in InFlight
                 /\ state'[q] \in {"none", "queued"} => state'[q] = state[q]
                 /\ state[q] = "none" => state'[q] = "none"
      BY <2>5 DEF Cancel, TypeOK, InFlight
    <3> QED BY <3>1, <3>2, ProgressStep
  <2>6. CASE Stop
    BY <2>6, IdleStep DEF Stop
  <2>7. CASE Exit
    BY <2>7, IdleStep DEF Exit
  <2>8. CASE Restart
    <3>1. ASSUME NEW q \in Run
          PROVE  /\ state'[q] \in InFlight => state[q] \in InFlight /\ NeedsLookup(q)
                 /\ state'[q] \in {"none", "queued"} => state'[q] = state[q]
                 /\ state[q] = "none" => state'[q] = "none"
      <4>1. LedgerOf(q)
        BY DEF WorkInv
      <4> QED BY <2>8, <4>1
                DEF Restart, LedgerOf, NeedsLookup, Unsettled, InFlight, Terminal,
                    TypeOK, RunState, HasRemoteIntent
    <3>2. /\ UNCHANGED <<request, keyRun, rev>>
          /\ \A c \in Ctx :
               busy'[c] = IF busy[c] \in Unsettled /\ ~NeedsLookup(busy[c])
                            THEN 0 ELSE busy[c]
      BY <2>8 DEF Restart
    <3>3. \A q \in Run : CtxOf(q)' = CtxOf(q) /\ CtxOf(q) \in Ctx
      BY <3>2, CtxOfType DEF CtxOf
    <3>4. ContextReserved'
      BY <3>1, <3>2, <3>3 DEF ContextInv, ContextReserved
    <3>5. BusyInv'
      BY <3>1, <3>2, <3>3 DEF ContextInv, BusyInv, Run
    <3>6. FrozenRevision'
      BY <3>1, <3>2, <3>3 DEF ContextInv, FrozenRevision
    <3>7. QueueInv' /\ KeyInv'
      BY <3>1, <3>2, <3>3 DEF ContextInv, QueueInv, KeyInv
    <3> QED BY <3>4, <3>5, <3>6, <3>7 DEF ContextInv
  <2>9. ASSUME NEW r \in Run, RemoteEnds(r) PROVE ContextInv'
    BY <2>9, IdleStep DEF RemoteEnds
  <2>10. CASE UNCHANGED vars
    BY <2>10, IdleStep DEF vars
  <2>13. ASSUME NEW t \in Worker, WorkerDies(t) PROVE ContextInv'
    BY <2>13, IdleStep DEF WorkerDies
  <2>14. ASSUME NEW t \in Worker, StartWorker(t) PROVE ContextInv'
    BY <2>14, IdleStep DEF StartWorker
  <2>11. CASE Demand
    BY <2>2, <2>3, <2>4, <2>5, <2>11, <2>14 DEF Demand
  <2>12. CASE Environment
    BY <2>6, <2>7, <2>8, <2>9, <2>12, <2>13 DEF Environment
  <2> QED BY <2>1, <2>10, <2>11, <2>12 DEF Next
<1> QED BY <1>1, <1>2, TypeCorrect, LockCorrect, WorkCorrect, SlotCorrect, PTL DEF Spec
-----------------------------------------------------------------------------
(* What follows from the invariant.                                         *)

\* The inductive invariant as one theorem: what the runs check on small
\* instances as a conjunction holds for every value of the constants.
THEOREM Correct == Spec => []IInv
  BY TypeCorrect, LockCorrect, WorkCorrect, SlotCorrect, AloneCorrect, ContextCorrect,
     PTL
    DEF IInv

\* The journal, the leases, the threads' locals and the service keep their types.
THEOREM WellTyped == Spec => []TypeOK
  BY TypeCorrect, PTL

\* prepare_context, submit and request_cancel are each sent at most once for a
\* run: the intent is durable first and nothing that sees it sends again.
THEOREM NeverRepeated == Spec => []AtMostOncePerRun
<1>1. WorkInv => AtMostOncePerRun
  BY DEF WorkInv, LedgerOf, AtMostOncePerRun
<1> QED BY <1>1, WorkCorrect, PTL

\* Whatever was sent left its evidence in the journal before it was sent.
THEOREM EvidenceFirst == Spec => []IntentBeforeCall
<1>1. WorkInv => IntentBeforeCall
  BY DEF WorkInv, LedgerOf, IntentBeforeCall
<1> QED BY <1>1, WorkCorrect, PTL

\* No run is reported decided against what the service decided, and success is
\* reported exactly with an indexed result.
THEOREM Truthful == Spec => []TruthfulOutcome
<1>1. WorkInv => TruthfulOutcome
  BY DEF WorkInv, LedgerOf, TruthfulOutcome
<1> QED BY <1>1, WorkCorrect, PTL

\* The account has one slot for remote work, kept over crashes and restarts.
THEOREM OneSlot == Spec => []OneInFlight
<1>1. SlotInv => OneInFlight
  BY DEF SlotInv
<1> QED BY <1>1, SlotCorrect, PTL

\* A context stays reserved for the run in flight on it.
THEOREM Reserved == Spec => []ContextReserved
<1>1. ContextInv => ContextReserved
  BY DEF ContextInv
<1> QED BY <1>1, ContextCorrect, PTL

\* The revision frozen at admission is the one found at dispatch.
THEOREM Frozen == Spec => []FrozenRevision
<1>1. ContextInv => FrozenRevision
  BY DEF ContextInv
<1> QED BY <1>1, ContextCorrect, PTL

\* One run per idempotency key.
THEOREM Idempotent == Spec => []OneRunPerKey
<1>1. ContextInv => OneRunPerKey
  BY DEF ContextInv, KeyInv, OneRunPerKey
<1> QED BY <1>1, ContextCorrect, PTL

\* A lookup sends nothing, and nothing is sent for a run while another is
\* uncertain: whoever sends holds the lock in an execution, at a point where no
\* other run is in flight.
THEOREM FreezesWrites == Spec => UncertainFreezesWrites
<1>1. PointInv /\ LockInv /\ AloneInv /\ TypeOK /\ [Next]_vars => [SendsOnlyItsOwn]_vars
  <2> SUFFICES ASSUME PointInv, LockInv, AloneInv, TypeOK, [Next]_vars, calls' # calls,
                      NEW op \in Op, NEW q \in Run, calls'[op][q] # calls[op][q]
               PROVE  /\ holder \in Thread \ looking /\ cur[holder] = q
                      /\ \A r \in Run \ {q} : state[r] # "uncertain"
    BY DEF SendsOnlyItsOwn
  <2> USE DEF world
  <2>1. ASSUME NEW t \in Thread, Step(t)
        PROVE  /\ holder = t /\ t \notin looking /\ cur[t] = q
               /\ \A r \in Run \ {q} : state[r] # "uncertain"
    <3>1. Prepare(t) \/ Submit(t) \/ RequestCancel(t)
      BY <2>1
        DEF Step, EnqueueCommit, EnqueueReturn, WorkerPick, Acquire, WaitTimeout,
            Misread, MarkUnread, Admit, Blocked, Begin, Bind, CommitIntent,
            CancelBeforeGeneration, SaveReceipt, MarkRunning, DispatchCancel,
            ObserveTerminal, Publish, SetOutcome, Fail, Handle, JournalFault, Release,
            Unlock, WorkerAfter, ReconcileLock, Lookup
    <3>2. pc[t] \in {"prepare", "submit", "cancelling"}
      BY <3>1 DEF Prepare, Submit, RequestCancel
    <3>3. holder = t /\ t \notin looking
      BY <3>2 DEF LockInv, LockedPc, ExecPc
    <3>4. cur[t] = q
      BY <3>1 DEF Prepare, Submit, RequestCancel, Call, TypeOK, Op
    <3>5. \A r \in Run \ {q} : state[r] # "uncertain"
      BY <3>2, <3>3, <3>4 DEF AloneInv, WritePc, InFlight
    <3> QED BY <3>3, <3>4, <3>5
  <2>2. CASE Demand
    BY <2>2 DEF Demand, EnqueueCheck, CallExecute, ReconcileStart, Cancel, StartWorker
  <2>3. CASE Environment
    BY <2>3 DEF Environment, Stop, Exit, Restart, RemoteEnds, WorkerDies
  <2>4. CASE UNCHANGED vars
    BY <2>4 DEF vars
  <2> QED BY <2>1, <2>2, <2>3, <2>4 DEF Next
<1> QED BY <1>1, TypeCorrect, LockCorrect, AloneCorrect, PTL
          DEF Spec, UncertainFreezesWrites

\* A decided run keeps its decision.
THEOREM DecisionsStand == Spec => DecidedForGood
<1>1. TypeOK /\ PointInv /\ [Next]_vars =>
        [KeepsDecisions]_vars
  <2> SUFFICES ASSUME TypeOK, PointInv, [Next]_vars, NEW r \in Run, state[r] \in Terminal
               PROVE  state'[r] = state[r]
    BY DEF KeepsDecisions
  <2> USE DEF journal, contexts
  <2>1. ASSUME NEW t \in Thread, Step(t) PROVE state'[r] = state[r]
    <3>1. CASE EnqueueCommit(t)
      BY <3>1 DEF EnqueueCommit, Insert, TypeOK, Terminal
    <3>2. CASE Begin(t)
      BY <3>2 DEF Begin, TypeOK, Terminal
    <3>3. CASE CommitIntent(t)
      BY <3>3 DEF CommitIntent, TypeOK, Terminal
    <3>4. CASE MarkRunning(t)
      BY <3>4 DEF MarkRunning, TypeOK, Terminal
    <3>5. CASE Publish(t)
      BY <3>5 DEF Publish, TypeOK, Terminal
    <3>6. CASE SetOutcome(t)
      BY <3>6 DEF SetOutcome, TypeOK
    <3>7. CASE Handle(t)
      BY <3>7 DEF Handle, TypeOK
    <3>8. CASE MarkUnread(t)
      BY <3>8 DEF MarkUnread, TypeOK
    <3>9. CASE UNCHANGED state
      BY <3>9
    <3> QED BY <2>1, <3>1, <3>2, <3>3, <3>4, <3>5, <3>6, <3>7, <3>8, <3>9
              DEF Step, EnqueueReturn, WorkerPick, Acquire, WaitTimeout, Misread, Admit,
                  Blocked, Prepare, Bind, CancelBeforeGeneration, Submit, SaveReceipt,
                  DispatchCancel, RequestCancel, ObserveTerminal, Fail, JournalFault,
                  Release, Unlock, WorkerAfter, ReconcileLock, Lookup
  <2>2. CASE Demand
    BY <2>2
      DEF Demand, EnqueueCheck, CallExecute, ReconcileStart, Cancel, StartWorker, TypeOK
  <2>3. CASE Environment
    BY <2>3 DEF Environment, Stop, Exit, Restart, RemoteEnds, WorkerDies, Unsettled
  <2>4. CASE UNCHANGED vars
    BY <2>4 DEF vars
  <2> QED BY <2>1, <2>2, <2>3, <2>4 DEF Next
<1> QED BY <1>1, TypeCorrect, PTL DEF Spec, DecidedForGood
-----------------------------------------------------------------------------
(* The supervisor implements SubmitOnce.                                    *)

Open == {"queued", "preparing", "submitting", "running"}

\* What one row contributes to the phases, case by case.
LEMMA PhaseOf ==
  ASSUME TypeOK, NEW r \in Run
  PROVE  /\ AbstractPhase[r] = "new" <=> state[r] = "none"
         /\ AbstractPhase[r] = "open" <=> state[r] \in Open
         /\ AbstractPhase[r] = "unknown" <=> state[r] = "uncertain"
         /\ state[r] \in Terminal => AbstractPhase[r] = state[r]
         /\ AbstractPhase[r] \in Promise!Phase
<1> QED BY DEF TypeOK, RunState, AbstractPhase, Open, Terminal, Promise!Phase,
               Promise!Settled, Promise!Outcome

\* How one row may change while nothing is sent: it is accepted, it moves on,
\* it becomes uncertain, or it is decided by what the service did or because
\* no generation was requested.
Moves(r) ==
  \/ state'[r] = state[r]
  \/ state[r] = "none" /\ state'[r] = "queued"
  \/ state[r] \in Open /\ state'[r] \in Open \cup {"uncertain"}
  \/ /\ state[r] \in Open \cup {"uncertain"} /\ state'[r] \in Terminal
     /\ \/ calls["submit"][r] > 0 /\ remote[r] = state'[r]
        \/ ~(calls["submit"][r] > 0) /\ state'[r] \in {"failed", "cancelled"}

\* A step that moves rows and sends nothing is a Judge.
LEMMA Judged ==
  ASSUME TypeOK, TypeOK', UNCHANGED <<calls, remote>>, \A r \in Run : Moves(r)
  PROVE  Promise!Judge
<1>1. AbstractPhase' \in [Run -> Promise!Phase]
  <2>1. AbstractPhase' = [r \in Run |-> AbstractPhase'[r]]
    BY DEF AbstractPhase
  <2>2. \A r \in Run : AbstractPhase'[r] \in Promise!Phase
    BY DEF TypeOK, RunState, AbstractPhase, Promise!Phase, Promise!Settled,
           Promise!Outcome
  <2> QED BY <2>1, <2>2
<1>2. ASSUME NEW r \in Run
      PROVE  \/ AbstractPhase'[r] = AbstractPhase[r]
             \/ Promise!Move(r, AbstractPhase[r], AbstractPhase'[r])
  <2>1. /\ state'[r] \in Open => AbstractPhase'[r] = "open"
        /\ state'[r] = "uncertain" => AbstractPhase'[r] = "unknown"
        /\ state'[r] \in Terminal => AbstractPhase'[r] = state'[r]
    BY DEF AbstractPhase, Open, Terminal
  <2>2. CASE state'[r] = state[r]
    BY <2>2 DEF AbstractPhase
  <2>3. CASE state[r] = "none" /\ state'[r] = "queued"
    BY <2>1, <2>3, PhaseOf DEF Promise!Move, Open
  <2>4. CASE state[r] \in Open /\ state'[r] \in Open \cup {"uncertain"}
    BY <2>1, <2>4, PhaseOf DEF Promise!Move
  <2>5. CASE /\ state[r] \in Open \cup {"uncertain"} /\ state'[r] \in Terminal
             /\ \/ calls["submit"][r] > 0 /\ remote[r] = state'[r]
                \/ ~(calls["submit"][r] > 0) /\ state'[r] \in {"failed", "cancelled"}
    <3>1. AbstractPhase[r] \in {"open", "unknown"}
      BY <2>5, PhaseOf
    <3>2. AbstractPhase'[r] = state'[r] /\ state'[r] \in Promise!Outcome
      BY <2>1, <2>5 DEF Terminal, Promise!Outcome
    <3>3. Promise!Known(r, state'[r])
      BY <2>5 DEF Promise!Known
    <3> QED BY <3>1, <3>2, <3>3 DEF Promise!Move
  <2> QED BY <2>2, <2>3, <2>4, <2>5 DEF Moves
<1> QED BY <1>1, <1>2 DEF Promise!Judge

\* A step that keeps the states, the submissions and the service is a stutter.
LEMMA Stutters ==
  ASSUME UNCHANGED <<state, remote>>, calls["submit"]' = calls["submit"]
  PROVE  UNCHANGED Promise!vars
<1>1. AbstractPhase' = AbstractPhase
  BY DEF AbstractPhase
<1>2. {r \in Run : calls["submit"][r] > 0}' = {r \in Run : calls["submit"][r] > 0}
  OBVIOUS
<1> QED BY <1>1, <1>2 DEF Promise!vars

\* A verdict that was overtaken stays on record.
LEMMA OvertakenGrows == [Next]_vars => overtaken \subseteq overtaken'
<1> SUFFICES ASSUME [Next]_vars PROVE overtaken \subseteq overtaken'
  OBVIOUS
<1> USE DEF world
<1>1. ASSUME NEW t \in Thread, Step(t) PROVE overtaken \subseteq overtaken'
  <2>1. CASE MarkUnread(t)
    BY <2>1 DEF MarkUnread
  <2>2. CASE UNCHANGED overtaken
    BY <2>2
  <2> QED BY <1>1, <2>1, <2>2
            DEF Step, EnqueueCommit, EnqueueReturn, WorkerPick, Acquire, WaitTimeout,
                Misread, Admit, Blocked, Begin, Prepare, Bind, CommitIntent,
                CancelBeforeGeneration, Submit, SaveReceipt, MarkRunning,
                DispatchCancel, RequestCancel, ObserveTerminal, Publish, SetOutcome,
                Fail, Handle, JournalFault, Release, Unlock, WorkerAfter, ReconcileLock,
                Lookup
<1>2. CASE Demand
  BY <1>2 DEF Demand, EnqueueCheck, CallExecute, ReconcileStart, Cancel, StartWorker
<1>3. CASE Environment
  BY <1>3 DEF Environment, Stop, Exit, Restart, RemoteEnds, WorkerDies
<1>4. CASE UNCHANGED vars
  BY <1>4 DEF vars
<1> QED BY <1>1, <1>2, <1>3, <1>4 DEF Next

\* transport.submit is a Send: its run owns the one slot, so that every run
\* submitted before it is decided.
LEMMA Sends ==
  ASSUME IInv, overtaken = {}, NEW t \in Thread, Submit(t), NEW r \in Run, r = cur[t]
  PROVE  Promise!Send(r)
<1>1. /\ TypeOK /\ WorkOf(t) /\ pc[t] = "submit" /\ OneInFlight
      /\ \A s \in Run : LedgerOf(s)
  BY DEF IInv, WorkInv, SlotInv, Submit
<1>2. state[r] \in {"submitting", "uncertain"} /\ calls["submit"][r] = 0
  BY <1>1 DEF WorkOf, Marked
<1>3. /\ state' = state
      /\ calls' = [calls EXCEPT !["submit"][r] = @ + 1]
      /\ remote' \in {remote, [remote EXCEPT ![r] = "active"]}
  BY DEF Submit, Call, journal
<1>4. /\ calls["submit"] \in [Run -> Nat]
      /\ calls'["submit"] = [calls["submit"] EXCEPT ![r] = @ + 1]
  BY <1>1, <1>3 DEF TypeOK, Op
<1>5. AbstractPhase[r] \in {"open", "unknown"} /\ AbstractPhase' = AbstractPhase
  BY <1>1, <1>2, <1>3, PhaseOf DEF AbstractPhase, Open
<1>6. ASSUME NEW s \in Run, calls["submit"][s] > 0 PROVE AbstractPhase[s] \in Promise!Settled
  <2>1. state[s] \notin {"none", "queued", "preparing"}
    BY <1>1, <1>4, <1>6 DEF LedgerOf
  <2>2. s # r
    BY <1>2, <1>6
  <2>3. state[s] \notin InFlight
    BY <1>1, <1>2, <2>2 DEF OneInFlight, InFlight
  <2>4. state[s] \in Terminal
    BY <1>1, <2>1, <2>3 DEF TypeOK, RunState, InFlight, Terminal
  <2> QED BY <1>1, <2>4, PhaseOf DEF Terminal, Promise!Settled, Promise!Outcome
<1>7. {s \in Run : calls["submit"][s] > 0}' = {s \in Run : calls["submit"][s] > 0} \cup {r}
  BY <1>4
<1>8. r \notin {s \in Run : calls["submit"][s] > 0}
  BY <1>2
<1> QED BY <1>3, <1>5, <1>6, <1>7, <1>8 DEF Promise!Send

\* A thread's step moves rows as SubmitOnce allows, requests one generation, or
\* changes nothing SubmitOnce sees.
LEMMA ThreadRefines ==
  ASSUME IInv, TypeOK', overtaken = {}, overtaken' = {}, NEW t \in Thread, Step(t)
  PROVE  Promise!Next \/ UNCHANGED Promise!vars
<1> USE DEF journal, contexts, world
<1>1. /\ TypeOK /\ WorkOf(t) /\ \A r \in Run : LedgerOf(r)
      /\ pc[t] \notin {"idle", "enqueue", "dead"} => cur[t] \in Run
      /\ state \in [Run -> RunState]
      /\ \A r \in Run : calls["submit"][r] \in {0, 1}
  BY DEF IInv, WorkInv, PointInv, TypeOK, LedgerOf, Op
<1>2. CASE Submit(t)
  <2>1. PICK r \in Run : r = cur[t]
    BY <1>1, <1>2 DEF Submit
  <2>2. Promise!Send(r)
    BY <1>2, <2>1, Sends
  <2> QED BY <2>2 DEF Promise!Next
<1>3. CASE EnqueueCommit(t)
  <2>1. PICK r \in Run : Insert(r, asked[t])
    BY <1>3 DEF EnqueueCommit
  <2>2. \A s \in Run : Moves(s)
    BY <1>1, <2>1 DEF Insert, Moves
  <2> QED BY <1>1, <1>3, <2>2, Judged DEF EnqueueCommit, Promise!Next
<1>4. CASE Begin(t)
  <2>1. cur[t] \in Run
    BY <1>1, <1>4 DEF Begin
  <2>2. \A s \in Run : Moves(s)
    BY <1>1, <1>4, <2>1 DEF Begin, Moves, Open
  <2> QED BY <1>1, <1>4, <2>2, Judged DEF Begin, Promise!Next
<1>5. CASE CommitIntent(t)
  <2>1. \A s \in Run : Moves(s)
    BY <1>1, <1>5 DEF CommitIntent, Moves, Open
  <2> QED BY <1>1, <1>5, <2>1, Judged DEF CommitIntent, Promise!Next
<1>6. CASE MarkRunning(t)
  <2>1. \A s \in Run : Moves(s)
    BY <1>1, <1>6 DEF MarkRunning, Moves, Open
  <2> QED BY <1>1, <1>6, <2>1, Judged DEF MarkRunning, Promise!Next
<1>7. CASE Publish(t)
  <2>1. /\ cur[t] \in Run /\ remote[cur[t]] = "succeeded"
        /\ state[cur[t]] \in {"running", "uncertain"}
    BY <1>1, <1>7 DEF Publish, WorkOf, Marked, HasRemoteIntent
  <2>2. calls["submit"][cur[t]] > 0
    BY <1>1, <2>1 DEF LedgerOf
  <2>3. \A s \in Run : Moves(s)
    BY <1>1, <1>7, <2>1, <2>2 DEF Publish, Moves, Open, Terminal
  <2> QED BY <1>1, <1>7, <2>3, Judged DEF Publish, Promise!Next
<1>8. CASE SetOutcome(t)
  <2>1. /\ cur[t] \in Run /\ remote[cur[t]] = last[t] /\ state[cur[t]] # "none"
        /\ last[t] \in {"failed", "cancelled"}
    BY <1>1, <1>8 DEF SetOutcome, WorkOf, Marked, HasRemoteIntent
  <2>2. calls["submit"][cur[t]] > 0
    BY <1>1, <2>1 DEF LedgerOf
  <2>3. \A s \in Run : Moves(s)
    BY <1>1, <1>8, <2>1, <2>2 DEF SetOutcome, Moves, Open, Terminal, RunState
  <2> QED BY <1>1, <1>8, <2>3, Judged DEF SetOutcome, Promise!Next
<1>9. CASE Handle(t)
  <2>1. cur[t] \in Run /\ state[cur[t]] # "none"
    BY <1>1, <1>9 DEF Handle, WorkOf, Marked, HasRemoteIntent
  <2>2. ~HasRemoteIntent(cur[t]) => ~(calls["submit"][cur[t]] > 0)
    BY <1>1, <2>1 DEF LedgerOf, HasRemoteIntent
  <2>3. \A s \in Run : s # cur[t] => Moves(s)
    BY <1>1, <1>9 DEF Handle, Moves
  <2>4. Moves(cur[t])
    BY <1>1, <1>9, <2>1, <2>2 DEF Handle, Moves, Open, Terminal, RunState
  <2> QED BY <1>1, <1>9, <2>3, <2>4, Judged DEF Handle, Promise!Next
<1>12. CASE MarkUnread(t)
  <2>1. PICK r \in Run : r = cur[t]
    BY <1>1, <1>12 DEF MarkUnread
  <2>2. /\ state[r] # "none" /\ last[t] \in {"uncertain", "failed"}
        /\ last[t] = "uncertain" => HasRemoteIntent(r)
    BY <1>1, <1>12, <2>1 DEF MarkUnread, WorkOf, IInv, PointInv
  <2>3. HasRemoteIntent(r) => state[r] # "queued"
    BY <1>1 DEF LedgerOf, HasRemoteIntent
  <2>4. \/ state' = state
        \/ /\ state[r] \notin Terminal /\ state' = [state EXCEPT ![r] = last[t]]
           /\ last[t] = "failed" => ~HasRemoteIntent(r)
    BY <1>12, <2>1 DEF MarkUnread
  <2>5. ~HasRemoteIntent(r) => ~(calls["submit"][r] > 0)
    BY <1>1 DEF LedgerOf, HasRemoteIntent
  <2>6. UNCHANGED <<calls, remote>>
    BY <1>12 DEF MarkUnread
  <2>7. CASE state' = state
    BY <2>6, <2>7, Stutters
  <2>8. CASE state' # state
    <3>1. \A s \in Run \ {r} : Moves(s)
      BY <1>1, <2>4 DEF Moves
    <3>2. Moves(r)
      BY <1>1, <2>2, <2>3, <2>4, <2>5, <2>8 DEF Moves, Open, Terminal, RunState
    <3>3. \A s \in Run : Moves(s)
      BY <3>1, <3>2
    <3> QED BY <1>1, <2>6, <3>3, Judged DEF Promise!Next
  <2> QED BY <2>7, <2>8
<1>10. CASE RequestCancel(t) \/ Prepare(t)
  <2>1. UNCHANGED <<state, remote>>
    BY <1>10 DEF RequestCancel, Prepare
  <2>2. calls'["submit"] = calls["submit"]
    BY <1>1, <1>10 DEF RequestCancel, Prepare, Call, TypeOK, Op
  <2> QED BY <2>1, <2>2, Stutters
<1>11. CASE UNCHANGED <<state, calls, remote>>
  BY <1>11, Stutters
<1> QED BY <1>2, <1>3, <1>4, <1>5, <1>6, <1>7, <1>8, <1>9, <1>10, <1>11, <1>12, Step(t)
          DEF Step, EnqueueReturn, WorkerPick, Acquire, WaitTimeout, Misread, Admit,
              Blocked, Bind, CancelBeforeGeneration, SaveReceipt, DispatchCancel,
              ObserveTerminal, Fail, JournalFault, Release, Unlock, WorkerAfter,
              ReconcileLock, Lookup

\* So do the callers, the process and the service.
LEMMA WorldRefines ==
  ASSUME IInv, TypeOK', Demand \/ Environment
  PROVE  Promise!Next \/ UNCHANGED Promise!vars
<1> USE DEF journal, contexts, world
<1>1. /\ TypeOK /\ \A r \in Run : LedgerOf(r)
      /\ state \in [Run -> RunState]
      /\ \A r \in Run : calls["submit"][r] \in {0, 1}
  BY DEF IInv, WorkInv, TypeOK, LedgerOf, Op
<1>2. ASSUME NEW r \in Run, Cancel(r) PROVE Promise!Judge
  <2>1. state'[r] # state[r] =>
          /\ state[r] \in {"queued", "preparing"} /\ state'[r] = "cancelled"
          /\ ~(calls["submit"][r] > 0)
    BY <1>1, <1>2 DEF Cancel, LedgerOf
  <2>2. \A s \in Run : Moves(s)
    BY <1>1, <1>2, <2>1 DEF Cancel, Moves, Open, Terminal
  <2> QED BY <1>1, <1>2, <2>2, Judged DEF Cancel
<1>3. CASE Restart
  <2>1. \A r \in Run : Moves(r)
    BY <1>1, <1>3 DEF Restart, Unsettled, NeedsLookup, Moves, Open, Terminal, RunState
  <2> QED BY <1>1, <1>3, <2>1, Judged DEF Restart, Promise!Next
<1>4. ASSUME NEW r \in Run, RemoteEnds(r) PROVE Promise!End(r)
  <2>1. AbstractPhase' = AbstractPhase /\ calls' = calls
    BY <1>4 DEF RemoteEnds, AbstractPhase
  <2> QED BY <1>4, <2>1 DEF RemoteEnds, Promise!End, Promise!Outcome, Terminal
<1>5. CASE UNCHANGED <<state, calls, remote>>
  BY <1>5, Stutters
<1> QED BY <1>2, <1>3, <1>4, <1>5, Demand \/ Environment
          DEF Demand, Environment, EnqueueCheck, CallExecute, ReconcileStart,
              StartWorker, Stop, Exit, WorkerDies, Promise!Next

\* The supervisor implements SubmitOnce: whatever callers, workers, lookups,
\* crashes and recoveries do together, each run's generation is requested once,
\* beside no other whose end is not known, and each outcome told is known, until
\* a run is failed on a verdict that its intent had overtaken.
THEOREM Refines == Spec => SubmitsOnce
<1>1. Init => Promise!Init
  BY DEF Init, Op, Promise!Init, AbstractPhase
<1>2. IInv /\ TypeOK' /\ [Next]_vars
        => [overtaken' # {} \/ Promise!Next]_(Promise!vars)
  <2> SUFFICES ASSUME IInv, TypeOK', [Next]_vars, overtaken' = {}
               PROVE  Promise!Next \/ UNCHANGED Promise!vars
    OBVIOUS
  <2>1. overtaken = {}
    BY OvertakenGrows
  <2>2. CASE UNCHANGED vars
    BY <2>2, Stutters DEF vars, journal, world
  <2> QED BY <2>1, <2>2, ThreadRefines, WorldRefines DEF Next
<1> QED BY <1>1, <1>2, Correct, TypeCorrect, PTL DEF Spec, SubmitsOnce
=============================================================================
