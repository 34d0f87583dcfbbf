---------------------------- MODULE RunSupervisor ----------------------------
(***************************************************************************)
(* The generation owner of prism2api: runtime/supervisor.py together with  *)
(* the context leases of runtime/context.py.                               *)
(*                                                                         *)
(* A run is accepted into a durable queue, prepared, submitted once to a   *)
(* remote service that cannot be asked "did you already get this?", and    *)
(* observed until the remote task is known to have ended.  The process may *)
(* die between any two steps; every block `with self.conn:` of the code is *)
(* one SQLite transaction and is one action here.                          *)
(*                                                                         *)
(* Definitions that no action uses (LatchForgetsUncertain, WorkerWaits...)  *)
(* are deliberate defects of the definition that follows them: each breaks *)
(* a property, which shows that the property constrains the code.          *)
(*                                                                         *)
(* Runs are numbered in the order they are inserted (the `created_at` the  *)
(* worker sorts by); 0 stands for NULL.                                    *)
(***************************************************************************)
EXTENDS Naturals, FiniteSets

CONSTANTS
  MaxRuns,      \* bound: rows of `runs`
  Worker,       \* threads running _worker_loop
  Caller,       \* threads of API handlers and SDK users
  ExplicitCtx,  \* contexts registered for explicit continuation
  Key,          \* idempotency keys
  NoKey,        \* a request without a key
  Isolated,     \* a request without a context_id
  AnyRev,       \* a request without an expected_context_revision
  NoThread,     \* the generation lock is free
  MaxQueue,     \* limits.max_queue_size
  MaxContexts,  \* limits.max_created_contexts
  MaxRestarts   \* bound: process starts after the first

ASSUME BoundsAssumption ==
  /\ MaxRuns \in Nat \ {0}
  /\ MaxQueue \in Nat
  /\ MaxContexts \in Nat
  /\ MaxRestarts \in Nat

Run    == 1..MaxRuns
Thread == Worker \cup Caller
Ctx    == Run \cup ExplicitCtx

\* The sentinels name nothing else, and a context id is never a run number.
ASSUME NamesAssumption ==
  /\ NoThread \notin Thread
  /\ Worker \cap Caller = {}
  /\ NoKey \notin Key
  /\ Isolated \notin ExplicitCtx
  /\ AnyRev \notin Nat
  /\ ExplicitCtx \cap Run = {}

VARIABLES
  \* the journal (SQLite): survives the process
  state,        \* runs.state, "none" before the row exists
  request,      \* request_snapshots: key, context and frozen revision
  cancelIntent, \* runs.cancel_intent
  cancelSent,   \* runs.cancel_dispatched
  keyRun,       \* idempotency_records
  prep,         \* resource_operations: none, uncertain, confirmed
  attempt,      \* submit_attempts: none, intent, or a saved receipt
  attemptEpoch, \* submit_attempts.owner_epoch
  published,    \* result_index
  busy, epoch, rev, \* contexts: busy_run_id, lease_epoch, context_revision
  \* the process: lost when it dies
  up, faulted, stop,
  holder,       \* owner of _generation_lock
  pc, cur,      \* where a thread is, and the run it works for
  looking,      \* threads inside reconcile_run (the others execute_run)
  lease,        \* the `lease` local: its owner_epoch, 0 for None
  last,         \* what the thread's last call gave it
  asked,        \* the request a caller is enqueueing
  \* the remote service
  remote,       \* its task for a run
  calls,        \* how often each remote write was sent for a run
  restarts,
  overtaken     \* runs failed on a verdict that an intent had overtaken

intake   == <<request, keyRun>>
wishes   == <<cancelIntent, cancelSent>>
effects  == <<prep, attempt, attemptEpoch>>
contexts == <<busy, epoch, rev>>
journal  == <<state, published, intake, wishes, effects, contexts>>
process  == <<up, faulted, stop, holder>>
locals   == <<cur, looking, lease, asked>>
threads  == <<pc, last, locals>>
world    == <<remote, calls, restarts, overtaken>>
vars     == <<journal, process, threads, world>>

-----------------------------------------------------------------------------
(* Types and the states the code tells apart.                              *)

RunState  == {"none", "queued", "preparing", "submitting", "running",
              "succeeded", "failed", "cancelled", "uncertain"}
Terminal  == {"succeeded", "failed", "cancelled"}
\* A run between the lease and its outcome: its remote work may still happen.
InFlight  == {"preparing", "submitting", "running", "uncertain"}
Op        == {"prepare", "submit", "cancel"}
Receipt   == {"match", "conflict"}
Remote    == {"none", "active"} \cup Terminal
Request   == [key : Key \cup {NoKey}, ctx : ExplicitCtx \cup {Isolated},
              rev : Nat \cup {AnyRev}]
NoRequest == [key |-> NoKey, ctx |-> Isolated, rev |-> AnyRev]

\* Program points.  A thread holds _generation_lock exactly in LockedPc.
ExecPc   == {"locked", "admitted", "prepare", "bind", "bound", "submit",
             "receipt", "saved", "observe", "cancelling", "conclude"}
LockedPc == ExecPc \cup {"except", "lookup", "release", "unlock"}
Pc       == LockedPc \cup {"idle", "enqueue", "wait", "misread", "relock",
                          "after", "dead"}
Last     == {"none", "blocked", "error", "uncertain"} \cup Receipt \cup Terminal

TypeOK ==
  /\ state \in [Run -> RunState]
  /\ request \in [Run -> Request]
  /\ cancelIntent \subseteq Run
  /\ cancelSent \subseteq Run
  /\ keyRun \in [Key -> Run \cup {0}]
  /\ prep \in [Run -> {"none", "uncertain", "confirmed"}]
  /\ attempt \in [Run -> {"none", "intent"} \cup Receipt]
  /\ attemptEpoch \in [Run -> Nat]
  /\ published \subseteq Run
  /\ busy \in [Ctx -> Run \cup {0}]
  /\ epoch \in [Ctx -> Nat]
  /\ rev \in [Ctx -> Nat]
  /\ up \in BOOLEAN /\ faulted \in BOOLEAN /\ stop \in BOOLEAN
  /\ holder \in Thread \cup {NoThread}
  /\ pc \in [Thread -> Pc]
  /\ cur \in [Thread -> Run \cup {0}]
  /\ looking \subseteq Thread
  /\ lease \in [Thread -> Nat]
  /\ last \in [Thread -> Last]
  /\ asked \in [Thread -> Request]
  /\ remote \in [Run -> Remote]
  /\ calls \in [Op -> [Run -> Nat]]
  /\ restarts \in Nat
  /\ overtaken \subseteq Run

-----------------------------------------------------------------------------
CtxOf(r) == IF request[r].ctx = Isolated THEN r ELSE request[r].ctx

LatchForgetsUncertain == faulted \/ stop

\* admission_latch: nothing new is generated past it.
Latch == faulted \/ stop \/ \E r \in Run : state[r] = "uncertain"

\* assert_lease, and the same test in before_event and before publishing.
OwnsContext(r, e) == busy[CtxOf(r)] = r /\ epoch[CtxOf(r)] = e

ReceiptsAreIntents(r) == attempt[r] \in Receipt

HasRemoteIntent(r) == attempt[r] # "none" \/ prep[r] # "none"

GoTo(t, p) == pc' = [pc EXCEPT ![t] = p]

\* execute_run goes to its except clause; reconcile_run has none that writes.
Raise(t, e) ==
  /\ GoTo(t, IF t \in looking THEN "release" ELSE "except")
  /\ last' = [last EXCEPT ![t] = e]

Done(t) ==
  /\ GoTo(t, "idle")
  /\ cur' = [cur EXCEPT ![t] = 0]
  /\ last' = [last EXCEPT ![t] = "none"]

\* The call raises: to the worker's loop, or to whoever asked.
GiveUp(t) ==
  IF t \in Worker
    THEN GoTo(t, "after") /\ last' = [last EXCEPT ![t] = "error"] /\ UNCHANGED cur
    ELSE Done(t)

Call(op, r) == calls' = [calls EXCEPT ![op][r] = @ + 1]

\* What every process starts with, the first and the later ones.
FreshProcess ==
  [pc |-> [t \in Thread |-> "idle"], cur |-> [t \in Thread |-> 0],
   lease |-> [t \in Thread |-> 0], last |-> [t \in Thread |-> "none"],
   asked |-> [t \in Thread |-> NoRequest]]

Init ==
  /\ state = [r \in Run |-> "none"]
  /\ request = [r \in Run |-> NoRequest]
  /\ cancelIntent = {} /\ cancelSent = {} /\ published = {}
  /\ keyRun = [k \in Key |-> 0]
  /\ prep = [r \in Run |-> "none"]
  /\ attempt = [r \in Run |-> "none"]
  /\ attemptEpoch = [r \in Run |-> 0]
  /\ busy = [c \in Ctx |-> 0]
  /\ epoch = [c \in Ctx |-> 0]
  /\ rev = [c \in Ctx |-> 0]
  /\ up = TRUE /\ faulted = FALSE /\ stop = FALSE /\ holder = NoThread
  /\ pc = FreshProcess.pc /\ cur = FreshProcess.cur /\ lease = FreshProcess.lease
  /\ last = FreshProcess.last /\ asked = FreshProcess.asked /\ looking = {}
  /\ remote = [r \in Run |-> "none"]
  /\ calls = [op \in Op |-> [r \in Run |-> 0]]
  /\ restarts = 0
  /\ overtaken = {}

-----------------------------------------------------------------------------
(* enqueue_run: the key and the latch are read in one transaction, the     *)
(* capabilities are validated outside any, and a second transaction reads  *)
(* everything again before it inserts.                                     *)

\* A request that names a revision names the one its caller last read.
EnqueueCheck(t) ==
  /\ pc[t] = "idle" /\ up /\ ~stop /\ ~Latch
  /\ \E k \in Key \cup {NoKey}, c \in ExplicitCtx \cup {Isolated} :
       \E v \in {AnyRev} \cup (IF c = Isolated THEN {} ELSE {rev[c]}) :
         /\ k # NoKey => keyRun[k] = 0
         /\ asked' = [asked EXCEPT ![t] = [key |-> k, ctx |-> c, rev |-> v]]
  /\ GoTo(t, "enqueue")
  /\ UNCHANGED <<journal, process, last, cur, looking, lease, world>>

ContextAvailable(c) ==
  /\ busy[c] = 0
  /\ \A r \in Run : state[r] = "queued" => CtxOf(r) # c

QueueLength == Cardinality({r \in Run : state[r] = "queued"})

\* The insertion of a run: its row, its key and its snapshot, which freezes
\* the revision the context has now.
Insert(r, q) ==
  LET c == IF q.ctx = Isolated THEN r ELSE q.ctx IN
  /\ state[r] = "none"
  /\ \A s \in Run : s < r => state[s] # "none"
  /\ state' = [state EXCEPT ![r] = "queued"]
  /\ request' = [request EXCEPT ![r] =
                   [key |-> q.key, ctx |-> q.ctx, rev |-> rev[c]]]
  /\ keyRun' = IF q.key = NoKey THEN keyRun ELSE [keyRun EXCEPT ![q.key] = r]

ContextAllows(q) ==
  q.ctx # Isolated => ContextAvailable(q.ctx) /\ q.rev \in {AnyRev, rev[q.ctx]}

\* What the second transaction finds of the key, the queue and the context.
Accepts(q) ==
  /\ q.key # NoKey => keyRun[q.key] = 0
  /\ QueueLength < MaxQueue
  /\ ContextAllows(q)

EnqueueCommit(t) ==
  /\ pc[t] = "enqueue" /\ ~Latch
  /\ Accepts(asked[t])
  /\ \E r \in Run : Insert(r, asked[t])
  /\ GoTo(t, "idle")
  /\ asked' = [asked EXCEPT ![t] = NoRequest]
  /\ UNCHANGED <<published, wishes, effects, contexts, process, last, cur,
                 looking, lease, world>>

\* Refused, or answered with the run that already has the key.
EnqueueReturn(t) ==
  /\ pc[t] = "enqueue"
  /\ GoTo(t, "idle")
  /\ asked' = [asked EXCEPT ![t] = NoRequest]
  /\ UNCHANGED <<journal, process, last, cur, looking, lease, world>>

\* cancel_run: records the wish; only a queued run is stopped by it.
Cancel(r) ==
  /\ up /\ ~stop
  /\ state[r] \notin Terminal \cup {"none"}
  /\ cancelIntent' = cancelIntent \cup {r}
  /\ state' = IF \/ state[r] = "queued"
                 \/ state[r] = "preparing" /\ ~HasRemoteIntent(r)
                THEN [state EXCEPT ![r] = "cancelled"] ELSE state
  /\ UNCHANGED <<published, intake, cancelSent, effects, contexts, process,
                 threads, world>>

-----------------------------------------------------------------------------
(* execute_run, up to the submission.                                      *)

\* _worker_loop takes the oldest queued run unless the latch is on.
WorkerPick(t) ==
  /\ t \in Worker /\ pc[t] = "idle" /\ up /\ ~Latch
  /\ \E r \in Run :
       /\ state[r] = "queued"
       /\ \A s \in Run : s < r => state[s] # "queued"
       /\ cur' = [cur EXCEPT ![t] = r]
  /\ GoTo(t, "wait")
  /\ UNCHANGED <<journal, process, last, looking, lease, asked, world>>

\* A caller executes a run itself; one already decided is answered at once.
CallExecute(t, r) ==
  /\ t \in Caller /\ pc[t] = "idle" /\ up /\ ~stop
  /\ state[r] \in {"queued", "preparing", "submitting", "running"}
  /\ cur' = [cur EXCEPT ![t] = r]
  /\ GoTo(t, "wait")
  /\ UNCHANGED <<journal, process, last, looking, lease, asked, world>>

\* The frozen input cannot be read, damaged or for an error of the journal.  What
\* the run will be marked rests on one transaction, without the generation lock...
Misread(t) ==
  /\ pc[t] = "wait"
  /\ GoTo(t, "misread")
  /\ last' = [last EXCEPT ![t] =
                IF HasRemoteIntent(cur[t]) THEN "uncertain" ELSE "failed"]
  /\ UNCHANGED <<journal, process, locals, world>>

\* ...and the mark is another, which may fail; the lock's holder may have
\* recorded an intent for the run between the two.
MarkUnread(t) ==
  /\ pc[t] = "misread"
  /\ \/ /\ state[cur[t]] \notin Terminal
        /\ state' = [state EXCEPT ![cur[t]] = last[t]]
        /\ overtaken' = IF last[t] = "failed" /\ HasRemoteIntent(cur[t])
                          THEN overtaken \cup {cur[t]} ELSE overtaken
     \/ UNCHANGED <<state, overtaken>>
  /\ GiveUp(t)
  /\ UNCHANGED <<published, intake, wishes, effects, contexts, process, looking,
                 lease, asked, remote, calls, restarts>>

Acquire(t) ==
  /\ pc[t] = "wait" /\ holder = NoThread
  /\ holder' = t
  /\ GoTo(t, "locked")
  /\ UNCHANGED <<journal, up, faulted, stop, last, locals, world>>

\* queue_wait_seconds pass while another thread holds the lock.
WaitTimeout(t) ==
  /\ pc[t] = "wait" /\ holder # NoThread
  /\ GiveUp(t)
  /\ UNCHANGED <<journal, process, looking, lease, asked, world>>

\* The latch and the state are read again under the lock.
Admit(t) ==
  /\ pc[t] = "locked" /\ ~Latch
  /\ state[cur[t]] = "queued"
  /\ GoTo(t, "admitted")
  /\ UNCHANGED <<journal, process, last, locals, world>>

\* _admit raises: the latch is on, or cannot be read, which counts as on;
\* validate_request raises the same error for a lost capability.
Blocked(t) ==
  /\ pc[t] \in {"locked", "admitted", "bound"}
  /\ Raise(t, "blocked")
  /\ UNCHANGED <<journal, process, locals, world>>

OperationCount == Cardinality({r \in Run : prep[r] # "none"})

\* One transaction: lease, PREPARING, and the intent of the remote preparation.
Begin(t) ==
  /\ pc[t] = "admitted" /\ ~Latch
  /\ LET r == cur[t]  c == CtxOf(cur[t]) IN
       /\ rev[c] = request[r].rev
       /\ busy[c] \in {0, r}
       /\ lease' = [lease EXCEPT ![t] = epoch[c] + 1]
       /\ \/ /\ state[r] = "queued"
             /\ OperationCount < MaxContexts
             /\ busy' = [busy EXCEPT ![c] = r]
             /\ epoch' = [epoch EXCEPT ![c] = @ + 1]
             /\ state' = [state EXCEPT ![r] = "preparing"]
             /\ prep' = [prep EXCEPT ![r] = "uncertain"]
             /\ GoTo(t, "prepare")
             /\ UNCHANGED last
          \* rolled back after the lease was taken: only the local keeps it
          \/ /\ state[r] # "queued" \/ OperationCount >= MaxContexts
             /\ Raise(t, "error")
             /\ UNCHANGED <<state, prep, busy, epoch>>
  /\ UNCHANGED <<published, intake, wishes, attempt, attemptEpoch, rev, process,
                 cur, looking, asked, world>>

\* transport.prepare_context: the write may reach the service and still fail.
Prepare(t) ==
  /\ pc[t] = "prepare"
  /\ Call("prepare", cur[t])
  /\ \/ GoTo(t, "bind") /\ UNCHANGED last
     \/ Raise(t, "error")
  /\ UNCHANGED <<journal, process, locals, remote, restarts, overtaken>>

\* bind_remote and the confirmation of the operation.
Bind(t) ==
  /\ pc[t] = "bind"
  /\ OwnsContext(cur[t], lease[t])
  /\ prep' = [prep EXCEPT ![cur[t]] = "confirmed"]
  /\ GoTo(t, "bound")
  /\ UNCHANGED <<state, published, intake, wishes, attempt, attemptEpoch,
                 contexts, process, last, locals, world>>

\* One transaction: the durable intent to submit, before anything is sent.
CommitIntent(t) ==
  /\ pc[t] = "bound" /\ ~Latch
  /\ OwnsContext(cur[t], lease[t])
  /\ cur[t] \notin cancelIntent
  /\ state[cur[t]] = "preparing"
  /\ state' = [state EXCEPT ![cur[t]] = "submitting"]
  /\ attempt' = [attempt EXCEPT ![cur[t]] = "intent"]
  /\ attemptEpoch' = [attemptEpoch EXCEPT ![cur[t]] = lease[t]]
  /\ GoTo(t, "submit")
  /\ UNCHANGED <<published, intake, wishes, prep, contexts, process, last, locals,
                 world>>

\* The wish is seen: CANCELLED is written and OutcomeError(CANCELLED) raised
\* in the same transaction, which therefore rolls the write back.
CancelBeforeGeneration(t) ==
  /\ pc[t] = "bound"
  /\ OwnsContext(cur[t], lease[t])
  /\ cur[t] \in cancelIntent
  /\ Raise(t, "cancelled")
  /\ UNCHANGED <<journal, process, locals, world>>

\* transport.submit: sent once; the answer is a receipt or an exception.
Submit(t) ==
  /\ pc[t] = "submit"
  /\ Call("submit", cur[t])
  /\ remote' \in {remote, [remote EXCEPT ![cur[t]] = "active"]}
  /\ \/ /\ remote'[cur[t]] = "active"
        /\ GoTo(t, "receipt")
        /\ \E m \in Receipt : last' = [last EXCEPT ![t] = m]
     \/ Raise(t, "error")
  /\ UNCHANGED <<journal, process, locals, restarts, overtaken>>

SaveReceipt(t) ==
  /\ pc[t] = "receipt"
  /\ attempt' = [attempt EXCEPT ![cur[t]] = last[t]]
  /\ GoTo(t, "saved")
  /\ UNCHANGED <<state, published, intake, wishes, prep, attemptEpoch, contexts,
                 process, last, locals, world>>

\* bind_remote again: a handle of another workspace is refused.
MarkRunning(t) ==
  /\ pc[t] = "saved"
  /\ OwnsContext(cur[t], lease[t])
  /\ last[t] = "match"
  /\ state[cur[t]] = "submitting"
  /\ state' = [state EXCEPT ![cur[t]] = "running"]
  /\ GoTo(t, "observe")
  /\ UNCHANGED <<published, intake, wishes, effects, contexts, process, last,
                 locals, world>>

-----------------------------------------------------------------------------
(* _observe_and_finalize, shared by execute_run and reconcile_run.         *)

\* before_event: neither stopping nor displaced.
MayObserve(t) ==
  /\ pc[t] = "observe" /\ ~stop
  /\ OwnsContext(cur[t], attemptEpoch[cur[t]])

CancelDueInLookup(t) == cur[t] \in cancelIntent \ cancelSent

CancelDue(t) ==
  t \notin looking /\ cur[t] \in cancelIntent \ cancelSent

DispatchUnrecorded(t) ==
  /\ MayObserve(t) /\ CancelDue(t)
  /\ GoTo(t, "cancelling")
  /\ UNCHANGED <<journal, process, last, locals, world>>

DispatchCancel(t) ==
  /\ MayObserve(t) /\ CancelDue(t)
  /\ cancelSent' = cancelSent \cup {cur[t]}
  /\ GoTo(t, "cancelling")
  /\ UNCHANGED <<state, published, intake, cancelIntent, effects, contexts,
                 process, last, locals, world>>

\* request_cancel: its answer proves nothing about the remote task.
RequestCancel(t) ==
  /\ pc[t] = "cancelling"
  /\ Call("cancel", cur[t])
  /\ \/ GoTo(t, "observe") /\ UNCHANGED last
     \/ Raise(t, "error")
  /\ UNCHANGED <<journal, process, locals, remote, restarts, overtaken>>

\* The authoritative terminal event; the events before it change nothing here.
ObserveTerminal(t) ==
  /\ MayObserve(t) /\ ~CancelDue(t)
  /\ remote[cur[t]] \in Terminal
  /\ last' = [last EXCEPT ![t] = remote[cur[t]]]
  /\ GoTo(t, "conclude")
  /\ UNCHANGED <<journal, process, locals, world>>

\* Result, manifest, index row, SUCCEEDED and the revision: one transaction.
Publish(t) ==
  /\ pc[t] = "conclude" /\ last[t] = "succeeded"
  /\ state[cur[t]] \in {"running", "uncertain"}
  /\ OwnsContext(cur[t], attemptEpoch[cur[t]])
  /\ state' = [state EXCEPT ![cur[t]] = "succeeded"]
  /\ published' = published \cup {cur[t]}
  /\ rev' = [rev EXCEPT ![CtxOf(cur[t])] = @ + 1]
  /\ GoTo(t, "release")
  /\ last' = [last EXCEPT ![t] = "none"]
  /\ UNCHANGED <<intake, wishes, effects, busy, epoch, process, locals, world>>

\* _set_outcome commits the remote failure or cancellation, then raises it.
SetOutcome(t) ==
  /\ pc[t] = "conclude" /\ last[t] \in {"failed", "cancelled"}
  /\ state' = IF state[cur[t]] \in Terminal THEN state
                ELSE [state EXCEPT ![cur[t]] = last[t]]
  /\ Raise(t, last[t])
  /\ UNCHANGED <<published, intake, wishes, effects, contexts, process, locals,
                 world>>

-----------------------------------------------------------------------------
(* Leaving execute_run.                                                    *)

\* Any other exception: a check that fails, an exhausted budget, an error of
\* the transport or of the disk.  The step's transaction is rolled back.
Fail(t) ==
  /\ pc[t] \in ExecPc \cup {"lookup"}
  /\ Raise(t, "error")
  /\ UNCHANGED <<journal, process, locals, world>>

\* The except clause: a run blocked before it left the queue stays there.
PreserveQueue(t) ==
  last[t] = "blocked" /\ state[cur[t]] = "queued" /\ Latch

Handle(t) ==
  /\ pc[t] = "except"
  /\ LET r == cur[t] IN
       state' = IF PreserveQueue(t) \/ state[r] \in Terminal \cup {"uncertain"}
                  THEN state
                  ELSE [state EXCEPT ![r] =
                         IF HasRemoteIntent(r) THEN "uncertain" ELSE "failed"]
  /\ GoTo(t, "release")
  /\ UNCHANGED <<published, intake, wishes, effects, contexts, process, last,
                 locals, world>>

\* The journal fails under the handler or under the release; reconcile_run
\* lets the error out and marks nothing.
JournalFault(t) ==
  /\ \/ pc[t] = "except" /\ GoTo(t, "release")
     \/ pc[t] = "release" /\ (t \in looking \/ lease[t] # 0) /\ GoTo(t, "unlock")
  /\ faulted' = (faulted \/ t \notin looking)
  /\ UNCHANGED <<journal, up, stop, holder, last, locals, world>>

\* release_lease of an execution (compare and release), or the clearing of
\* the run's reservation after a lookup; only once the run is decided.
Released(t) ==
  IF t \in looking
    THEN {c \in Ctx : busy[c] = cur[t]}
    ELSE {c \in {CtxOf(cur[t])} : lease[t] # 0 /\ OwnsContext(cur[t], lease[t])}

ReleaseUndecided(t) ==
  /\ pc[t] = "release"
  /\ busy' = [c \in Ctx |-> IF c \in Released(t) THEN 0 ELSE busy[c]]
  /\ GoTo(t, "unlock")
  /\ UNCHANGED <<state, published, intake, wishes, effects, epoch, rev, process,
                 last, locals, world>>

Release(t) ==
  /\ pc[t] = "release"
  /\ busy' = IF state[cur[t]] \in Terminal
               THEN [c \in Ctx |-> IF c \in Released(t) THEN 0 ELSE busy[c]] ELSE busy
  /\ GoTo(t, "unlock")
  /\ UNCHANGED <<state, published, intake, wishes, effects, epoch, rev, process,
                 last, locals, world>>

Unlock(t) ==
  /\ pc[t] = "unlock"
  /\ holder' = NoThread
  /\ lease' = [lease EXCEPT ![t] = 0]
  /\ looking' = looking \ {t}
  /\ IF t \in Worker /\ last[t] # "none"
       THEN GoTo(t, "after") /\ UNCHANGED <<last, cur>>
       ELSE Done(t)
  /\ UNCHANGED <<journal, up, faulted, stop, asked, world>>

\* Mutant of WorkerAfter: after an error the worker waits for a call of its own.
WorkerWaits(t) ==
  /\ pc[t] = "after" /\ last[t] = "blocked"
  /\ faulted' = (faulted \/ ~Latch)
  /\ Done(t)
  /\ UNCHANGED <<journal, up, stop, holder, looking, lease, asked, world>>

\* _worker_loop's own handlers: an unexplained refusal, or a run that is
\* still queued although its execution raised, stops all admission.
WorkerAfter(t) ==
  /\ pc[t] = "after"
  /\ faulted' = (faulted \/ IF last[t] = "blocked" THEN ~Latch
                             ELSE state[cur[t]] = "queued")
  /\ Done(t)
  /\ UNCHANGED <<journal, up, stop, holder, looking, lease, asked, world>>

\* The loop reads the journal outside any handler, for the next run and for the
\* state of one that failed: an error there ends the thread and nothing else.
WorkerDies(t) ==
  /\ t \in Worker /\ up
  /\ \/ pc[t] = "idle" /\ ~Latch
     \/ pc[t] = "after" /\ last[t] # "blocked"
  /\ pc' = [pc EXCEPT ![t] = "dead"]
  /\ cur' = [cur EXCEPT ![t] = 0]
  /\ last' = [last EXCEPT ![t] = "none"]
  /\ UNCHANGED <<journal, process, looking, lease, asked, world>>

\* start_worker again, which does nothing while the thread lives.
StartWorker(t) ==
  /\ pc[t] = "dead" /\ up /\ ~stop
  /\ GoTo(t, "idle")
  /\ UNCHANGED <<journal, process, last, locals, world>>

-----------------------------------------------------------------------------
(* reconcile_run: the state is read before the lock is tried.              *)

ReconcileStart(t, r) ==
  /\ t \in Caller /\ pc[t] = "idle" /\ up /\ ~stop
  /\ state[r] = "uncertain"
  /\ cur' = [cur EXCEPT ![t] = r]
  /\ GoTo(t, "relock")
  /\ UNCHANGED <<journal, process, last, looking, lease, asked, world>>

ReconcileLock(t) ==
  /\ pc[t] = "relock"
  /\ IF holder = NoThread
       THEN /\ holder' = t /\ looking' = looking \cup {t}
            /\ GoTo(t, "lookup") /\ UNCHANGED <<cur, last>>
       ELSE Done(t) /\ UNCHANGED <<holder, looking>> \* "Worker still owns generation"
  /\ UNCHANGED <<journal, up, faulted, stop, lease, asked, world>>

\* Only a saved receipt that agrees with the bound context can be looked up.
Lookup(t) ==
  /\ pc[t] = "lookup"
  /\ attempt[cur[t]] = "match"
  /\ GoTo(t, "observe")
  /\ UNCHANGED <<journal, process, last, locals, world>>

-----------------------------------------------------------------------------
(* The process and the service.                                            *)

\* close() and the shutdown of the API set the stop event.
Stop ==
  /\ up /\ ~stop
  /\ stop' = TRUE
  /\ UNCHANGED <<journal, up, faulted, holder, threads, world>>

\* The process ends, after a close or at any other point.
Exit ==
  /\ up
  /\ up' = FALSE /\ faulted' = FALSE /\ stop' = FALSE /\ holder' = NoThread
  /\ pc' = FreshProcess.pc /\ cur' = FreshProcess.cur /\ lease' = FreshProcess.lease
  /\ last' = FreshProcess.last /\ asked' = FreshProcess.asked /\ looking' = {}
  /\ UNCHANGED <<journal, world>>

Unsettled == {r \in Run : state[r] \notin Terminal \cup {"none"}}

NeedsLookupOnceRunning(r) == state[r] \in {"running", "uncertain"}

\* recover_on_startup: an intent is never repeated.
NeedsLookup(r) ==
  state[r] \in {"submitting", "running", "uncertain"} \/ HasRemoteIntent(r)

Restart ==
  /\ ~up /\ restarts < MaxRestarts
  /\ up' = TRUE
  /\ restarts' = restarts + 1
  /\ state' = [r \in Run |-> IF r \notin Unsettled THEN state[r]
                             ELSE IF NeedsLookup(r) THEN "uncertain" ELSE "queued"]
  /\ busy' = [c \in Ctx |-> IF busy[c] \in Unsettled /\ ~NeedsLookup(busy[c])
                              THEN 0 ELSE busy[c]]
  /\ UNCHANGED <<published, intake, wishes, effects, epoch, rev, faulted, stop,
                 holder, threads, remote, calls, overtaken>>

\* The remote task ends by itself or because it was asked to.
RemoteEnds(r) ==
  /\ remote[r] = "active"
  /\ \E o \in Terminal : remote' = [remote EXCEPT ![r] = o]
  /\ UNCHANGED <<journal, process, threads, calls, restarts, overtaken>>

-----------------------------------------------------------------------------
Step(t) ==
  \/ EnqueueCommit(t) \/ EnqueueReturn(t)
  \/ WorkerPick(t) \/ Acquire(t) \/ WaitTimeout(t)
  \/ Misread(t) \/ MarkUnread(t)
  \/ Admit(t) \/ Blocked(t) \/ Begin(t) \/ Prepare(t) \/ Bind(t)
  \/ CommitIntent(t) \/ CancelBeforeGeneration(t)
  \/ Submit(t) \/ SaveReceipt(t) \/ MarkRunning(t)
  \/ DispatchCancel(t) \/ RequestCancel(t) \/ ObserveTerminal(t)
  \/ Publish(t) \/ SetOutcome(t)
  \/ Fail(t) \/ Handle(t) \/ JournalFault(t)
  \/ Release(t) \/ Unlock(t) \/ WorkerAfter(t)
  \/ ReconcileLock(t) \/ Lookup(t)

\* What callers ask for.
Demand ==
  \/ \E t \in Caller : EnqueueCheck(t)
  \/ \E t \in Caller, r \in Run : CallExecute(t, r) \/ ReconcileStart(t, r)
  \/ \E r \in Run : Cancel(r)
  \/ \E t \in Worker : StartWorker(t)

Environment ==
  \/ Stop \/ Exit \/ Restart
  \/ \E r \in Run : RemoteEnds(r)
  \/ \E t \in Worker : WorkerDies(t)

Next == (\E t \in Thread : Step(t)) \/ Demand \/ Environment

Spec == Init /\ [][Next]_vars

\* Bound of the safety run: a behaviour is left where a verdict was overtaken,
\* which two of the properties except, where the worker died, which then takes no
\* steps, as a worker may that lives, and where the process was asked to stop,
\* which lets nothing begin and what has begun go on as before.
Explored == overtaken = {} /\ ~stop /\ \A t \in Worker : pc[t] # "dead"

\* A thread's step is never postponed for ever: the remote calls and the
\* observation carry time budgets (Fail), the worker polls every 0.1 s as long
\* as its thread lives.  Nothing is assumed of callers, of the service, of the
\* worker's life or of the process's.
FairSpec == Spec /\ \A t \in Thread : WF_vars(Step(t))

-----------------------------------------------------------------------------
(* What the runtime promises.                                              *)

\* Each remote write, the preparation, the generation and the cancellation,
\* is sent at most once for a run, whatever crashes, replays, lookups and
\* concurrent executions happen (execute_run, reconcile_run, recovery).
AtMostOncePerRun == \A op \in Op, r \in Run : calls[op][r] <= 1

\* A write is sent only after its intent is durable, so that a crash between
\* the two leaves evidence: the resource operation, the submit attempt and
\* the cancel_dispatched mark.
IntentBeforeCall ==
  \A r \in Run :
    /\ calls["prepare"][r] > 0 => prep[r] # "none"
    /\ calls["submit"][r] > 0 => attempt[r] # "none"
    /\ calls["cancel"][r] > 0 => r \in cancelSent

\* There is never more than one run whose remote work may still happen:
\* the generation lock, the latch and recovery add up to one account-wide slot.
OneInFlight ==
  \A r, s \in Run : state[r] \in InFlight /\ state[s] \in InFlight => r = s

\* A decided run is decided as the service decided it: nothing is reported
\* failed or cancelled while its task may still run, and success is reported
\* exactly when the result is indexed.  Excepted is a run failed because its
\* input could not be read, on a verdict formed before its intent was recorded.
TruthfulOutcome ==
  \A r \in Run :
    /\ state[r] \in Terminal /\ r \notin overtaken =>
         \/ remote[r] = state[r]
         \/ remote[r] = "none" /\ state[r] # "succeeded"
    /\ state[r] = "succeeded" <=> r \in published

\* A run in flight keeps its context reserved, across a crash and a restart,
\* until a lookup decides it: no other run can write to that conversation.
ContextReserved ==
  \A r \in Run : state[r] \in InFlight => busy[CtxOf(r)] = r

\* The context revision a queued run froze at admission cannot move before
\* its dispatch: the reservation of enqueue_run covers the time in the queue.
FrozenRevision ==
  \A r \in Run : state[r] = "queued" =>
    rev[CtxOf(r)] = request[r].rev /\ busy[CtxOf(r)] = 0

\* Two callers racing with one idempotency key get one run, although the
\* capabilities are validated between the lookup and the insertion.
OneRunPerKey ==
  \A r, s \in Run :
    /\ state[r] # "none" /\ state[s] # "none"
    /\ request[r].key = request[s].key /\ request[r].key # NoKey
    => r = s

SendsOnlyItsOwn ==
  calls' # calls => \A op \in Op, q \in Run : calls'[op][q] # calls[op][q] =>
    /\ holder \in Thread \ looking /\ cur[holder] = q
    /\ \A r \in Run \ {q} : state[r] # "uncertain"

\* A lookup sends no remote write, and nobody sends one for a run while another
\* is uncertain.  For the run itself its execution may, when a thread that could
\* not read the input marked it between the intent and the call.
UncertainFreezesWrites == [][SendsOnlyItsOwn]_vars

KeepsDecisions == \A r \in Run : state[r] \in Terminal => state'[r] = state[r]

\* A decided run is never decided again: late lookups, late cancels, failing
\* handlers and recovery leave it alone.
DecidedForGood == [][KeepsDecisions]_vars

\* What SubmitOnce sees of the supervisor.
AbstractPhase ==
  [r \in Run |->
     CASE state[r] = "none" -> "new"
       [] state[r] \in {"queued", "preparing", "submitting", "running"} -> "open"
       [] state[r] = "uncertain" -> "unknown"
       [] OTHER -> state[r]]

Promise == INSTANCE SubmitOnce WITH
  phase <- AbstractPhase,
  sent <- {r \in Run : calls["submit"][r] > 0}

\* The supervisor implements SubmitOnce: queue, lock, latch, lookup and
\* recovery add up to one generation request per run, none beside another
\* whose end is not known, and outcomes that are known; up to the moment at
\* which a run is failed on a verdict that its intent had overtaken.
SubmitsOnce ==
  Promise!Init /\ [][overtaken' # {} \/ Promise!Next]_(Promise!vars)

\* The outcome an execution raises to its caller is the run's durable outcome
\* (execute_run raises OutcomeError(CANCELLED) before the submission).
RaisedOutcomeIsDurable ==
  \A t \in Thread :
    pc[t] = "unlock" /\ last[t] \in Terminal /\ ~faulted => state[cur[t]] = last[t]

\* When nobody works, a context is reserved only for a run in flight (or one
\* failed on an overtaken verdict).
IdleReservationIsInFlight ==
  up /\ ~faulted /\ holder = NoThread =>
    \A c \in ExplicitCtx :
       busy[c] \notin {0} \cup overtaken => state[busy[c]] \in InFlight

\* A queued run does not wait for ever: it leaves the queue, or admission is
\* latched, or the process or its workers have ended.
QueueDrains ==
  \A r \in Run : state[r] = "queued" ~>
    (state[r] # "queued" \/ Latch \/ ~up \/ \A w \in Worker : pc[w] = "dead")
=============================================================================
