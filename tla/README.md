# prism2api: TLA+ models, TLC checks and TLAPS proofs

prism2api puts a local API in front of a remote assistant that has no idempotent
submission: once a generation request has left, nothing but an answer tells
whether it arrived. The program's core is therefore bookkeeping under failure:
write the intent before the request, send it once, never guess an outcome, keep
the conversation reserved until the outcome is known. This directory models that
core in TLA+, checks it with TLC and proves it with TLAPS.

Paths below are relative to `src/src/prism2api/`.

## 1. The system's parts

| Part | State it keeps | Operations | Talks to |
|---|---|---|---|
| Run supervisor (`runtime/supervisor.py`) | rows of `runs`, `request_snapshots`, `idempotency_records`, `submit_attempts`, `resource_operations`; `_generation_lock`, stop event, fault flag | `enqueue_run`, `execute_run`, `reconcile_run`, `cancel_run`, `recover_on_startup`, `close`, the worker loop | contexts, journal, transport, event normalizer |
| Contexts and leases (`runtime/context.py`) | `contexts.busy_run_id`, `lease_epoch`, `context_revision`, remote ids | create, acquire, assert and release a lease, bind a remote handle, commit a revision | called inside the supervisor's transactions |
| Storage journal (`storage/journal.py`, `storage/db.py`) | SQLite connection shared by all threads, result files, `result_index` | publish a result, read it back, nested transactions | everything |
| Event normalizer (`runtime/events.py`) | events of one attempt, text buffer, terminal event, conflict and unknown flags | `add_event`, `get_terminal_event` | fed by `_observe_and_finalize` |
| Direct HTTP engine (`direct/engine.py`, `direct/journal.py`, `direct/wire.py`) | its own table `direct_runs`, an asyncio lock, a process lock | `generate`, `reconcile`, `acknowledge`, `doctor`, `close` | Prism's HTTP endpoints |
| Direct bootstrap, server, CLI, files (`direct/bootstrap.py`, `server.py`, `cli.py`, `secure.py`) | an imported request capture | import, serve, command line | direct engine |
| Browser transport and server (`transport/prism_browser.py`, `server/browser_server.py`) | an asyncio lock, one page, the live profile | launch, start, provision, second start, poll, close | the web page |
| Prism web transport and parsers (`transport/prism_web/*`) | the live profile, a cookie, the handle of each run | configure, submit, observe, parse | supervisor (as its transport) |
| HTTP API and SDK (`api/`, `client.py`) | none of their own | enqueue, wait, cancel, read | supervisor |
| Home lock (`runtime/locking.py`, supervisor `__init__`/`close`) | a file lock per home, the journal's owner | claim, supersede, release | supervisor |
| Local secrets (`config.py`) | `credentials/fingerprint.key` | load or create | the journal's fingerprints, idempotency keys |
| Mock and unconfigured transports, models, other settings, errors | data types and test doubles | | |

The supervisor, the direct engine and the browser server are three separate
programs. The first two have a journal each, and no run moves from one to the
other; the third keeps nothing that outlives it but the profile file, which it
shares with the HTTP transport of the first.

### What is hard in it

* Several threads (the worker, API handlers that execute runs themselves,
  lookups, cancels) share one journal and one lock; most handlers read before
  they take the lock and decide after it.
* The process may die between any two transactions, and a restart must tell from
  the rows alone what may have been sent.
* A remote write may take effect although the call raised an exception.
* A wish to cancel may arrive at any point and must not turn a read-only lookup
  into a write.
* A failing journal under an exception handler leaves rows that say too little.
* A result is three files and a row; the power may fail between any two of them,
  and after a failed flush nobody knows what the disk holds.
* Two processes, or two supervisors in one, may want the same home while a
  shutdown is under way or has failed half way.
* An answer of the service may be late, lost, or about somebody else's turn, and a
  call may time out while its generation goes on.
* The rows of a home outlive the secret that makes sense of them.

`PROJECT.json` lists these hazards at their lines, with the properties that
answer each.

## 2. Modules

| Module | Stands for |
|---|---|
| `SubmitOnce` | the promise both programs make about generations, and nothing of how |
| `RunSupervisor` | the supervisor with the context leases, the worker, callers, crash and restart, and the remote service |
| `RunSupervisorProofs` | its inductive invariant `IInv` and theorems, the refinement of `SubmitOnce` among them |
| `DirectEngine` | the direct HTTP engine with its journal, an event loop of several coroutines, imports, crash and restart, and the service |
| `DirectEngineProofs` | its inductive invariant and theorems, the refinement of `SubmitOnce` among them |
| `MCDirectEngine` | symmetry of the instances TLC checks |
| `EventNormalizer` | what one observed stream of events amounts to, with the identity check in front of it |
| `EventNormalizerProofs` | the flags and the text against the whole stream |
| `ResultStore` | how the outcome of one run becomes durable and is read back: files, flushes, the publishing transaction, lookups, clients |
| `ResultStoreProofs` | its inductive invariant and theorems |
| `HomeOwnership` | who may generate on a home: lock file, journals, supervisors that replace each other, their threads, `close()` |
| `HomeSecrets` | the secret of a home, and the keys and inputs that depend on it |
| `HomeProofs` | the inductive invariants of `HomeOwnership` and `HomeSecrets`, and their theorems |
| `LiveProfile` | the profile file both transports of Prism read |
| `BrowserTransport` | the browser-assisted server: requests of one event loop on one page |
| `BrowserTransportProofs` | its inductive invariant and theorems |
| `PrismHttp` | the HTTP transport with its parser, and what the service may answer it |
| `PrismHttpProofs` | its inductive invariant and theorems |
| `LockedConnection` | the SQLite connection all threads share: lock, nested blocks, savepoints |
| `LockedConnectionProofs` | its inductive invariant and theorems |
| `MCLockedConnection`, `MCResultStore`, `MCHomeSecrets` | symmetry of the instances |
| `MCHomeOwnership` | which supervisor is built on which journal |
| `MCBrowserTransport`, `MCPrismHttp` | the profile files a start may find; the conversation both runs share |
| `MCEventNormalizer` | symmetry, and the text of a stream computed, against which `PutOut` is checked |

`RunSupervisor` takes the authoritative terminal event of a run as given
(`ObserveTerminal`); `EventNormalizer` shows when a stream has one. It also takes each
outermost `with self.conn:` block for one step; `LockedConnection` shows that such a
block is durable as a whole or not at all, and never mixed with another's. Three more
parts of the supervisor are one step or one fact there and a module here: the
publication of a result (`ResultStore`, where `RunSupervisor!Publish` is a dozen
steps that may each fail), the right to generate on the home (`HomeOwnership`, which
in turn keeps of a generation only its place relative to the two intents), and the
secret under which keys and inputs are found again (`HomeSecrets`). `PrismHttp` says
which events a stream of `EventNormalizer` is made of. Both journaling programs
are connected with `SubmitOnce` by a refinement mapping at the end of their module
(`Promise == INSTANCE SubmitOnce WITH ...`).
`HomeSecrets` calls its specification `SecretsSpec`, so that `HomeProofs` can extend it
beside `HomeOwnership`.

Each module also defines a few operators that no action uses, each placed before
the definition it is a defect of (`LatchForgetsUncertain` before `Latch`). Put in the
place of that definition, such a defect violates one of the properties; the pairs
are listed under `mutants` in `PROJECT.json`.

### How the state and the actions correspond to the code

**RunSupervisor.** `state`, `request`, `keyRun`, `prep`, `attempt`, `published`,
`busy`, `epoch`, `rev` are columns of the journal's tables and survive `Exit`;
`holder`, `faulted`, `stop`, `pc`, `cur`, `lease`, `last`, `asked` are the process and
are lost by it. `remote` and `calls` are what really happens at the service: no
guard of the program reads them except through an answer. A thread walks through
program points; there is one action per transaction or remote call:

| Code | Actions |
|---|---|
| `enqueue_run`, two transactions with a validation between | `EnqueueCheck`, `EnqueueCommit`, `EnqueueReturn` |
| `execute_run` up to the submission | `WorkerPick` or `CallExecute`, `Misread`, `MarkUnread`, `Acquire`, `WaitTimeout`, `Admit`, `Blocked`, `Begin`, `Prepare`, `Bind`, `CommitIntent`, `CancelBeforeGeneration`, `Submit`, `SaveReceipt`, `MarkRunning` |
| `_observe_and_finalize` | `DispatchCancel`, `RequestCancel`, `ObserveTerminal`, `Publish`, `SetOutcome` |
| `except` and `finally` of `execute_run`, `reconcile_run` and the worker | `Fail`, `Handle`, `JournalFault`, `Release`, `Unlock`, `WorkerAfter`, `WorkerDies` |
| `reconcile_run` | `ReconcileStart`, `ReconcileLock`, `Lookup`, then as above with the thread in `looking` |
| `cancel_run`, `close`, `start_worker`, `recover_on_startup` | `Cancel`, `Stop`, `StartWorker`, `Restart` |

Any check, budget or journal error may end an execution at any point (`Fail`): the
transaction of that step is rolled back, so `Fail` changes nothing durable. The
failure of the journal under the exception handler itself is `JournalFault`. The
worker's loop reads the journal outside any handler (`supervisor.py:532-533`, `542`):
an error there is `WorkerDies`, which faults and latches nothing.

`execute_run` reads the frozen input before it takes the generation lock. When that
read raises, for damage or for any error of the journal, the run is marked uncertain
or failed without the lock (lines 276-281), and another thread may hold it and be
anywhere in the same run. `_has_remote_intent` (`Misread`) and `_set_outcome`
(`MarkUnread`) are two transactions, so that the holder may record an intent between
them, and even send: then a run is failed although its request went out. `overtaken`
is the set of the runs this has happened to (see section 5).

**DirectEngine.** `state`, `request`, `startCount`, `turn` are the columns of
`direct_runs`; each journal call commits by itself. Everything runs in one event
loop, so from the test of the lock to the first await nothing else runs
(`Generate`, `Replay`, `Reconcile` are single actions), and the awaits (`Await`) are
where other coroutines, the deadline and a failure come in. `Start` and `Started` are
apart because the request may take effect at any later time or never: the service
passes a turn from `sent` to `active` to an outcome on its own. `turn` counts
versions of the opaque `turn_state`.

**EventNormalizer.** The variables are the fields of the object of that name; one
action per branch of `add_event`. A text is a sequence of pieces; the finish reason
is supported or not. `Refuse` is every way in which a call raises before the event
could matter: a malformed event, a foreign identity or epoch (`provider/adapter.py`),
a limit in bytes.

**LockedConnection.** `stack` is the thread-local list of markers, `savepoints`,
`content` and `durable` are SQLite's. There is one action for each way into and out of
a block: `Enter`, `EnterFails`, `ExitInner` (with or without an exception), `Commit`,
`CommitFails`, `Rollback`, and `ExitLost` after an error for which SQLite has rolled
back by itself. `Close` is the end of the connection, under its lock and so between
blocks; `EnterClosed` is what a thread does that still comes then: `__enter__` reads
`in_transaction` after it has acquired the lock and before its `try` (`db.py:17-20`),
so it raises and keeps the lock. `work` and `reported` are bookkeeping for the
properties only: what each open block has put in, and what an outermost block that
ended without an exception was reported to have stored.

**ResultStore.** One run that has been submitted. `state`, `index`, `referred`, `busy`
are its rows. `seen` is what a file name gives to a reader now, `disk` the set of
things it may give after the power fails: a rename makes both the old and the new
content possible until the directory is flushed. `stage` follows the holder of the
generation lock through `_observe_and_finalize`; each `atomic_json` is
`WriteTemporary`, `Rename`, `SyncDirectory`. Between `BeginPublication` and
`CommitPublication` the rows do not change and the two inner files do. `Fail` may
end any step, `Handle` and `Release` are the `except` and `finally` clauses,
`Misread` is the branch of `execute_run` that marks a run whose snapshot it cannot read
without the lock (`supervisor.py:281`); the run has been submitted, so its intent is
there to be seen. A lookup reads `uncertain` before it waits for
the lock and does not read it again (`Reconcile`, `Acquire`). `reader` and the
other variables of the clients are `wait` and the result handler; `Kill` ends the
process, `PowerCut` the machine, `Damage` is somebody editing a file.

**HomeOwnership.** A journal stands for a process. `flock` is the lock file, `journal`
and `closer` are the object's construction and the stages of `close()`; `sup` follows
the constructor of each supervisor (`CheckPrevious`, `Supersede`, `TakeOver`),
`superseded`, `stop` and `shut` are its flags. `pc` places each thread in a call of
each supervisor: outside the lock (`ensured`), inside it (`locked`, `looking`), in the
transaction that records the intent to prepare or to submit (`preparing`,
`submitting`), after that has committed (`intended`, `committed`), after the remote
call (`prepared`, `submitted`). `Admit` is the check in a transaction (`Latch`),
`Commit` its end and `Call` the request that follows, with everything else free to
happen between the two: a supervisor may be superseded, and the home released, before
the request goes out. `SaveReceipt` is what a later lookup needs. `Leave` ends a call
in every way it can end, among them a handler or a release that fails with the journal
open: the intent stays unmarked and only `faulted` tells.

**HomeSecrets.** `file` is the secret's file, empty between `CreateFile` and
`WriteFile` as between `O_CREAT|O_EXCL` and the write; `phase` is the start of the
process. `given` is a secret that comes with the settings, in which case the file is
not looked at (`config.py:127-128`); giving, changing or taking it away is the
operator's. A row keeps the secret under which its digests were made (`under`); a key
is found, and an input is readable, only under the same one (`Remembered`,
`Readable`).

**BrowserTransport.** `pc` places each request where it waits: `queued` for
`asyncio.Lock`, then for the answer of an exchange (`starting`, `provision`,
`restarting`, `polling`) or for the next poll (`sleeping`). An await of
`page.evaluate` is two steps, the request leaving and the answer coming, and the
answer need not come: evaluate has no timeout. A start that was sent takes effect
upstream at any later time or never, whoever still waits for it. `late` is the clock,
which the code reads only between two polls (`TimePasses`, `Wake`). `server` and
`browser` are what `run_server` has opened and closed; `FinishClose` may leave the
page open, because `close()` swallows the exceptions of what it closes
(`prism_browser.py:296-305`).

**PrismHttp.** A submit is `Check`, `Name`, `Post` and `Answer`: it reads the profile,
then the identity and the sandbox, then the cookie (`http_transport.py:156`,
`172-174`, `184`), and then waits for its POST. The setter of the profile is three
writes (`SetProfile`, `SetCookie`, `SetStatus`), each of which may fall between those
reads; `disturbed` marks the submits it has run into. `TurnBegins` is the service
taking a start up, at any time after it was posted and whatever was answered. `handle`
is what `submit` saved and `observe_events` reads back, with the conversation beside
it; `Parse` maps an answer to the kinds of event the parser yields. What an answer may
be about is `Identified` and `BodiesOf`: the run's own turn, another turn of the same
conversation, an older state, no identity at all.

## 3. What the runs check

| Run | Instance | Shows |
|---|---|---|
| `supervisor_safety` | 2 runs, the worker and one caller, 1 restart | no remote write is repeated (`AtMostOncePerRun`) or sent before its intent is durable (`IntentBeforeCall`); one run in flight (`OneInFlight`); outcomes as the service decided them (`TruthfulOutcome`); the context stays reserved (`ContextReserved`); a lookup sends no write, and nobody sends one while a run other than its own is uncertain (`UncertainFreezesWrites`); the whole implements `SubmitOnce`, so that outcomes are final |
| `supervisor_liveness` | 2 runs, no restart, fair threads | a queued run leaves the queue unless admission is latched, the process is down or every worker has died (`QueueDrains`); a lock that was never given back would stop it |
| `supervisor_cancel`, `supervisor_leak` | 1 run | the two findings below |
| `direct_engine` | 2 turns, 2 coroutines, a key, 2 prompts, 2 chats, 1 restart, 1 import | alone in the chat (`OneTurnInChat`); truthful outcomes; lookups in the turn's own chat (`LookupStaysInChat`); a replayed key gives a text only for its own prompt and import (`TextOfItsRequest`); turn states only advance (`TurnStateAdvances`); implements `SubmitOnce` |
| `events_any_order` | streams of up to 4 events, 2 pieces of text | the verdict is that of the whole stream in every order (`VerdictOfWholeStream`); nothing proven is thrown away (`EvidenceIsAccepted`); the final text is what was put out (`FinalTextOfStream`) |
| `connection_blocks` | 2 threads, 5 rows, blocks up to 4 deep, a close, crashes | what is durable is exactly what was reported (`AllOrNothing`); an inner block that raises takes back only its own rows (`BlocksAddUp`); on an open connection the lock is held exactly while a block is open, and it is closed only between blocks (`HeldWhileOpen`) |
| `result_store` | 2 texts or a refusal, 2 threads, 2 clients, no bound | no client is ever told two things (`OneFinalAnswer`); a succeeded run has its files whatever the power does (`SucceededIsDurable`); "unavailable" is said only of a damaged file (`UnavailableMeansDamage`); a reference to evidence is to the evidence of the outcome, unless a release has failed (`EvidenceOfOutcome`) |
| `home` | 2 processes, 3 supervisors, two of them on one journal, a worker and a caller | under a closed transport nobody is between the intent of a generation and its end; lookups, and calls that have recorded no intent yet, may be (`ClosedTransportIsIdle`); one unresolved intent in the home (`OneUnresolvedIntent`), which whoever owns it has marked, is still working on, or has faulted over (`IntentsAreKnown`); only the owner that holds the home records an intent (`OnlyOwnerRecords`); the request that follows may go out late, and then its run is still the only unresolved one (`CallsStandAlone`) |
| `secrets` | 2 keys, 3 runs, 3 secrets, drawn or from the settings | unless the secret was lost or replaced, a key gets one run (`OneRunPerKey`); one unresolved generation even then (`OneUnresolved`) |
| `browser` | 2 requests, every kind of profile file, fair event loop | types (`TypeOK`); a text is that of the last start of its own request (`TextIsOfLastStart`); a second start answers a named reason (`SecondStartAnswersUnknown`); a request that comes after `close()` has begun sends nothing, although one already queued may (`LateCallersSendNothing`); every request that waits for the lock is answered, unless one exchange with Prism never is (`EveryCallEnds`) |
| `http_transport` | 2 runs in one conversation, 2 accounts, 1 observation each | an end is reported only for the run's own turn (`EndIsOwnTurns`); a submit that refuses is never followed by a turn, however late (`RefusalsSendNothing`); a start that no change of the profile runs into carries the cookie of the account it names (`SentAsCurrentAccount`) |

### Bounds, and why they are enough to be interesting

Two runs are the least that can be in flight together, fight for a context or be taken
in the wrong order; a third adds only another queued row. One worker and one caller
give every overlap of two executions, of an execution with a lookup, and of either
with a cancel; the lock admits one at a time, so a third thread only waits. One
restart reaches every crash point followed by a recovery, and in the direct engine a
second import between two processes. Callers that race with one key, and queued runs
on one explicit context, are not in a run of the supervisor: the state space is out of
reach together with execution and restart, and both are proved (`Idempotent`,
`Frozen`). Two versions of a turn state tell an old one from a new one. Four events
are the shortest stream in which text precedes an end, an end is followed by a late
text and something contradicts both; a buffer over its limit is reached with three.

The bounds `MaxRuns`, `MaxRestarts`, `MaxImports`, `MaxTurn`, `MaxPieces`, `MaxDepth`,
`MaxObserves` are not in the code; neither is the constraint `Explored`, under which
`supervisor_safety` follows a behaviour up to the first overtaken verdict, the death
of its worker or the stop event, and not beyond: two of its properties except
overtaken runs, a dead worker takes no steps, and after the stop nothing begins and
what has begun may go on or fail as before. `supervisor_liveness` has no such
constraint. In `home` at most one supervisor at a time has faulted (`OneFault`): a
fault stops only its own supervisor, and a successor that faults beside it is left to
the theorems. `MaxQueue`, `MaxContexts`, `MaxEvents`, `MaxText` are its limits, made
small so that they are hit. The theorems hold without any of them.

In `LockedConnection` a savepoint inside a savepoint is the deepest nesting that
behaves in a way of its own, and two threads are what a leftover transaction or lock
needs to do harm.

In `ResultStore` two texts are what it takes to tell a stale answer from a fresh one,
two threads to let a lookup overtake another, two clients to be told different things;
crashes and failures are not counted. In `HomeSecrets` three secrets allow two losses
and three runs a replay of each key after a loss. Two supervisors on one journal, or
on one each, are all that can meet: a third waits for the same lock or finds the same
flags; `home` has both. Two requests in `BrowserTransport` are a holder and a waiter;
each can start twice, as in the code. In `PrismHttp` two runs of one conversation are
the least that can be answered with each other's turns.

`CHECK_DEADLOCK FALSE` is set, except for `connection_blocks`, `result_store` and
`secrets`, because the systems may really stop: a process that is down stays down
once `MaxRestarts` is used up, an observation ends, a closed home has no more work, and
a request that was answered is over.

### Fairness

`RunSupervisor!FairSpec` is weakly fair to each thread's `Step`. A thread that waits
for the lock waits at most `queue_wait_seconds`; preparation, submission and the steps
of an observation carry time limits of their own and `total_run_seconds` bounds the
whole, and running out of one is `Fail`; the worker polls every 0.1 s as long as its
thread lives. Nothing is assumed of callers, of the service, of the life of the
process or of the worker's: the loop's own reads may raise and end its thread
(`WorkerDies`), and only another `start_worker` makes a new one. So `QueueDrains`
allows for a latched admission, for a process that is down and for workers that have
all died.

`BrowserTransport!FairSpec` is weakly fair to what the event loop and the clock do by
themselves: the caller that has got the lock goes on (`Start`), a sleep ends (`Wake`),
the time of a polling caller passes (`TimePasses`). No answer is assumed to come:
`page.evaluate` has no timeout (`prism_browser.py:169`, `183`, `206`, `229`) and the
deadline is compared only between two polls (228), so one exchange that is never
answered keeps the lock from everybody else for ever. `EveryCallEnds` says that this
is the only way.

## 4. What is proved

TLAPS proves the following for any number of runs, threads or coroutines, keys,
contexts, restarts and imports, and for streams of any length. The assumptions are
those named in the modules: bounds are naturals and sentinels are not members of
the sets they are added to.

* `RunSupervisorProofs`: every safety invariant and action property of the
  supervisor that the runs check; `THEOREM Refines == Spec => SubmitsOnce`; and
  `FrozenRevision` (the revision a queued run froze is the one it is dispatched with),
  `OneRunPerKey` and `DecidedForGood`, which no run checks.
* `DirectEngineProofs`: the same for the direct engine, `Refines` included.
* `EventNormalizerProofs`: typing, `VerdictOfWholeStream`, `EvidenceIsAccepted`,
  `FinalTextOfStream`.
* `ResultStoreProofs`: the four properties of `result_store`.
* `HomeProofs`: of `HomeOwnership` the five properties of `home`, that whoever works
  or generates for the owner of a journal holds the home (`OwnerKeepsTheLock`), that
  only the owner admits (`OwnerAdmits`) and that a recorded intent stands until its
  request is out (`IntentsStand`); of `HomeSecrets` the properties of `secrets`, and
  that an accepted input can be read as long as the secret is not lost
  (`AcceptedIsReadable`).
* `LockedConnectionProofs`: the properties of `connection_blocks`, for blocks of any
  depth, and typing.
* `BrowserTransportProofs`: every property of `browser` but its liveness, typing, and
  that one caller at a time is inside `submit_and_poll` (`OneUserOfThePage`).
* `PrismHttpProofs`: the properties of `http_transport`, and typing.

**The supervisor's invariant.** None of the properties is inductive alone. That
nothing is sent twice rests on rows (a run that was sent has an intent, and a run with
an intent is never `queued` again), on the lock (the thread that holds it is the only
one inside `LockedPc`), and on what the thread at each program point may rely on: at
`submit` the run has an intent, was not sent, and is `submitting` unless another
thread that could not read its input has marked it meanwhile; at `observe` the receipt
is saved, and so on. `IInv` is layered in that order: types; `holder` against `pc`;
each program point against the rows of its run, the remote task and the call counts;
the single run in flight against the latch; that an execution between its lease and
the end of its observation is alone in flight, even when its own run was failed under
it (`AloneInv`), without which a mark made without the lock would let a second run in;
reservations, frozen revisions and keys. Each layer is a theorem (`TypeCorrect`,
`LockCorrect`, `WorkCorrect`, `SlotCorrect`, `AloneCorrect`, `ContextCorrect`) that
the next one cites, and each is preserved by a lemma with one step per action.

**The supervisor implements `SubmitOnce`.** The mapping reads the phase of a run off
its row and the set of sent runs off the call counts. From the invariant, each step is
one of three things. `Submit` is a `Send` (`Sends`): the run is open, or uncertain by
a mark made without the lock, has not been sent, and every run sent before it is
decided, because the slot is its own. A step that changes rows and sends nothing is a
`Judge` (`Judged`): each row stays, is accepted, moves on while it is open, becomes
uncertain, or gets an outcome that the service has reached or that follows from having
sent nothing. Every other step is a stutter (`Stutters`) or the service's own. A
restart judges all open rows at once. The refinement holds as long as `overtaken` is
empty: a verdict overtaken by an intent decides a run whose outcome nobody knows,
which `SubmitOnce` forbids and the code does.

**The engine's invariant.** The same in smaller: the coroutine that holds the lock
is the only one away from `idle` apart from those at the end of their work; the row
of its run, its local `submitted` and the service agree at each point; any run with
`sent` or `active` work that is not abandoned is pending, which is what stops the
next turn. The refinement follows from the invariant: each step moves one run's
phase as `SubmitOnce!Move` allows, sends once, or is a stutter; only `Restart` moves
several.

**The normalizer's invariant.** As long as nothing was refused, `terminal` is the first
end of the stream, `unknown` and `conflict` say exactly whether such an event is in
it, and a final text goes with output. A refused event may be recorded without a
trace in the flags, which is why the invariant is conditional; the code is right to
never ask for a verdict then, because the exception leaves the observation.

**The text of a stream.** The text a stream puts out is the last snapshot followed by
the deltas after it. Concatenation over a stream is a recursion no prover here can
use, so `PutOut` says the same with a witness: every text that counts (`Kept`) has a
place in the result, in the order of the stream, without gaps or overlaps. A delta
extends the witness (`PutOutDelta`), a snapshot starts a new one (`PutOutSnapshot`),
anything else leaves it (`PutOutOfPrefix`). `TextInv` says that the buffer is the text
put out as long as no end has come; the first end turns that into the final text. That
`PutOut` holds of exactly the computed text is checked by TLC, for all streams of up
to three events over two pieces (`MCEventNormalizer!PutOutIsOutput`).

**The result's invariant.** A succeeded run is safe because its digest is committed
only when both files are flushed under it, and nobody writes these names afterwards.
The first half follows the stages in order (`WritesInOrder`: which contents each file
may have at each stage, and that what is renamed is what was observed); the second
needs that no observer is left over when the run is decided, which the lookups that do
not read the state again threaten: `NoLateObserver` says that once a run is over, and
unless a release has failed, the holder is on its way out of its own observation, or
the lease is gone and stops whoever comes to observe, or nobody waits to. `RowsAgree`
ties the rows to each other, `ToldOutcome` what clients hold to the rows.

**The home's invariant.** `HomeLockAgrees`: the lock file belongs to the journal that
is locked or open. `ClosesInOrder` and `QuietOnceChecked`: the stages of `close()`
against the supervisors' flags, so that from the check of the generation lock on no
thread of the owner is between its intent and its end. `CallsAreLive` puts the threads
of a call under the generation lock and the connection's transaction;
`SupervisorsOfJournals` says who may be the owner. One unresolved intent then follows
from the latch, which reads the rows of whoever came before and the fault of the owner
itself: `IntentsAreKnown` has one of the two for every intent that no call is at work
on. `IntentsStand` is what makes a late request stand alone: from the commit of an
intent to its request the row has no receipt, so no lookup can settle it, and the
latch of every other owner sees it.

**The secret's invariant.** `SecretsAgree`: a process that is up has the secret of its
settings or of the file, and without a loss so has every row. `KeysAgree`: what
callers were told is what the rows say under that secret. `RowsAdmit`: a run that was
sent and not proven is unresolved in its row, which is why the latch sees it.

**The connection's invariant.** `AllOrNothing` is kept by a commit only if what the
connection sees is what the block put in, and that only if every `ROLLBACK TO`
restores exactly the enclosing blocks. `SavepointsAddUp` says so for each depth: there
is one savepoint fewer than blocks, the n-th is named n and holds the rows of the
outermost n blocks. `MarkersAreDepths` makes the markers those names, so that
`__exit__` finds the savepoint of its own block, and `OwnerIsInside` that a marker
`None` is on top only in the outermost block, and that a connection is closed only
when no block is open. Every way out keeps these through one lemma about popping
(`Leaving`).

**The browser's invariant.** `LockInv`: the queue of the lock holds each waiting
request once, in the order they came, and only its head is inside `submit_and_poll`.
`CallInv` ties the place of each request to the starts sent for it (one before a
second can be asked for, none while queued), to the answer it holds (of the last
start, and with ids when it polls), and to what its starts began upstream; `ReplyOf`
what the status it was given says of these. `CloseInv`: from the beginning of
`close()` on the transport is not ready, which is all that stops a caller who comes
then, because the page may stay open. A step of one request leaves the others alone
(`OwnStep`), whatever the browser does meanwhile.

**The HTTP transport's invariant.** `CookieIsProfiles`: while the transport is ready
and nobody is setting the profile, the cookie is that of the profile in use, although
a profile without a cookie does not clear the one before it. `ReadsAgree`: what an
undisturbed submit has read is still what is there. `UnsentHasNothing`: a run whose
POST has not left has no turn and no handle, so a refusal leaves nothing behind that
could begin later. `AnswerIsOfTurn`: an answer kept in a handle is what Prism says of
that run's turn, which is over. What the parser may make of an answer is the lemma
`Parsing`.

Only model-checked: the liveness properties `QueueDrains` and `EveryCallEnds` (ENABLED
and fairness are out of the provers' reach); that `PutOut` is the computed text, which
would need induction over the stream; and `RaisedOutcomeIsDurable` and
`IdleReservationIsInFlight`, which do not hold.

## 5. Findings

* `supervisor_cancel`: a cancel that is seen after the preparation and before the
  submission. `execute_run` (`runtime/supervisor.py:332-336`) writes CANCELLED and
  raises inside the same transaction, which rolls the write back; the handler then
  finds a run with a resource operation and marks it uncertain, so the caller is told
  CANCELLED while the journal latches all admission until somebody settles it.
* `supervisor_leak`: the outcome and the release of the lease are two transactions
  (`runtime/supervisor.py:367-370`, `497-502`). A crash between them leaves an explicit
  context reserved for a run that is decided; recovery looks only at undecided runs,
  so no later request on that context is ever accepted.

More places where the program does something else than its documents say, or than one
would want, were met while modelling. The models contain the behaviour; no run is spent
on showing it.

* An execution that cannot read its input asks `_has_remote_intent` in one transaction
  and marks the run in another, without the generation lock
  (`runtime/supervisor.py:276-281`). An intent recorded by the lock's holder between
  the two is overtaken: the run is FAILED while its generation goes on, or is sent
  afterwards. `TruthfulOutcome`, `SubmitsOnce` and `IdleReservationIsInFlight` except
  the runs in `overtaken`; the other properties hold of them too.
* The worker's loop reads the journal outside any handler
  (`runtime/supervisor.py:532-533`, `542`). An error there ends the thread; nothing is
  latched, and runs are accepted into a queue that nobody works on.
* A thread that enters a closed connection keeps its lock (`storage/db.py:17-20`), so
  that every later one waits for ever instead of being refused.
* The lock of the browser transport serialises requests, not generations: after a
  timeout (`transport/prism_browser.py:291`) or a second start (line 206) the first
  generation may run on beside the next one. `README.md:70` forbids parallel requests
  to one conversation. A start whose answer was lost, or that was answered with an
  error, may run on as well.
* `http_transport.py:300` drops a batch without an end, an unknown answer with it;
  `docs/guides/transport-handoff.md:35` wants an unknown substantive event to leave the
  run uncertain. Nor does the loop of line 285 look at the deadline of its session, as
  `transport/base.py:44` asks.
* A lost `credentials/fingerprint.key` is replaced without a look at the rows
  (`config.py:137`), and a key used before is then accepted again; section 5 of
  `docs/architecture/modules/03-run-lifecycle-and-idempotency.md` rules that out. Hence
  the condition in `HomeSecrets!OneRunPerKey`.
* A process that dies between creating that file and writing it leaves an empty one,
  which every later start refuses (`config.py:135`) until somebody deletes it.

## 6. Assumptions and abstractions

* Every outermost `with self.conn:` block of the supervisor is one atomic step (see
  `LockedConnection`), and a committed row can be read but where the code handles that
  it cannot. What an unreadable snapshot does to a run is `Misread` in `RunSupervisor`
  and `ResultStore`, and `ExecuteUnreadable` in `HomeSecrets`. Whether admission is
  latched is read in the transaction it guards; a journal that cannot be read there
  ends the execution like a latch (`Blocked`).
* SQLite keeps its documented behaviour: a transaction is durable with its COMMIT,
  which a crash leaves done or undone and never in part, a failed COMMIT can be rolled
  back, a savepoint that exists can be released.
* A remote write that is sent may or may not take effect; a receipt agrees with the
  bound context or it does not (`Receipt`), names and revisions of remote objects are
  not modelled further.
* `request_cancel` is a wish: the service ends a task by itself, as any outcome.
* A status answer of the direct service never carries an older `turn_state` than the
  request it answers, and no answer reports an outcome the turn does not have.
* `acknowledge` is believed as an abandonment, never as an outcome.
* `status_count`, `heartbeat_count`, time stamps, event logs and delivery records
  are left out: nothing the properties speak of reads them.
* Supersession of one supervisor by another and `close()` waiting for its worker are
  in `HomeOwnership` and not in `RunSupervisor`, where `Exit` covers the end of the
  process at any point. The thread that makes a journal builds its supervisors, starts
  their workers and closes it, as `client.py`, `api/app.py` and `__main__.py` do.
* A rename is atomic for readers; until the directory is flushed a power failure
  leaves the old or the new content, and an unflushed file may be torn. A file is
  changed by others only in `Damage`, the secret only in `Lose`.
* The page answers an `evaluate`, rejects it or never answers it; ids belong to the
  start they answer. The browser transport compares no identity in a status
  (`prism_browser.py:258-284`): that a status is about the generation whose ids were
  sent is assumed of Prism (`BrowserTransport!StatusOf`), and `TextIsOfLastStart`
  rests on it. The HTTP transport does compare, and `PrismHttp` assumes only that a
  request id names the turn it was given for.
* The live profile of the HTTP transport is set by whoever holds it, at any moment; the
  repository itself sets it only in the constructor.

## 7. What is left

A composition of `PrismHttp` with `EventNormalizer` and the observation of
`RunSupervisor`, so that the events one proves to be the run's own are those the other
takes its outcome from.

Not modelled, and why:

* `transport/prism_web/transport.py`, a scaffold whose operations all refuse; the mock
  and unconfigured transports, models, settings other than the secret, errors: data
  without behaviour.
* The import of captured requests (`direct/bootstrap.py`, cURL text in `prism_web`),
  file permissions (`direct/secure.py`), command lines, and the checks an HTTP handler
  makes on one request: text conversions and input checks with no state between two
  calls.
* `max_created_contexts` counts operations ever made (`runtime/supervisor.py:317`), so
  that a service stops generating after that many runs. The model has the limit
  (`MaxContexts`), but no document says what should happen there.
