---------------------------- MODULE DirectEngine ----------------------------
(***************************************************************************)
(* The direct HTTP engine: direct/engine.py with the rows of               *)
(* direct/journal.py.                                                      *)
(*                                                                         *)
(* One process owns a home directory and writes to one fixed chat.  A turn *)
(* is reserved in the journal, announced as `submitting`, started by one   *)
(* request that is never repeated and polled until the service reports an  *)
(* end.  Everything runs in one event loop: other coroutines run only at   *)
(* the awaits, and find the lock taken there; the process may die between  *)
(* any two statements of the journal, each of which commits by itself.     *)
(*                                                                         *)
(* Definitions that no action uses are deliberate defects of the           *)
(* definition that follows them: each breaks a property.                   *)
(***************************************************************************)
EXTENDS Naturals, FiniteSets

CONSTANTS
  MaxRuns,     \* bound: rows of `direct_runs`
  Task,        \* coroutines that call the engine
  Key,         \* idempotency keys
  NoKey,       \* a request without a key
  Prompt,      \* prompts
  NoPrompt,    \* a row that does not exist
  Scope,       \* (user, project, conversation) of a captured request
  NoTask,      \* the lock is free
  MaxTurn,     \* bound: versions of a turn_state
  MaxImports,  \* bound: imports of a capture after the first
  MaxRestarts  \* bound: process starts after the first

ASSUME DirectAssumption ==
  /\ MaxRuns \in Nat \ {0}
  /\ MaxTurn \in Nat /\ MaxImports \in Nat /\ MaxRestarts \in Nat
  /\ NoKey \notin Key /\ NoPrompt \notin Prompt
  /\ NoTask \notin Task

Run == 1..MaxRuns

VARIABLES
  \* the journal
  state,       \* state, "none" before the row exists
  request,     \* key_hash, and what the fingerprint and the scope are made of
  startCount,  \* start_count
  turn,        \* the turn_state of receipt_json: its version, 0 for none
  \* the process
  up, closed,
  bundle,      \* the imported capture: import_id and scope
  lock,        \* owner of the asyncio lock
  pc, cur,     \* where a coroutine is, and its run
  looking,     \* coroutines inside reconcile (the others generate)
  submitted,   \* the local of generate
  receipt,     \* the turn_state a coroutine holds
  reply,       \* what it makes of the last answer
  \* the service and the callers
  remote,      \* the turn the service runs for a run
  starts,      \* start requests sent
  sentTurn,    \* the turn_state of the last status request
  served,      \* the texts handed out: run, prompt and import
  restarts, imports

journal == <<state, request, startCount, turn>>
owner   == <<up, closed, bundle, lock>>
locals  == <<cur, looking, submitted, receipt, reply>>
bounds  == <<restarts, imports>>
service == <<remote, starts, sentTurn>>
vars    == <<journal, owner, pc, locals, service, served, bounds>>

-----------------------------------------------------------------------------
RunState == {"none", "preparing", "submitting", "running", "succeeded",
             "failed", "cancelled", "uncertain", "abandoned"}
Outcome  == {"succeeded", "failed", "cancelled"}
Decided  == Outcome \cup {"abandoned"}
\* `sent`: the request is on its way and may still take effect.
Remote   == {"none", "sent", "active"} \cup Outcome
\* `foreign`: an identity that disagrees; `unreadable`: any other bad schema.
Reply    == {"none", "foreign", "unreadable", "running"} \cup Outcome
Bundle   == [id : Nat, scope : Scope]
Request  == [key : Key \cup {NoKey}, prompt : Prompt \cup {NoPrompt},
             bundle : Bundle]
Served   == [run : Run, prompt : Prompt \cup {NoPrompt}, import : Nat]

\* The places where generate, reconcile and doctor wait for the service.
Await    == {"heartbeat", "start", "answer", "poll", "status", "doctor"}
Body     == Await \cup {"mark", "count", "save", "judge", "keep", "decide"}
Pc       == Body \cup {"idle", "except", "unlock"}

TypeOK ==
  /\ state \in [Run -> RunState]
  /\ request \in [Run -> Request]
  /\ startCount \in [Run -> Nat]
  /\ turn \in [Run -> Nat]
  /\ up \in BOOLEAN /\ closed \in BOOLEAN
  /\ bundle \in Bundle
  /\ lock \in Task \cup {NoTask}
  /\ pc \in [Task -> Pc]
  /\ cur \in [Task -> Run \cup {0}]
  /\ looking \subseteq Task /\ submitted \subseteq Task
  /\ receipt \in [Task -> Nat]
  /\ reply \in [Task -> Reply]
  /\ remote \in [Run -> Remote]
  /\ starts \in [Run -> Nat]
  /\ sentTurn \in [Run -> Nat]
  /\ served \subseteq Served
  /\ restarts \in Nat /\ imports \in Nat

-----------------------------------------------------------------------------
GoTo(t, p) == pc' = [pc EXCEPT ![t] = p]

\* generate goes to its except clause; reconcile and doctor write nothing.
Raise(t) ==
  GoTo(t, IF t \in looking \/ pc[t] = "doctor" THEN "unlock" ELSE "except")

Init ==
  /\ state = [r \in Run |-> "none"]
  /\ startCount = [r \in Run |-> 0]
  /\ turn = [r \in Run |-> 0]
  /\ up = TRUE /\ closed = FALSE /\ lock = NoTask
  /\ \E s \in Scope : bundle = [id |-> 0, scope |-> s]
  /\ request = [r \in Run |-> [key |-> NoKey, prompt |-> NoPrompt, bundle |-> bundle]]
  /\ pc = [t \in Task |-> "idle"] /\ cur = [t \in Task |-> 0]
  /\ looking = {} /\ submitted = {}
  /\ receipt = [t \in Task |-> 0] /\ reply = [t \in Task |-> "none"]
  /\ remote = [r \in Run |-> "none"]
  /\ starts = [r \in Run |-> 0] /\ sentTurn = [r \in Run |-> 0]
  /\ served = {} /\ restarts = 0 /\ imports = 0

-----------------------------------------------------------------------------
(* generate: from the lock to the first await nothing else runs.           *)

ExceptUncertain == \E r \in Run : state[r] \in {"submitting", "running"}

\* journal.pending: a turn that may still run blocks the next one.
Pending == \E r \in Run : state[r] \in {"submitting", "running", "uncertain"}

SameText(r, q) == request[r].prompt = q.prompt

\* The fingerprint covers the prompt, the import and its scope.
SameRequest(r, q) == request[r].prompt = q.prompt /\ request[r].bundle = q.bundle

Holds(q, r) == q.key # NoKey /\ state[r] # "none" /\ request[r].key = q.key

\* A new row; the lock is found free, taken and kept in one go.
Generate(t) ==
  /\ pc[t] = "idle" /\ up /\ ~closed /\ lock = NoTask
  /\ \E k \in Key \cup {NoKey}, p \in Prompt, r \in Run :
       LET q == [key |-> k, prompt |-> p, bundle |-> bundle] IN
         /\ \A s \in Run : ~Holds(q, s)
         /\ ~Pending
         /\ state[r] = "none"
         /\ \A s \in Run : s < r => state[s] # "none"
         /\ state' = [state EXCEPT ![r] = "preparing"]
         /\ request' = [request EXCEPT ![r] = q]
         /\ cur' = [cur EXCEPT ![t] = r]
  /\ lock' = t
  /\ GoTo(t, "heartbeat")
  /\ UNCHANGED <<startCount, turn, up, closed, bundle, looking, submitted, receipt,
                 reply, service, served, bounds>>

\* The key's own run answers, and only when it succeeded; a refusal (busy,
\* another request under the key, a pending turn) changes nothing.
Replay ==
  /\ up /\ ~closed /\ lock = NoTask
  /\ \E k \in Key, p \in Prompt, r \in Run :
       LET q == [key |-> k, prompt |-> p, bundle |-> bundle] IN
         /\ Holds(q, r) /\ SameRequest(r, q)
         /\ state[r] = "succeeded"
         /\ served' = served \cup
              {[run |-> r, prompt |-> p, import |-> bundle.id]}
  /\ UNCHANGED <<journal, owner, pc, locals, service, bounds>>

\* The heartbeat answered; it starts nothing.
Heartbeat(t) ==
  /\ pc[t] \in {"heartbeat", "doctor"}
  /\ GoTo(t, IF pc[t] = "doctor" THEN "unlock" ELSE "mark")
  /\ UNCHANGED <<journal, owner, locals, service, served, bounds>>

\* The intent is durable before anything is sent.
MarkSubmitting(t) ==
  /\ pc[t] = "mark"
  /\ state' = [state EXCEPT ![cur[t]] = "submitting"]
  /\ GoTo(t, "count")
  /\ UNCHANGED <<request, startCount, turn, owner, locals, service, served, bounds>>

StartUnsubmitted(t) ==
  /\ pc[t] = "count"
  /\ startCount' = [startCount EXCEPT ![cur[t]] = @ + 1]
  /\ GoTo(t, "start")
  /\ UNCHANGED <<state, request, turn, owner, locals, service, served, bounds>>

CountStart(t) ==
  /\ pc[t] = "count"
  /\ startCount' = [startCount EXCEPT ![cur[t]] = @ + 1]
  /\ submitted' = submitted \cup {t}
  /\ GoTo(t, "start")
  /\ UNCHANGED <<state, request, turn, owner, cur, looking, receipt, reply, service,
                 served, bounds>>

\* The start request leaves; whether it arrives is not known here.
Start(t) ==
  /\ pc[t] = "start"
  /\ starts' = [starts EXCEPT ![cur[t]] = @ + 1]
  /\ remote' = [remote EXCEPT ![cur[t]] = "sent"]
  /\ GoTo(t, "answer")
  /\ UNCHANGED <<journal, owner, locals, sentTurn, served, bounds>>

\* What an answer about a turn can say: a status may lag behind the turn.
Answers(r) ==
  {"foreign", "unreadable"} \cup
  (IF remote[r] = "none" \/ remote[r] = "sent" THEN {} ELSE {"running"}) \cup
  ({remote[r]} \cap Outcome)

\* An answer with a request_id; it may carry a turn_state or none.
Started(t) ==
  /\ pc[t] = "answer"
  /\ \E a \in Answers(cur[t]), v \in {0, 1} :
       /\ v <= MaxTurn
       /\ reply' = [reply EXCEPT ![t] = a]
       /\ receipt' = [receipt EXCEPT ![t] = v]
  /\ GoTo(t, "save")
  /\ UNCHANGED <<journal, owner, cur, looking, submitted, service, served, bounds>>

\* save_receipt, before the answer is interpreted.
SaveReceipt(t) ==
  /\ pc[t] = "save"
  /\ turn' = [turn EXCEPT ![cur[t]] = receipt[t]]
  /\ GoTo(t, "judge")
  /\ UNCHANGED <<state, request, startCount, owner, locals, service, served, bounds>>

MarkRunning(t) ==
  /\ pc[t] = "judge" /\ reply[t] = "running" /\ receipt[t] # 0
  /\ state' = [state EXCEPT ![cur[t]] = "running"]
  /\ GoTo(t, "poll")
  /\ UNCHANGED <<request, startCount, turn, owner, locals, service, served, bounds>>

-----------------------------------------------------------------------------
(* _poll, shared by generate and reconcile.                                *)

\* status_count, then a status request with the turn_state in hand.
\* A client that close() has shut sends nothing.
Poll(t) ==
  /\ pc[t] = "poll" /\ ~closed
  /\ sentTurn' = [sentTurn EXCEPT ![cur[t]] = receipt[t]]
  /\ GoTo(t, "status")
  /\ UNCHANGED <<journal, owner, locals, remote, starts, served, bounds>>

\* A turn_state in an answer is the one the request carried or a newer one.
Status(t) ==
  /\ pc[t] = "status"
  /\ \E a \in Answers(cur[t]), v \in {receipt[t], receipt[t] + 1} :
       /\ a # "foreign" /\ v <= MaxTurn
       /\ reply' = [reply EXCEPT ![t] = a]
       /\ receipt' = [receipt EXCEPT ![t] = v]
  /\ GoTo(t, "keep")
  /\ UNCHANGED <<journal, owner, cur, looking, submitted, service, served, bounds>>

KeepNothing(t) ==
  /\ pc[t] = "keep"
  /\ GoTo(t, "decide")
  /\ UNCHANGED <<journal, owner, locals, service, served, bounds>>

\* The newest turn_state is durable before the next request uses it.
KeepTurn(t) ==
  /\ pc[t] = "keep"
  /\ turn' = [turn EXCEPT ![cur[t]] = receipt[t]]
  /\ GoTo(t, "decide")
  /\ UNCHANGED <<state, request, startCount, owner, locals, service, served, bounds>>

PollAgain(t) ==
  /\ pc[t] = "decide" /\ reply[t] = "running"
  /\ GoTo(t, "poll")
  /\ UNCHANGED <<journal, owner, locals, service, served, bounds>>

\* _finish: only success hands out a text, any other end is raised.
Finish(t) ==
  /\ pc[t] \in {"judge", "decide"} /\ reply[t] \in Outcome
  /\ state' = [state EXCEPT ![cur[t]] = reply[t]]
  /\ LET q == request[cur[t]] IN
       IF reply[t] = "succeeded"
         THEN /\ served' = served \cup
                   {[run |-> cur[t], prompt |-> q.prompt, import |-> q.bundle.id]}
              /\ GoTo(t, "unlock")
         ELSE Raise(t) /\ UNCHANGED served
  /\ UNCHANGED <<request, startCount, turn, owner, locals, service, bounds>>

-----------------------------------------------------------------------------
(* The ways out.                                                           *)

\* A request that failed, an answer with a foreign identity or a bad schema,
\* a journal that cannot be written.
Fail(t) ==
  /\ pc[t] \in Body
  /\ Raise(t)
  /\ UNCHANGED <<journal, owner, locals, service, served, bounds>>

\* asyncio.timeout covers every await, the sleep between polls included.
Deadline(t) ==
  /\ pc[t] \in Await
  /\ Raise(t)
  /\ UNCHANGED <<journal, owner, locals, service, served, bounds>>

\* generate's except clause: what was not announced has failed.
Handle(t) ==
  /\ pc[t] = "except"
  /\ state' = [state EXCEPT ![cur[t]] =
                 IF @ \in Outcome THEN @
                 ELSE IF t \in submitted THEN "uncertain" ELSE "failed"]
  /\ GoTo(t, "unlock")
  /\ UNCHANGED <<request, startCount, turn, owner, locals, service, served, bounds>>

\* The journal fails under the except clause: the row keeps its state.
JournalFault(t) ==
  /\ pc[t] = "except"
  /\ GoTo(t, "unlock")
  /\ UNCHANGED <<journal, owner, locals, service, served, bounds>>

Unlock(t) ==
  /\ pc[t] = "unlock"
  /\ lock' = NoTask
  /\ GoTo(t, "idle")
  /\ cur' = [cur EXCEPT ![t] = 0]
  /\ looking' = looking \ {t} /\ submitted' = submitted \ {t}
  /\ receipt' = [receipt EXCEPT ![t] = 0]
  /\ reply' = [reply EXCEPT ![t] = "none"]
  /\ UNCHANGED <<journal, up, closed, bundle, service, served, bounds>>

-----------------------------------------------------------------------------
(* The other operations.                                                   *)

ReconcileAnyScope(t) ==
  /\ pc[t] = "idle" /\ up /\ lock = NoTask
  /\ \E r \in Run :
       /\ state[r] = "uncertain"
       /\ turn[r] # 0
       /\ cur' = [cur EXCEPT ![t] = r]
       /\ receipt' = [receipt EXCEPT ![t] = turn[r]]
  /\ lock' = t /\ looking' = looking \cup {t}
  /\ GoTo(t, "poll")
  /\ UNCHANGED <<journal, up, closed, bundle, submitted, reply, service, served, bounds>>

\* reconcile: a lookup in the run's own chat, with a receipt to look up.
Reconcile(t) ==
  /\ pc[t] = "idle" /\ up /\ lock = NoTask
  /\ \E r \in Run :
       /\ state[r] = "uncertain"
       /\ request[r].bundle.scope = bundle.scope
       /\ turn[r] # 0
       /\ cur' = [cur EXCEPT ![t] = r]
       /\ receipt' = [receipt EXCEPT ![t] = turn[r]]
  /\ lock' = t /\ looking' = looking \cup {t}
  /\ GoTo(t, "poll")
  /\ UNCHANGED <<journal, up, closed, bundle, submitted, reply, service, served, bounds>>

\* acknowledge: the operator's word that the remote turn has stopped.
Acknowledge(r) ==
  /\ up /\ lock = NoTask
  /\ state[r] = "uncertain"
  /\ state' = [state EXCEPT ![r] = "abandoned"]
  /\ UNCHANGED <<request, startCount, turn, owner, pc, locals, service, served, bounds>>

\* doctor: a heartbeat under the lock.
Doctor(t) ==
  /\ pc[t] = "idle" /\ up /\ lock = NoTask
  /\ lock' = t
  /\ GoTo(t, "doctor")
  /\ UNCHANGED <<journal, up, closed, bundle, locals, service, served, bounds>>

\* close: refused under a request.  The connection and the process lock go
\* after an await, in which another coroutine may still come in (Exit).
Close ==
  /\ up /\ ~closed /\ lock = NoTask
  /\ closed' = TRUE
  /\ UNCHANGED <<journal, up, bundle, lock, pc, locals, service, served, bounds>>

\* The process ends, after a close or at any other point.
Exit ==
  /\ up
  /\ up' = FALSE /\ closed' = FALSE /\ lock' = NoTask
  /\ pc' = [t \in Task |-> "idle"] /\ cur' = [t \in Task |-> 0]
  /\ looking' = {} /\ submitted' = {}
  /\ receipt' = [t \in Task |-> 0] /\ reply' = [t \in Task |-> "none"]
  /\ UNCHANGED <<journal, bundle, service, served, bounds>>

\* import_curl takes the same process lock: no engine is running.
Import ==
  /\ ~up /\ imports < MaxImports
  /\ imports' = imports + 1
  /\ \E s \in Scope : bundle' = [id |-> imports + 1, scope |-> s]
  /\ UNCHANGED <<journal, up, closed, lock, pc, locals, service, served, restarts>>

RecoverRunning(s) ==
  IF s = "running" THEN "uncertain"
  ELSE IF s \in {"preparing", "submitting"} THEN "failed" ELSE s

\* Journal.__init__ classifies what the last process left.
Recover(s) ==
  IF s \in {"submitting", "running"} THEN "uncertain"
  ELSE IF s = "preparing" THEN "failed" ELSE s

Restart ==
  /\ ~up /\ restarts < MaxRestarts
  /\ up' = TRUE
  /\ restarts' = restarts + 1
  /\ state' = [r \in Run |-> Recover(state[r])]
  /\ UNCHANGED <<request, startCount, turn, closed, bundle, lock, pc, locals,
                 service, served, imports>>

\* The service takes up a turn, and ends it.
RemoteStarts(r) ==
  /\ remote[r] = "sent"
  /\ remote' = [remote EXCEPT ![r] = "active"]
  /\ UNCHANGED <<journal, owner, pc, locals, starts, sentTurn, served, bounds>>

RemoteEnds(r) ==
  /\ remote[r] = "active"
  /\ \E o \in Outcome : remote' = [remote EXCEPT ![r] = o]
  /\ UNCHANGED <<journal, owner, pc, locals, starts, sentTurn, served, bounds>>

-----------------------------------------------------------------------------
\* What a coroutine does by itself between two awaits, and after them.
Proceed(t) ==
  \/ MarkSubmitting(t) \/ CountStart(t) \/ SaveReceipt(t) \/ MarkRunning(t)
  \/ KeepTurn(t) \/ PollAgain(t) \/ Finish(t)
  \/ Fail(t) /\ pc[t] \notin Await
  \/ Handle(t) \/ JournalFault(t) \/ Unlock(t)

\* What depends on the service or on a timer.
Network(t) ==
  \/ Heartbeat(t) \/ Start(t) \/ Started(t) \/ Poll(t) \/ Status(t)
  \/ Fail(t) /\ pc[t] \in Await

Demand ==
  \/ \E t \in Task : Generate(t) \/ Reconcile(t) \/ Doctor(t)
  \/ \E r \in Run : Acknowledge(r)
  \/ Replay

Environment ==
  \/ Close \/ Exit \/ Import \/ Restart
  \/ \E r \in Run : RemoteStarts(r) \/ RemoteEnds(r)

Next ==
  \/ \E t \in Task : Proceed(t) \/ Network(t) \/ Deadline(t)
  \/ Demand \/ Environment

Spec == Init /\ [][Next]_vars

-----------------------------------------------------------------------------
(* What the engine promises.                                               *)

\* A turn's start request is sent at most once, whatever is replayed, looked
\* up or restarted, and start_count tells of it before it leaves.
StartedOnce == \A r \in Run : starts[r] <= startCount[r] /\ startCount[r] <= 1

\* Unless the operator abandoned it, a turn whose request may still take
\* effect is the only one in the chat: pending() covers what a deadline, a
\* crash or a late answer left behind.
OneTurnInChat ==
  \A r, s \in Run :
    /\ remote[r] \in {"sent", "active"} /\ state[r] # "abandoned"
    /\ remote[s] \in {"sent", "active"} /\ state[s] # "abandoned"
    => r = s

\* A decided turn is decided as the service decided it, or was never sent.
TruthfulOutcome ==
  \A r \in Run : state[r] \in Outcome =>
    \/ remote[r] = state[r]
    \/ remote[r] = "none" /\ state[r] = "failed"

\* A text is handed out only for the prompt and the import it was made for,
\* under a key whose import has changed included.
TextOfItsRequest ==
  \A e \in served :
    /\ state[e.run] = "succeeded"
    /\ request[e.run].prompt = e.prompt /\ request[e.run].bundle.id = e.import

\* A status request is sent with the credentials of the run's own chat.
LookupStaysInChat ==
  \A t \in Task : pc[t] \in {"poll", "status"} =>
    request[cur[t]].bundle.scope = bundle.scope

KeepsDecisions == \A r \in Run : state[r] \in Decided => state'[r] = state[r]

\* A decided turn stays decided: a lookup that is under way when the operator
\* wants to abandon the turn, the except clause and recovery leave it alone.
DecidedForGood == [][KeepsDecisions]_vars

TurnsAdvance == \A r \in Run : sentTurn'[r] >= sentTurn[r]

\* Status requests never go back to an older turn_state, not even when a new
\* process takes up the run.
TurnStateAdvances == [][TurnsAdvance]_vars

\* What SubmitOnce sees of the engine.
AbstractPhase ==
  [r \in Run |->
     CASE state[r] = "none" -> "new"
       [] state[r] \in {"preparing", "submitting", "running"} -> "open"
       [] state[r] = "uncertain" -> "unknown"
       [] OTHER -> state[r]]

Promise == INSTANCE SubmitOnce WITH
  phase <- AbstractPhase,
  sent <- {r \in Run : starts[r] > 0},
  remote <- [r \in Run |-> IF remote[r] = "sent" THEN "none" ELSE remote[r]]

\* The engine implements SubmitOnce: journal, lock, deadline and recovery add
\* up to one request per turn, alone in the chat, with a known outcome.
SubmitsOnce == Promise!Spec
=============================================================================
