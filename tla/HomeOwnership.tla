---------------------------- MODULE HomeOwnership ----------------------------
(***************************************************************************)
(* Who may generate on one home directory: the lock file (locking.py), the *)
(* journal that holds it (journal.py), the supervisors built on a journal  *)
(* one after the other, their worker and the threads that call them        *)
(* (supervisor.py), and close(), which gives the home to the next process. *)
(* A journal stands for its process; the thread that made it builds its    *)
(* supervisors, starts their workers and closes it, as client.py, app.py   *)
(* and __main__.py do.  What a generation does is left to RunSupervisor.   *)
(***************************************************************************)

CONSTANTS Journals, Supervisors, Threads,
          Worker,        \* the thread of start_worker
          Home,          \* the journal each supervisor is built on
          NoJournal, NoSupervisor, NoThread

ASSUME HomeAssumption == /\ Home \in [Supervisors -> Journals]
                         /\ Worker \in Threads
                         /\ NoJournal \notin Journals
                         /\ NoSupervisor \notin Supervisors
                         /\ NoThread \notin Threads

VARIABLES flock,      \* the journal whose descriptor has the lock
          journal,    \* new, locked, open, closed or failed
          owner,      \* journal.owner
          closer,     \* how far close() is: none, stopping, joined, checked, shut
          sup,        \* new, checked, superseding, live or failed
          superseded, stop, shut,  \* _superseded, _stop, _transport_closed
          faulted,    \* _faulted
          worker,     \* none or alive
          gen,        \* who has _generation_lock
          pc,         \* where each thread is in a call of each supervisor
          intents,    \* runs with a recorded intent and no proven outcome
          uncertain,  \* those of them marked uncertain
          receipts    \* those of them whose submit was answered by a handle

calls == <<gen, pc>>
ledger == <<intents, uncertain, receipts>>
flags == <<superseded, stop, shut, faulted>>
vars == <<flock, journal, owner, closer, sup, flags, worker, calls, ledger>>

\* Outside the generation lock; with it, before an intent; in the transaction
\* that records the intent to prepare, after it, after the call; in the one that
\* records the intent to submit, after it, after that call.
Before == {"idle", "ensured", "locked", "looking"}
InTransaction == {"preparing", "submitting"}
Committed == {"intended", "prepared", "submitting", "committed", "submitted"}
Places == Before \cup InTransaction \cup Committed
Inside == Places \ {"idle", "ensured"}
Generating(s, t) == pc[s][t] \in {"preparing"} \cup Committed

Open(s) == journal[Home[s]] = "open"

\* The lock of the connection, which a block holds to its end, is free for a
\* thread that is in no block.
ConnectionFree(j) ==
  \A s \in Supervisors, t \in Threads :
     Home[s] = j => pc[s][t] \notin InTransaction

Init == /\ flock = NoJournal
        /\ journal = [j \in Journals |-> "new"]
        /\ owner = [j \in Journals |-> NoSupervisor]
        /\ closer = [j \in Journals |-> "none"]
        /\ sup = [s \in Supervisors |-> "new"]
        /\ superseded = [s \in Supervisors |-> FALSE]
        /\ stop = [s \in Supervisors |-> FALSE]
        /\ shut = [s \in Supervisors |-> FALSE]
        /\ faulted = [s \in Supervisors |-> FALSE]
        /\ worker = [s \in Supervisors |-> "none"]
        /\ gen = [s \in Supervisors |-> NoThread]
        /\ pc = [s \in Supervisors |-> [t \in Threads |-> "idle"]]
        /\ intents = {}
        /\ uncertain = {}
        /\ receipts = {}

-----------------------------------------------------------------------------
\* The journal

\* LOCK_EX | LOCK_NB: at once or not at all.
MayLock == flock = NoJournal

LockHome(j) ==
  /\ journal[j] = "new"
  /\ \/ /\ MayLock
        /\ flock' = j
        /\ journal' = [journal EXCEPT ![j] = "locked"]
     \/ /\ ~MayLock
        /\ journal' = [journal EXCEPT ![j] = "failed"]
        /\ UNCHANGED flock
  /\ UNCHANGED <<owner, closer, sup, flags, worker, calls, ledger>>

\* Secrets, connection and schema; a failure gives the lock back.
OpenJournal(j) ==
  /\ journal[j] = "locked"
  /\ \/ /\ journal' = [journal EXCEPT ![j] = "open"]
        /\ UNCHANGED flock
     \/ /\ journal' = [journal EXCEPT ![j] = "failed"]
        /\ flock' = NoJournal
  /\ UNCHANGED <<owner, closer, sup, flags, worker, calls, ledger>>

\* The process dies: the kernel drops its lock, its objects are gone, the rows stay.
Crash(j) ==
  LET Of(f, gone) == [s \in Supervisors |-> IF Home[s] = j THEN gone ELSE f[s]]
  IN /\ journal[j] \in {"locked", "open"}
     /\ journal' = [journal EXCEPT ![j] = "failed"]
     /\ flock' = NoJournal
     /\ owner' = [owner EXCEPT ![j] = NoSupervisor]
     /\ closer' = [closer EXCEPT ![j] = "none"]
     /\ sup' = Of(sup, "failed") /\ worker' = Of(worker, "none")
     /\ superseded' = Of(superseded, FALSE) /\ faulted' = Of(faulted, FALSE)
     /\ stop' = Of(stop, FALSE) /\ shut' = Of(shut, FALSE)
     /\ gen' = Of(gen, NoThread) /\ pc' = Of(pc, [t \in Threads |-> "idle"])
     /\ UNCHANGED ledger

-----------------------------------------------------------------------------
\* Building a supervisor

Active(s) == gen[s] # NoThread \/ worker[s] = "alive"

Building(s) == sup[s] \in {"checked", "superseding"}

\* Lines 83 to 86: refused beside an active one.
CheckPrevious(s) ==
  LET previous == owner[Home[s]]
  IN /\ sup[s] = "new" /\ Open(s) /\ closer[Home[s]] = "none"
     /\ \A other \in Supervisors : Home[other] = Home[s] => ~Building(other)
     /\ sup' = [sup EXCEPT ![s] =
                  IF previous # NoSupervisor /\ Active(previous)
                  THEN "failed" ELSE "checked"]
  /\ UNCHANGED <<flock, journal, owner, closer, flags, worker, calls, ledger>>

\* Mutant of Recovered: a run that was submitted is taken for queued.
RecoveredAsQueued == uncertain

\* recover_on_startup marks every run with an intent.
Recovered == uncertain \cup intents

\* Line 87, which takes no lock.
Supersede(s) ==
  /\ sup[s] = "checked"
  /\ superseded' = [o \in Supervisors |-> superseded[o] \/ o = owner[Home[s]]]
  /\ sup' = [sup EXCEPT ![s] = "superseding"]
  /\ UNCHANGED <<flock, journal, owner, closer, stop, shut, faulted, worker, calls, ledger>>

\* The rest of the constructor; when it raises, the supervisor before stays the
\* journal's owner.
TakeOver(s) ==
  /\ sup[s] = "superseding"
  /\ \/ /\ ConnectionFree(Home[s])
        /\ uncertain' = Recovered
        /\ sup' = [sup EXCEPT ![s] = "live"]
        /\ owner' = [owner EXCEPT ![Home[s]] = s]
     \/ /\ sup' = [sup EXCEPT ![s] = "failed"]
        /\ UNCHANGED <<owner, uncertain>>
  /\ UNCHANGED <<flock, journal, closer, flags, worker, calls, intents, receipts>>

StartWorker(s) ==
  /\ sup[s] = "live" /\ closer[Home[s]] = "none"
  /\ worker[s] # "alive" /\ ~stop[s] /\ ~superseded[s]
  /\ worker' = [worker EXCEPT ![s] = "alive"]
  /\ UNCHANGED <<flock, journal, owner, closer, sup, flags, calls, ledger>>

\* The loop looks at _stop between two runs; a read of the journal that raises
\* there ends the thread as well.
WorkerEnds(s) ==
  /\ worker[s] = "alive" /\ pc[s][Worker] = "idle"
  /\ worker' = [worker EXCEPT ![s] = "none"]
  /\ UNCHANGED <<flock, journal, owner, closer, sup, flags, calls, ledger>>

-----------------------------------------------------------------------------
\* Calls

GoTo(s, t, place) == pc' = [pc EXCEPT ![s][t] = place]

\* _ensure_owner, at the head of execute_run and of reconcile_run.
Ensure(s, t) ==
  /\ sup[s] = "live" /\ pc[s][t] = "idle"
  /\ ~superseded[s] /\ ~stop[s] /\ journal[Home[s]] # "closed"
  /\ t = Worker => worker[s] = "alive"
  /\ GoTo(s, t, "ensured")
  /\ UNCHANGED <<flock, journal, owner, closer, sup, flags, worker, gen, ledger>>

\* The generation lock, or a wait that times out or is not made at all.  The
\* worker only executes; others may look a run up.
Take(s, t) ==
  /\ pc[s][t] = "ensured"
  /\ \/ /\ gen[s] = NoThread
        /\ gen' = [gen EXCEPT ![s] = t]
        /\ \/ GoTo(s, t, "locked")
           \/ t # Worker /\ GoTo(s, t, "looking")
     \/ GoTo(s, t, "idle") /\ UNCHANGED gen
  /\ UNCHANGED <<flock, journal, owner, closer, sup, flags, worker, ledger>>

\* Mutants of Latch: shutdown, uncertain work, a new owner or a fault does not count.
LatchIgnoresStop(s) == faulted[s] \/ superseded[s] \/ ~Open(s) \/ uncertain # {}
LatchIgnoresUncertain(s) == faulted[s] \/ superseded[s] \/ stop[s] \/ ~Open(s)
LatchIgnoresOwner(s) == faulted[s] \/ stop[s] \/ ~Open(s) \/ uncertain # {}
LatchIgnoresFault(s) == superseded[s] \/ stop[s] \/ ~Open(s) \/ uncertain # {}

\* admission_latch
Latch(s) == faulted[s] \/ superseded[s] \/ stop[s] \/ ~Open(s) \/ uncertain # {}

\* The block of an intent begins with _admit.  (The one before the blocks,
\* right under the generation lock, refuses nothing that these let through.)
Admit(s, t) ==
  /\ pc[s][t] \in {"locked", "prepared"}
  /\ ConnectionFree(Home[s]) /\ ~Latch(s)
  /\ GoTo(s, t, IF pc[s][t] = "locked" THEN "preparing" ELSE "submitting")
  /\ UNCHANGED <<flock, journal, owner, closer, sup, flags, worker, gen, ledger>>

\* The block commits: the intent is durable before the request goes out.
Commit(s, t) ==
  /\ pc[s][t] \in InTransaction
  /\ intents' = intents \cup {<<s, t>>}
  /\ GoTo(s, t, IF pc[s][t] = "preparing" THEN "intended" ELSE "committed")
  /\ UNCHANGED <<flock, journal, owner, closer, sup, flags, worker, gen, uncertain, receipts>>

\* The request goes out: prepare_context or submit, which looks at nothing any more.
Call(s, t) ==
  /\ pc[s][t] \in {"intended", "committed"}
  /\ GoTo(s, t, IF pc[s][t] = "intended" THEN "prepared" ELSE "submitted")
  /\ UNCHANGED <<flock, journal, owner, closer, sup, flags, worker, gen, ledger>>

\* The handle is saved in a block of its own.
SaveReceipt(s, t) ==
  /\ pc[s][t] = "submitted" /\ Open(s) /\ ConnectionFree(Home[s])
  /\ <<s, t>> \in intents \ receipts
  /\ receipts' = receipts \cup {<<s, t>>}
  /\ UNCHANGED <<flock, journal, owner, closer, sup, flags, worker, calls, intents, uncertain>>

\* Mutant of Recoverable: a run without a receipt is looked up as well.
RecoverableAnyway == uncertain

\* reconcile_run looks up only what has a receipt.
Recoverable == uncertain \cap receipts

\* The runs whose outcome a call may prove as it ends.
Decidable(s, t) == CASE pc[s][t] = "looking" -> Recoverable
                     [] pc[s][t] = "submitted" -> {<<s, t>>} \cap receipts
                     [] OTHER -> {}

\* execute_run faults the supervisor when its handler or the release of the
\* context fails too; a lookup does not.
MayFault(s, t) == \/ UNCHANGED faulted
                  \/ pc[s][t] # "looking" /\ faulted' = [faulted EXCEPT ![s] = TRUE]

\* The call ends and gives the lock back: without an intent; with one the handler
\* could not mark, on an open journal or a closed one; in doubt; or with an
\* outcome.  A run that a lookup has decided meanwhile stays as it is; a lookup
\* may decide any uncertain run that has a receipt.
Leave(s, t) ==
  /\ pc[s][t] \in Inside
  /\ \/ ConnectionFree(Home[s]) \/ pc[s][t] \in InTransaction
  /\ GoTo(s, t, "idle")
  /\ gen' = [gen EXCEPT ![s] = NoThread]
  /\ \/ /\ pc[s][t] \notin Committed
        /\ UNCHANGED ledger /\ MayFault(s, t)
     \/ /\ pc[s][t] \in Committed
        /\ UNCHANGED ledger /\ faulted' = [faulted EXCEPT ![s] = TRUE]
     \/ /\ pc[s][t] \in Committed /\ Open(s)
        /\ uncertain' = uncertain \cup ({<<s, t>>} \cap intents)
        /\ UNCHANGED <<intents, receipts>> /\ MayFault(s, t)
     \/ /\ Open(s)
        /\ \E r \in Decidable(s, t) :
              /\ intents' = intents \ {r}
              /\ uncertain' = uncertain \ {r}
              /\ receipts' = receipts \ {r}
        /\ MayFault(s, t)
  /\ UNCHANGED <<flock, journal, owner, closer, sup, superseded, stop, shut, worker>>

-----------------------------------------------------------------------------
\* close(): of the supervisor, then of the journal

\* The order of the two: first _stop is set, then the lock is looked at.
BeginClose(j) ==
  /\ journal[j] = "open" /\ closer[j] = "none"
  /\ \A s \in Supervisors : Home[s] = j => ~Building(s)
  /\ \/ /\ owner[j] = NoSupervisor
        /\ closer' = [closer EXCEPT ![j] = "shut"]
        /\ UNCHANGED stop
     \/ /\ owner[j] # NoSupervisor
        /\ closer' = [closer EXCEPT ![j] = "stopping"]
        /\ stop' = [stop EXCEPT ![owner[j]] = TRUE]
  /\ UNCHANGED <<flock, journal, owner, sup, superseded, shut, faulted, worker, calls, ledger>>

\* The worker is joined for cleanup_seconds; close() raises if it lives on.
Join(j) ==
  /\ closer[j] = "stopping"
  /\ \/ /\ worker[owner[j]] # "alive"
        /\ closer' = [closer EXCEPT ![j] = "joined"]
        /\ UNCHANGED faulted
     \/ /\ worker[owner[j]] = "alive"
        /\ closer' = [closer EXCEPT ![j] = "none"]
        /\ faulted' = [faulted EXCEPT ![owner[j]] = TRUE]
  /\ UNCHANGED <<flock, journal, owner, sup, superseded, stop, shut, worker, calls, ledger>>

Idle(s) == gen[s] = NoThread

CheckIdle(j) ==
  /\ closer[j] = "joined"
  /\ closer' = [closer EXCEPT ![j] = IF Idle(owner[j]) THEN "checked" ELSE "none"]
  /\ UNCHANGED <<flock, journal, owner, sup, flags, worker, calls, ledger>>

\* The transport is closed once; it may raise.
CloseTransport(j) ==
  /\ closer[j] = "checked"
  /\ \/ /\ shut' = [shut EXCEPT ![owner[j]] = TRUE]
        /\ closer' = [closer EXCEPT ![j] = "shut"]
     \/ /\ ~shut[owner[j]]
        /\ closer' = [closer EXCEPT ![j] = "none"]
        /\ UNCHANGED shut
  /\ UNCHANGED <<flock, journal, owner, sup, superseded, stop, faulted, worker, calls, ledger>>

\* The connection, then the lock; or it was the supervisor's close() alone.
Release(j) ==
  /\ closer[j] = "shut" /\ ConnectionFree(j)
  /\ closer' = [closer EXCEPT ![j] = "none"]
  /\ \/ /\ journal' = [journal EXCEPT ![j] = "closed"]
        /\ flock' = NoJournal
     \/ /\ owner[j] # NoSupervisor
        /\ UNCHANGED <<journal, flock>>
  /\ UNCHANGED <<owner, sup, flags, worker, calls, ledger>>

Next == \/ \E j \in Journals :
             \/ LockHome(j) \/ OpenJournal(j) \/ Crash(j)
             \/ BeginClose(j) \/ Join(j) \/ CheckIdle(j)
             \/ CloseTransport(j) \/ Release(j)
        \/ \E s \in Supervisors :
             \/ CheckPrevious(s) \/ Supersede(s) \/ TakeOver(s)
             \/ StartWorker(s) \/ WorkerEnds(s)
             \/ \E t \in Threads : \/ Ensure(s, t) \/ Take(s, t) \/ Admit(s, t)
                                   \/ Commit(s, t) \/ Call(s, t)
                                   \/ SaveReceipt(s, t) \/ Leave(s, t)

Spec == Init /\ [][Next]_vars

-----------------------------------------------------------------------------
\* Properties

\* Every variable has its type.
TypeOK ==
  /\ flock \in Journals \cup {NoJournal}
  /\ journal \in [Journals -> {"new", "locked", "open", "closed", "failed"}]
  /\ owner \in [Journals -> Supervisors \cup {NoSupervisor}]
  /\ closer \in [Journals -> {"none", "stopping", "joined", "checked", "shut"}]
  /\ sup \in [Supervisors -> {"new", "checked", "superseding", "live", "failed"}]
  /\ superseded \in [Supervisors -> BOOLEAN]
  /\ stop \in [Supervisors -> BOOLEAN]
  /\ shut \in [Supervisors -> BOOLEAN]
  /\ faulted \in [Supervisors -> BOOLEAN]
  /\ worker \in [Supervisors -> {"none", "alive"}]
  /\ gen \in [Supervisors -> Threads \cup {NoThread}]
  /\ pc \in [Supervisors -> [Threads -> Places]]
  /\ intents \subseteq Supervisors \X Threads
  /\ uncertain \subseteq intents /\ receipts \subseteq intents

\* The lock file is given up by close() only when the owner of the journal has
\* no worker and no generation, neither running nor able to begin: whoever works
\* or generates for the owner of a journal is in the process that holds the home.
OwnerKeepsTheLock ==
  \A s \in Supervisors :
     /\ owner[Home[s]] = s
     /\ worker[s] = "alive" \/ \E t \in Threads : Generating(s, t)
     => flock = Home[s]

\* A transport is never closed under a generation.
ClosedTransportIsIdle ==
  \A s \in Supervisors, t \in Threads : shut[s] => ~Generating(s, t)

\* Across crashes, restarts and shutdowns at most one run of the home has an
\* intent whose outcome is not proven: no process generates on top of what
\* another left behind.
OneUnresolvedIntent == \A r1, r2 \in intents : r1 = r2

\* What makes OwnerKeepsTheLock inductive: the lock and the journals agree,
\* one journal is built on or closed at a time, and from the moment close() has
\* seen the generation lock free, after it set _stop, the owner is quiet.
Quiet(s) == stop[s] /\ worker[s] # "alive" /\ \A t \in Threads : ~Generating(s, t)

HomeLockAgrees ==
  \A j \in Journals : journal[j] \in {"locked", "open"} <=> flock = j

CallsAreLive ==
  \A s \in Supervisors, t \in Threads :
     /\ pc[s][t] # "idle" => sup[s] = "live"
     /\ pc[s][t] \in Inside => gen[s] = t
     /\ pc[s][t] \in InTransaction => Open(s)
     /\ worker[s] = "alive" => sup[s] = "live"

SupervisorsOfJournals ==
  /\ \A s \in Supervisors :
        /\ sup[s] = "live" => journal[Home[s]] \in {"open", "closed"}
        /\ Building(s) => Open(s) /\ closer[Home[s]] = "none"
        /\ sup[s] = "superseding" /\ owner[Home[s]] # NoSupervisor
              => superseded[owner[Home[s]]]
        /\ \A o \in Supervisors :
              Building(s) /\ Building(o) /\ Home[s] = Home[o] => s = o
  /\ \A j \in Journals : owner[j] # NoSupervisor => Home[owner[j]] = j

ClosesInOrder ==
  \A j \in Journals :
     /\ closer[j] # "none" => journal[j] = "open"
     /\ closer[j] \in {"stopping", "joined", "checked"} => owner[j] # NoSupervisor
     /\ closer[j] # "none" /\ owner[j] # NoSupervisor => stop[owner[j]]
     /\ closer[j] = "joined" => worker[owner[j]] # "alive"

QuietOnceChecked ==
  /\ \A j \in Journals :
        (closer[j] \in {"checked", "shut"} \/ journal[j] = "closed")
        /\ owner[j] # NoSupervisor => Quiet(owner[j])
  /\ \A s \in Supervisors : shut[s] => Quiet(s)

IInv == /\ TypeOK /\ HomeLockAgrees /\ CallsAreLive
        /\ SupervisorsOfJournals /\ ClosesInOrder /\ QuietOnceChecked

\* What makes OneUnresolvedIntent inductive: a supervisor that may still admit
\* owns its journal, whoever is in the block of an intent owns it too, and what
\* a call is about to send it alone has the intent of.
OwnerAdmits ==
  \A s \in Supervisors : sup[s] = "live" /\ Open(s) =>
     /\ ~superseded[s] => owner[Home[s]] = s
     /\ \A t \in Threads : pc[s][t] \in InTransaction => owner[Home[s]] = s

IntentsStand ==
  \A s \in Supervisors, t \in Threads :
     pc[s][t] \in Committed \ {"submitted"} => <<s, t>> \in intents \ receipts

\* The owner of an open journal knows every intent of the home: it is marked
\* uncertain, or a call of the owner is still at it, or the owner has faulted and
\* admits nothing.  No intent is recorded beside another run's.
IntentsAreKnown ==
  \A s \in Supervisors : sup[s] = "live" /\ Open(s) /\ owner[Home[s]] = s =>
     /\ \A r \in intents \ uncertain :
           faulted[s] \/ (r[1] = s /\ pc[s][r[2]] \in Committed)
     /\ \A t \in Threads : pc[s][t] = "preparing" => intents = {}
     /\ \A t \in Threads : pc[s][t] = "submitting" => intents \subseteq {<<s, t>>}

\* Intents are recorded only by the owner of the journal that holds the home: a
\* call of a supervisor that was superseded after it had passed the last check of
\* _ensure_owner, or had taken the generation lock, is too late for a new one.
OnlyOwnerRecords ==
  [][\A s \in Supervisors, t \in Threads :
        pc[s][t] \in InTransaction /\ pc'[s][t] \in Committed =>
           owner[Home[s]] = s /\ flock = Home[s]]_vars

\* A request whose intent is recorded goes out even after its supervisor was
\* superseded and the home released; but until it does, its run stays the only
\* unresolved one of the home, whoever owns it: nobody decides it and nobody
\* begins another.
CallsStandAlone ==
  [][\A s \in Supervisors, t \in Threads :
        pc[s][t] \in {"intended", "committed"} /\ pc'[s][t] \in {"prepared", "submitted"}
           => intents = {<<s, t>>}]_vars
=============================================================================
