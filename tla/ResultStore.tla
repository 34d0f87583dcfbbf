----------------------------- MODULE ResultStore -----------------------------
(***************************************************************************)
(* How the outcome of one run becomes durable and how it is read back.     *)
(* Three files (terminal evidence, result, manifest) are replaced one by   *)
(* one (journal.py, atomic_json), the last two inside the transaction that *)
(* makes the run succeeded (supervisor.py, _observe_and_finalize).  The    *)
(* run has been submitted; lookups come after an uncertain end, and each   *)
(* may observe a different text.  The process or the machine may die, and  *)
(* any step may fail, between any two steps.                               *)
(***************************************************************************)

CONSTANTS Texts,    \* what an observation may yield, one per digest
          Threads,  \* threads that execute the run or look it up
          Clients   \* callers that wait for it and read it

ASSUME TextAssumption ==
  {"refused", "none", "torn", "unavailable"} \cap Texts = {}
ASSUME ThreadAssumption == "nobody" \notin Threads

VARIABLES state,      \* the row in runs: running, uncertain, failed or succeeded
          index,      \* digest in result_index
          referred,   \* terminal_evidence_ref is set
          busy,       \* the context is still leased to the run
          seen,       \* what each file name gives to a reader
          disk,       \* what it may give after the power fails
          holder,     \* who has _generation_lock
          waiting,    \* lookups that found the run uncertain and want the lock
          stage,      \* how far the holder is
          executing,  \* the holder executes the run, else it looks it up
          verdict,    \* what it has observed
          temp,       \* what its temporary file may hold after the power fails
          renamed,    \* that file has its final name, not yet for certain
          unreleased, \* releasing the context has failed
          damaged,    \* somebody else has changed a file
          reader,     \* where each client is: asking, result or manifest
          row,        \* the digest it has read
          text,       \* the text it has read
          answers     \* everything any client was ever told for good

run == <<state, index, referred, busy>>
files == <<seen, disk>>
writing == <<temp, renamed>>
publisher == <<holder, waiting, stage, executing, verdict>>
history == <<unreleased, damaged>>
clients == <<reader, row, text, answers>>
vars == <<run, files, publisher, writing, history, clients>>

Verdicts == Texts \cup {"refused"}  \* refused: a proven failure or cancellation
Contents == Verdicts \cup {"none", "torn"}
Files == {"evidence", "result", "manifest"}
Final == {"failed", "succeeded"}

\* The connection is locked while a transaction writes its files.
InTransaction == stage \in {"result", "manifest", "index"}

Init == /\ state = "running"
        /\ index = "none"
        /\ referred = FALSE
        /\ busy = TRUE
        /\ seen = [f \in Files |-> "none"]
        /\ disk = [f \in Files |-> {"none"}]
        /\ holder \in Threads
        /\ waiting = {}
        /\ stage = "observe"
        /\ executing = TRUE
        /\ verdict = "refused"
        /\ temp = {}
        /\ renamed = FALSE
        /\ unreleased = FALSE
        /\ damaged = FALSE
        /\ reader = [c \in Clients |-> "asking"]
        /\ row = [c \in Clients |-> "none"]
        /\ text = [c \in Clients |-> "none"]
        /\ answers = {}

-----------------------------------------------------------------------------
\* Who may observe

\* A lookup reads the state before it asks for the lock, and not again.
Reconcile(t) ==
  /\ state = "uncertain"
  /\ ~InTransaction
  /\ t # holder
  /\ waiting' = waiting \cup {t}
  /\ UNCHANGED <<run, files, holder, stage, executing, verdict, writing, history, clients>>

\* A lookup asks for the lock once.
Others(t) == waiting \ {t}

\* The lock is free or the lookup is refused.
Acquire(t) ==
  /\ t \in waiting
  /\ waiting' = Others(t)
  /\ \/ /\ holder = "nobody"
        /\ holder' = t
        /\ stage' = "observe"
        /\ executing' = FALSE
     \/ /\ holder # "nobody"
        /\ UNCHANGED <<holder, stage, executing>>
  /\ UNCHANGED <<run, files, verdict, writing, history, clients>>

\* Another call of execute_run cannot read the frozen input and marks the run,
\* without the generation lock.
Misread ==
  /\ state = "running"
  /\ ~InTransaction
  /\ state' = "uncertain"
  /\ UNCHANGED <<index, referred, busy, files, publisher, writing, history, clients>>

\* Mutant of Owned: the owner of the context is not compared.
OwnedByAnyone == TRUE

\* before_event asks for every event whether the context is leased to this run.
Owned == busy

Observe(v) ==
  /\ stage = "observe"
  /\ Owned
  /\ verdict' = v
  /\ stage' = "evidence"
  /\ UNCHANGED <<run, files, holder, waiting, executing, writing, history, clients>>

-----------------------------------------------------------------------------
\* atomic_json, for the file of the present stage

\* Mutant of Flushed: no fsync of the file.
NotFlushed(v) == {v, "torn"}

\* fsync of the temporary file: its content is certain before it gets a name.
Flushed(v) == {v}

WriteTemporary ==
  /\ stage \in Files
  /\ temp = {}
  /\ temp' = Flushed(verdict)
  /\ UNCHANGED <<run, files, publisher, renamed, history, clients>>

Rename ==
  /\ temp # {}
  /\ ~renamed
  /\ renamed' = TRUE
  /\ seen' = [seen EXCEPT ![stage] = verdict]
  /\ disk' = [disk EXCEPT ![stage] = @ \cup temp]
  /\ UNCHANGED <<run, publisher, temp, history, clients>>

\* fsync of the directory: the old content is gone for good.
Settled(f) == temp

\* Mutant of After: a success is recorded before its manifest is written.
IndexFirst(f) ==
  CASE f = "evidence" /\ verdict = "refused" -> "outcome"
    [] f = "evidence" /\ verdict # "refused" -> "publish"
    [] f \in {"result", "manifest"} -> "index"

After(f) ==
  CASE f = "evidence" /\ verdict = "refused" -> "outcome"
    [] f = "evidence" /\ verdict # "refused" -> "publish"
    [] f = "result" -> "manifest"
    [] f = "manifest" -> "index"

SyncDirectory ==
  /\ renamed
  /\ disk' = [disk EXCEPT ![stage] = Settled(stage)]
  /\ temp' = {}
  /\ renamed' = FALSE
  /\ stage' = After(stage)
  /\ UNCHANGED <<run, seen, holder, waiting, executing, verdict, history, clients>>

-----------------------------------------------------------------------------
\* What the observation makes of the run

Undecided == state \notin Final

\* _set_outcome for a proven failure or cancellation, then OutcomeError.
SetOutcome ==
  /\ stage = "outcome"
  /\ stage' = "raised"
  /\ state' = IF Undecided THEN "failed" ELSE state
  /\ referred' = (Undecided \/ referred)
  /\ UNCHANGED <<index, busy, files, holder, waiting, executing, verdict, writing,
                 history, clients>>

\* Mutant of Publishable: only the lease is looked at again.
StillLeased == busy

Publishable == state \in {"running", "uncertain"} /\ busy

BeginPublication ==
  /\ stage = "publish"
  /\ Publishable
  /\ stage' = "result"
  /\ UNCHANGED <<run, files, holder, waiting, executing, verdict, writing, history, clients>>

CommitPublication ==
  /\ stage = "index"
  /\ index' = verdict
  /\ state' = "succeeded"
  /\ referred' = TRUE
  /\ stage' = "finally"
  /\ UNCHANGED <<busy, files, holder, waiting, executing, verdict, writing, history, clients>>

\* A disk, journal or protocol error, a budget or a condition above that does
\* not hold.  The transaction is rolled back, the files stay as they are.
Fail ==
  /\ stage \in Files \cup {"observe", "publish", "index", "outcome"}
  /\ stage' = "raised"
  /\ temp' = {}
  /\ renamed' = FALSE
  /\ UNCHANGED <<run, files, holder, waiting, executing, verdict, history, clients>>

\* The handler of execute_run, if the journal lets it; reconcile_run has none.
Handle ==
  /\ stage = "raised"
  /\ stage' = "finally"
  /\ \/ state' = IF executing /\ Undecided THEN "uncertain" ELSE state
     \/ UNCHANGED state
  /\ UNCHANGED <<index, referred, busy, files, holder, waiting, executing, verdict,
                 writing, history, clients>>

\* The context is released, if the journal lets it, then the lock.
Release ==
  /\ stage = "finally"
  /\ stage' = "free"
  /\ holder' = "nobody"
  /\ \/ busy' = (busy /\ state \notin Final) /\ UNCHANGED unreleased
     \/ state \in Final /\ unreleased' = TRUE /\ UNCHANGED busy
  /\ UNCHANGED <<state, index, referred, files, waiting, executing, verdict, writing,
                 damaged, clients>>

-----------------------------------------------------------------------------
\* Reading

\* RunSupervisor.wait, the result handler and the daemon's client: keep asking
\* while the run is on its way, report a final state, read a success.  That an
\* uncertain run is reported as such is not an answer for good.
Ask(c) ==
  /\ reader[c] = "asking"
  /\ ~InTransaction
  /\ \/ /\ state = "failed"
        /\ answers' = answers \cup {"refused"}
        /\ UNCHANGED <<reader, row>>
     \/ /\ state = "succeeded"
        /\ reader' = [reader EXCEPT ![c] = "result"]
        /\ row' = [row EXCEPT ![c] = index]
        /\ UNCHANGED answers
  /\ UNCHANGED <<run, files, publisher, writing, history, text>>

\* get_result reads the files after it has given up the connection.
ReadResult(c) ==
  /\ reader[c] = "result"
  /\ reader' = [reader EXCEPT ![c] = "manifest"]
  /\ text' = [text EXCEPT ![c] = seen["result"]]
  /\ UNCHANGED <<run, files, publisher, writing, history, row, answers>>

\* Both files exist, parse, and carry the digest of the row.
Intact(c) == row[c] \in Texts /\ text[c] = row[c] /\ seen["manifest"] = row[c]

ReadManifest(c) ==
  /\ reader[c] = "manifest"
  /\ reader' = [reader EXCEPT ![c] = "asking"]
  /\ answers' = answers \cup {IF Intact(c) THEN text[c] ELSE "unavailable"}
  /\ row' = [row EXCEPT ![c] = "none"]
  /\ text' = [text EXCEPT ![c] = "none"]
  /\ UNCHANGED <<run, files, publisher, writing, history>>

-----------------------------------------------------------------------------
\* The environment

\* A file of a finished run is removed or replaced by hand.
Damage(f) ==
  /\ f # "evidence"
  /\ state = "succeeded"
  /\ \E v \in Contents \ {seen[f]} :
        /\ seen' = [seen EXCEPT ![f] = v]
        /\ disk' = [disk EXCEPT ![f] = {v}]
  /\ damaged' = TRUE
  /\ UNCHANGED <<run, publisher, writing, unreleased, clients>>

\* recover_on_startup of the next process.
Restart ==
  /\ state' = IF state \in Final THEN state ELSE "uncertain"
  /\ holder' = "nobody"
  /\ waiting' = {}
  /\ stage' = "free"
  /\ executing' = FALSE
  /\ verdict' = "refused"
  /\ temp' = {}
  /\ renamed' = FALSE
  /\ reader' = [c \in Clients |-> "asking"]
  /\ row' = [c \in Clients |-> "none"]
  /\ text' = [c \in Clients |-> "none"]
  /\ UNCHANGED <<index, referred, busy, history, answers>>

\* The process dies: the files stay as a reader saw them.
Kill == Restart /\ UNCHANGED files

\* The machine dies: each name gives something it may give.
PowerCut ==
  /\ Restart
  /\ seen' \in [Files -> Contents]
  /\ \A f \in Files : seen'[f] \in disk[f]
  /\ disk' = [f \in Files |-> {seen'[f]}]

Next == \/ \E t \in Threads : Reconcile(t) \/ Acquire(t)
        \/ Misread
        \/ \E v \in Verdicts : Observe(v)
        \/ WriteTemporary \/ Rename \/ SyncDirectory
        \/ SetOutcome \/ BeginPublication \/ CommitPublication
        \/ Fail \/ Handle \/ Release
        \/ \E c \in Clients : Ask(c) \/ ReadResult(c) \/ ReadManifest(c)
        \/ \E f \in Files : Damage(f)
        \/ Kill \/ PowerCut

Spec == Init /\ [][Next]_vars

-----------------------------------------------------------------------------
\* Properties

\* The variables keep their types; a lookup that has the lock waits no more.
TypeOK ==
  /\ state \in Final \cup {"running", "uncertain"}
  /\ index \in Texts \cup {"none"}
  /\ referred \in BOOLEAN /\ busy \in BOOLEAN
  /\ seen \in [Files -> Contents]
  /\ disk \in [Files -> SUBSET Contents]
  /\ holder \in Threads \cup {"nobody"}
  /\ waiting \subseteq Threads \ {holder}
  /\ stage \in Files \cup {"free", "observe", "publish", "index", "outcome", "raised", "finally"}
  /\ executing \in BOOLEAN
  /\ verdict \in Verdicts
  /\ temp \subseteq Contents
  /\ renamed \in BOOLEAN /\ unreleased \in BOOLEAN /\ damaged \in BOOLEAN
  /\ reader \in [Clients -> {"asking", "result", "manifest"}]
  /\ row \in [Clients -> Contents]
  /\ text \in [Clients -> Contents]
  /\ answers \subseteq Contents \cup {"unavailable"}

\* Whatever a client is told for good, no client is ever told otherwise: not
\* another text, not a text after a refusal (or before one), although each
\* lookup may see another text, two of them may pass the check of the state,
\* a release may fail, and files may be replaced by hand (get_result, wait).
OneFinalAnswer ==
  \A a, b \in answers \ {"unavailable"} : a = b

\* A success is on the disk: after any crash both files of a succeeded run are
\* those of its row, unless somebody else has changed them (06-journal-evidence-
\* and-storage.md:45-49).
SucceededIsDurable ==
  state = "succeeded" /\ ~damaged
     => index \in Texts /\ disk["result"] = {index} /\ disk["manifest"] = {index}

\* A result is reported unavailable only if its files were changed by hand,
\* however the reads of a client fall between the steps of others.
UnavailableMeansDamage == "unavailable" \in answers => damaged

\* The evidence a final run refers to is on the disk and of its outcome, unless
\* the release of the context has failed, which lets a second lookup write its
\* own (supervisor.py, reconcile_run and before_event).
EvidenceOfOutcome ==
  referred /\ ~unreleased
     => disk["evidence"] = {IF state = "succeeded" THEN index ELSE "refused"}

-----------------------------------------------------------------------------
\* The inductive invariant

Outcome == IF state = "succeeded" THEN index ELSE "refused"

\* The lock and the stage agree; each file is certain before the next stage;
\* the transaction is open on a run without an outcome.
WritesInOrder ==
  /\ (stage = "free") <=> (holder = "nobody")
  /\ temp \subseteq {verdict}
  /\ temp # {} => stage \in Files
  /\ renamed => temp # {} /\ seen[stage] = verdict
  /\ \A f \in Files : seen[f] \in disk[f]
  /\ stage = "outcome" => verdict = "refused"
  /\ stage \in {"publish", "result", "manifest", "index"} => verdict \in Texts
  /\ stage \in {"outcome", "publish", "result", "manifest", "index"}
       => disk["evidence"] = {verdict}
  /\ stage \in {"manifest", "index"} => disk["result"] = {verdict}
  /\ stage = "index" => disk["manifest"] = {verdict}
  /\ InTransaction => Publishable

\* A run has a digest exactly if it succeeded, evidence exactly if it is over.
RowsAgree ==
  /\ (state = "succeeded") <=> (index \in Texts)
  /\ referred <=> state \in Final

\* Clients have been told, and are about to be told, only the outcome.
ToldOutcome ==
  /\ state \notin Final => answers = {}
  /\ answers \subseteq {Outcome, "unavailable"}
  /\ \A c \in Clients :
       /\ reader[c] # "asking" => state = "succeeded" /\ row[c] = index
       /\ reader[c] = "manifest" /\ ~damaged => text[c] = index

\* Once a run is over nobody observes it again, unless a release has failed.
NoLateObserver ==
  state \in Final /\ ~unreleased
    => \/ stage \in {"raised", "finally"}
       \/ ~busy /\ stage \in {"observe", "free"}
       \/ waiting = {} /\ stage = "free"

\* The properties with what keeps them: every step preserves the whole.
IInv == /\ TypeOK
        /\ WritesInOrder
        /\ RowsAgree
        /\ ToldOutcome
        /\ NoLateObserver
        /\ SucceededIsDurable
        /\ UnavailableMeansDamage
        /\ EvidenceOfOutcome
=============================================================================
