----------------------------- MODULE HomeSecrets -----------------------------
(***************************************************************************)
(* The secret of a home directory (config.py, load_local_secrets) and what *)
(* hangs on it: the digest under which an idempotency key is remembered    *)
(* and the fingerprint without which a frozen input cannot be read         *)
(* (journal.py, compute_fingerprint; supervisor.py).  The rows outlive the *)
(* process, and may outlive the secret.  One process at a time has the     *)
(* home (HomeOwnership) and one run is executed at a time (RunSupervisor). *)
(***************************************************************************)
CONSTANTS Keys,     \* idempotency keys of callers
          Secrets,  \* what token_urlsafe may draw; as many as a behaviour draws
          Runs      \* as many as a behaviour accepts

ASSUME SecretAssumption == {"none", "empty"} \cap Secrets = {}

VARIABLES file,     \* credentials/fingerprint.key: none, empty or a secret
          given,    \* the secret the settings bring along, or none
          drawn,    \* secrets drawn or given so far
          phase,    \* of the process: down, locked, creating, up or refused
          secret,   \* settings.secret_salt
          row,      \* runs: the state of each
          key,      \* the key each was accepted with
          under,    \* the secret of its digests
          told,     \* runs returned to the callers of each key
          sent,     \* runs whose generation was requested
          proven,   \* those of them with a proven outcome
          lost      \* the secret was lost or replaced

rows == <<row, key, under, told, sent, proven>>
secretsVars == <<file, given, drawn, phase, secret, rows, lost>>

Unresolved == {"running", "uncertain"}
Final == {"succeeded", "failed"}

SecretsInit == /\ file = "none"
               /\ given = "none"
               /\ drawn = {}
               /\ phase = "down"
               /\ secret = "none"
               /\ row = [r \in Runs |-> "absent"]
               /\ key = [r \in Runs |-> "none"]
               /\ under = [r \in Runs |-> "none"]
               /\ told = [k \in Keys |-> {}]
               /\ sent = {}
               /\ proven = {}
               /\ lost = FALSE

-----------------------------------------------------------------------------
\* Opening the home

Lock ==
  /\ phase \in {"down", "refused"}
  /\ phase' = "locked"
  /\ UNCHANGED <<file, given, drawn, secret, rows, lost>>

\* A secret in the settings goes before the file, which is not looked at then.
Source == IF given # "none" THEN given ELSE file

Load ==
  /\ phase = "locked"
  /\ Source \in Secrets
  /\ secret' = Source
  /\ phase' = "up"
  /\ UNCHANGED <<file, given, drawn, rows, lost>>

\* "Empty local secret file": the journal gives the home back and raises.
Refuse ==
  /\ phase = "locked"
  /\ Source = "empty"
  /\ phase' = "refused"
  /\ UNCHANGED <<file, given, drawn, secret, rows, lost>>

\* Mutant of Kept: the new secret stays in memory.
KeptInMemory(s) == "none"

\* What is written and flushed to the new file.
Kept(s) == s

\* O_CREAT | O_EXCL gives an empty file.
CreateFile ==
  /\ phase = "locked"
  /\ Source = "none"
  /\ \E s \in Secrets \ drawn :
        /\ secret' = s
        /\ drawn' = drawn \cup {s}
  /\ file' = "empty"
  /\ phase' = "creating"
  /\ UNCHANGED <<given, rows, lost>>

WriteFile ==
  /\ phase = "creating"
  /\ file' = Kept(secret)
  /\ phase' = "up"
  /\ UNCHANGED <<given, drawn, secret, rows, lost>>

-----------------------------------------------------------------------------
\* Runs

Latched == \E r \in Runs : row[r] = "uncertain"

\* The runs whose row of idempotency_records has the digest of this key.
Remembered(k) ==
  {r \in Runs : row[r] # "absent" /\ key[r] = k /\ under[r] = secret}

\* Mutant of Readable: the fingerprints are not compared.
ReadAnyway(r) == TRUE

\* The frozen input has the fingerprint of its row.
Readable(r) == under[r] = secret

\* A known key returns its run, if the input of that run can be read.
Replay(k, r) ==
  /\ phase = "up"
  /\ r \in Remembered(k)
  /\ Readable(r)
  /\ told' = [told EXCEPT ![k] = @ \cup {r}]
  /\ UNCHANGED <<file, given, drawn, phase, secret, row, key, under, sent, proven, lost>>

Enqueue(k, r) ==
  /\ phase = "up"
  /\ ~Latched
  /\ Remembered(k) = {}
  /\ row[r] = "absent"
  /\ row' = [row EXCEPT ![r] = "queued"]
  /\ key' = [key EXCEPT ![r] = k]
  /\ under' = [under EXCEPT ![r] = secret]
  /\ told' = [told EXCEPT ![k] = @ \cup {r}]
  /\ UNCHANGED <<file, given, drawn, phase, secret, sent, proven, lost>>

\* Preparing and sending, under the generation lock.
Execute(r) ==
  /\ phase = "up"
  /\ ~Latched
  /\ \A q \in Runs : row[q] # "running"
  /\ row[r] = "queued"
  /\ Readable(r)
  /\ row' = [row EXCEPT ![r] = "running"]
  /\ sent' = sent \cup {r}
  /\ UNCHANGED <<file, given, drawn, phase, secret, key, under, told, proven, lost>>

\* Mutant of Unreadable: a run that cannot be read has failed.
UnreadableFails(r) == "failed"

Unreadable(r) == IF r \in sent THEN "uncertain" ELSE "failed"

\* execute_run of a run whose input cannot be read, by the worker or a caller.
ExecuteUnreadable(r) ==
  /\ phase = "up"
  /\ row[r] \in {"queued", "uncertain"}
  /\ ~Readable(r)
  /\ row' = [row EXCEPT ![r] = Unreadable(r)]
  /\ UNCHANGED <<file, given, drawn, phase, secret, key, under, told, sent, proven, lost>>

\* The execution or a lookup proves an outcome, or it does not.
Conclude(r) ==
  /\ phase = "up"
  /\ row[r] \in Unresolved
  /\ row[r] = "uncertain" => Readable(r)
  /\ \/ /\ \E outcome \in Final : row' = [row EXCEPT ![r] = outcome]
        /\ proven' = proven \cup {r}
     \/ /\ row' = [row EXCEPT ![r] = "uncertain"]
        /\ UNCHANGED proven
  /\ UNCHANGED <<file, given, drawn, phase, secret, key, under, told, sent, lost>>

-----------------------------------------------------------------------------
\* The environment

\* The process ends, in order or not; the next one recovers before it runs.
Exit ==
  /\ phase # "down"
  /\ phase' = "down"
  /\ secret' = "none"
  /\ row' = [r \in Runs |-> IF row[r] = "running" THEN "uncertain" ELSE row[r]]
  /\ UNCHANGED <<file, given, drawn, key, under, told, sent, proven, lost>>

\* The file is removed, or its directory entry, never synchronised, is gone
\* after a power failure.
Lose ==
  /\ phase = "down"
  /\ file # "none"
  /\ file' = "none"
  /\ UNCHANGED <<given, drawn, phase, secret, rows>>
  /\ lost' = (lost \/ (Source \in Secrets /\ Source' # Source))

\* The next process is given another secret, or none, by its settings.
Reconfigure ==
  /\ phase = "down"
  /\ given' \in Secrets \cup {"none"}
  /\ drawn' = drawn \cup (Secrets \cap {given'})
  /\ UNCHANGED <<file, phase, secret, rows>>
  /\ lost' = (lost \/ (Source \in Secrets /\ Source' # Source))

SecretsNext ==
  \/ Lock \/ Load \/ Refuse \/ CreateFile \/ WriteFile \/ Exit \/ Lose
  \/ Reconfigure
  \/ \E k \in Keys, r \in Runs : Replay(k, r) \/ Enqueue(k, r)
  \/ \E r \in Runs : Execute(r) \/ ExecuteUnreadable(r) \/ Conclude(r)

SecretsSpec == SecretsInit /\ [][SecretsNext]_secretsVars

-----------------------------------------------------------------------------
\* Properties

\* The variables keep their types; a run has a key and a secret from the start.
SecretsTypeOK ==
  /\ file \in Secrets \cup {"none", "empty"}
  /\ given \in Secrets \cup {"none"}
  /\ drawn \subseteq Secrets
  /\ phase \in {"down", "locked", "creating", "up", "refused"}
  /\ secret \in Secrets \cup {"none"}
  /\ row \in [Runs -> {"absent", "queued"} \cup Unresolved \cup Final]
  /\ key \in [Runs -> Keys \cup {"none"}]
  /\ under \in [Runs -> Secrets \cup {"none"}]
  /\ \A r \in Runs : row[r] # "absent" => key[r] \in Keys /\ under[r] \in Secrets
  /\ told \in [Keys -> SUBSET Runs]
  /\ proven \subseteq sent
  /\ sent \subseteq Runs
  /\ lost \in BOOLEAN

\* As long as the secret is not lost, a key names one run through every restart,
\* a process that dies while it makes the file included (enqueue_run).
OneRunPerKey == lost \/ \A k \in Keys : \A q, r \in told[k] : q = r

\* As long as the secret is not lost, every accepted run can be read by whichever
\* process has the home, so that none fails or stays uncertain for its secret
\* (_snapshot).
AcceptedIsReadable ==
  ~lost /\ phase = "up" => \A r \in Runs : row[r] # "absent" => Readable(r)

\* Even after a loss, no generation is requested on top of one whose outcome is
\* unknown: a run that can no longer be read does not stop blocking
\* (execute_run, reconcile_run).
OneUnresolved == \A q, r \in sent \ proven : q = r

-----------------------------------------------------------------------------
\* The inductive invariant

\* A process that is up has the secret of its settings or of the file; without a
\* loss so has every row.
SecretsAgree ==
  /\ phase \in {"creating", "up"} => secret \in Secrets
  /\ phase = "creating" => file = "empty" /\ given = "none"
  /\ phase = "up" => Source = secret
  /\ ~lost => \A r \in Runs : row[r] # "absent" => under[r] = Source

\* Callers are told runs of their key; without a loss a key has one.
KeysAgree ==
  /\ \A k \in Keys : \A r \in told[k] : row[r] # "absent" /\ key[r] = k
  /\ ~lost => \A q, r \in Runs :
                 row[q] # "absent" /\ row[r] # "absent" /\ key[q] = key[r] => q = r

\* A run without a proven outcome says so, whatever can be read of it.
RowsAdmit ==
  /\ \A r \in Runs : row[r] = "running" => phase = "up"
  /\ \A r \in sent \ proven : row[r] \in Unresolved
  /\ \A r \in Runs : row[r] \in {"absent", "queued"} => r \notin sent
  /\ \A r \in Runs : row[r] \in Unresolved => r \in sent

SecretsInv ==
  SecretsTypeOK /\ SecretsAgree /\ KeysAgree /\ RowsAdmit /\ OneUnresolved
=============================================================================
