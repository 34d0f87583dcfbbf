-------------------------- MODULE ResultStoreProofs --------------------------
(***************************************************************************)
(* Proofs about ResultStore, for any set of texts, threads and clients:    *)
(* clients are told one outcome, a success survives every crash, and the   *)
(* evidence of a run is that of its outcome.                               *)
(***************************************************************************)
EXTENDS ResultStore, TLAPS

USE TextAssumption, ThreadAssumption

\* Every step keeps the types.
LEMMA TypeStep ==
  ASSUME TypeOK, WritesInOrder, [Next]_vars
  PROVE  TypeOK'
<1>0. CASE UNCHANGED vars
  BY <1>0 DEF TypeOK, WritesInOrder, InTransaction, Publishable, Verdicts,
     Contents, Files, Final, run, files, publisher, writing, history,
     clients, vars
<1>1. ASSUME NEW t \in Threads, Reconcile(t)
      PROVE  TypeOK'
  BY <1>1 DEF TypeOK, WritesInOrder, InTransaction, Publishable, Verdicts,
     Contents, Files, Final, Reconcile, run, files, publisher, writing,
     history, clients
<1>2. ASSUME NEW t \in Threads, Acquire(t)
      PROVE  TypeOK'
  <2>1. waiting' = waiting \ {t} /\ t \in waiting
    BY <1>2 DEF Acquire, Others
  <2>2. waiting' \subseteq Threads \ {holder'}
    BY <1>2, <2>1 DEF TypeOK, Acquire
  <2>3. holder' \in Threads \cup {"nobody"} /\ executing' \in BOOLEAN
    BY <1>2, <2>1 DEF TypeOK, Acquire
  <2>4. stage' = "observe" \/ stage' = stage
    BY <1>2 DEF Acquire
  <2>5. UNCHANGED <<run, files, verdict, writing, history, clients>>
    BY <1>2 DEF Acquire
  <2> QED
    BY <2>2, <2>3, <2>4, <2>5
    DEF TypeOK, run, files, writing, history, clients
<1>3. ASSUME Misread
      PROVE  TypeOK'
  BY <1>3 DEF TypeOK, WritesInOrder, InTransaction, Publishable, Verdicts,
     Contents, Files, Final, Misread, run, files, publisher, writing,
     history, clients
<1>4. ASSUME NEW v \in Verdicts, Observe(v)
      PROVE  TypeOK'
  BY <1>4 DEF TypeOK, WritesInOrder, InTransaction, Publishable, Verdicts,
     Contents, Files, Final, Observe, Owned, run, files, publisher, writing,
     history, clients
<1>5. ASSUME WriteTemporary
      PROVE  TypeOK'
  BY <1>5 DEF TypeOK, WritesInOrder, InTransaction, Publishable, Verdicts,
     Contents, Files, Final, WriteTemporary, Flushed, run, files, publisher,
     writing, history, clients
<1>6. ASSUME Rename
      PROVE  TypeOK'
  BY <1>6 DEF TypeOK, WritesInOrder, InTransaction, Publishable, Verdicts,
     Contents, Files, Final, Rename, run, files, publisher, writing,
     history, clients
<1>7. ASSUME SyncDirectory
      PROVE  TypeOK'
  BY <1>7 DEF TypeOK, WritesInOrder, InTransaction, Publishable, Verdicts,
     Contents, Files, Final, SyncDirectory, Settled, After, run, files,
     publisher, writing, history, clients
<1>8. ASSUME SetOutcome
      PROVE  TypeOK'
  BY <1>8 DEF TypeOK, WritesInOrder, InTransaction, Publishable, Verdicts,
     Contents, Files, Final, SetOutcome, Undecided, run, files, publisher,
     writing, history, clients
<1>9. ASSUME BeginPublication
      PROVE  TypeOK'
  BY <1>9 DEF TypeOK, WritesInOrder, InTransaction, Publishable, Verdicts,
     Contents, Files, Final, BeginPublication, run, files, publisher,
     writing, history, clients
<1>10. ASSUME CommitPublication
      PROVE  TypeOK'
  BY <1>10 DEF TypeOK, WritesInOrder, InTransaction, Publishable, Verdicts,
     Contents, Files, Final, CommitPublication, run, files, publisher,
     writing, history, clients
<1>11. ASSUME Fail
      PROVE  TypeOK'
  BY <1>11 DEF TypeOK, WritesInOrder, InTransaction, Publishable, Verdicts,
     Contents, Files, Final, Fail, run, files, publisher, writing, history,
     clients
<1>12. ASSUME Handle
      PROVE  TypeOK'
  BY <1>12 DEF TypeOK, WritesInOrder, InTransaction, Publishable, Verdicts,
     Contents, Files, Final, Handle, Undecided, run, files, publisher,
     writing, history, clients
<1>13. ASSUME Release
      PROVE  TypeOK'
  <2>1. /\ stage' = "free" /\ holder' = "nobody"
        /\ busy' \in BOOLEAN /\ unreleased' \in BOOLEAN
    BY <1>13 DEF TypeOK, Release
  <2>2. /\ waiting' \subseteq Threads \ {holder'}
        /\ UNCHANGED <<state, index, referred, files, executing, verdict, writing,
                       damaged, clients>>
    BY <1>13, ThreadAssumption DEF TypeOK, Release
  <2>3. stage \notin Files /\ temp = {} /\ ~renamed
    BY <1>13 DEF TypeOK, WritesInOrder, Release, Files
  <2> QED
    BY <2>1, <2>2, <2>3 DEF TypeOK, files, writing, clients
<1>14. ASSUME NEW c \in Clients, Ask(c)
      PROVE  TypeOK'
  BY <1>14 DEF TypeOK, WritesInOrder, InTransaction, Publishable, Verdicts,
     Contents, Files, Final, Ask, run, files, publisher, writing, history,
     clients
<1>15. ASSUME NEW c \in Clients, ReadResult(c)
      PROVE  TypeOK'
  BY <1>15 DEF TypeOK, WritesInOrder, InTransaction, Publishable, Verdicts,
     Contents, Files, Final, ReadResult, run, files, publisher, writing,
     history, clients
<1>16. ASSUME NEW c \in Clients, ReadManifest(c)
      PROVE  TypeOK'
  BY <1>16 DEF TypeOK, WritesInOrder, InTransaction, Publishable, Verdicts,
     Contents, Files, Final, ReadManifest, Intact, run, files, publisher,
     writing, history, clients
<1>17. ASSUME NEW f \in Files, Damage(f)
      PROVE  TypeOK'
  BY <1>17 DEF TypeOK, WritesInOrder, InTransaction, Publishable, Verdicts,
     Contents, Files, Final, Damage, run, files, publisher, writing,
     history, clients
<1>18. ASSUME Kill
      PROVE  TypeOK'
  BY <1>18 DEF TypeOK, WritesInOrder, InTransaction, Publishable, Verdicts,
     Contents, Files, Final, Kill, Restart, run, files, publisher, writing,
     history, clients
<1>19. ASSUME PowerCut
      PROVE  TypeOK'
  <2>1. Restart /\ seen' \in [Files -> Contents]
    BY <1>19 DEF PowerCut
  <2>2. disk' \in [Files -> SUBSET Contents]
    <3>1. \A f \in Files : {seen'[f]} \in SUBSET Contents
      BY <2>1
    <3> QED
      BY <1>19, <3>1 DEF PowerCut
  <2>3. /\ state' \in Final \cup {"running", "uncertain"}
        /\ reader' \in [Clients -> {"asking", "result", "manifest"}]
        /\ row' \in [Clients -> Contents] /\ text' \in [Clients -> Contents]
    BY <2>1 DEF Restart, TypeOK, Contents
  <2> QED
    BY <2>1, <2>2, <2>3 DEF Restart, TypeOK, Verdicts, run, history
<1> QED
  BY <1>0, <1>1, <1>2, <1>3, <1>4, <1>5, <1>6, <1>7, <1>8, <1>9, <1>10,
     <1>11, <1>12, <1>13, <1>14, <1>15, <1>16, <1>17, <1>18, <1>19 DEF Next

\* Every step keeps the order of the writes.
LEMMA WritesStep ==
  ASSUME TypeOK, WritesInOrder, [Next]_vars
  PROVE  WritesInOrder'
<1>0. CASE UNCHANGED vars
  BY <1>0 DEF TypeOK, WritesInOrder, InTransaction, Publishable, Verdicts,
     Contents, Files, Final, run, files, publisher, writing, history,
     clients, vars
<1>1. ASSUME NEW t \in Threads, Reconcile(t)
      PROVE  WritesInOrder'
  BY <1>1 DEF TypeOK, WritesInOrder, InTransaction, Publishable, Verdicts,
     Contents, Files, Final, Reconcile, run, files, publisher, writing,
     history, clients
<1>2. ASSUME NEW t \in Threads, Acquire(t)
      PROVE  WritesInOrder'
  BY <1>2 DEF TypeOK, WritesInOrder, InTransaction, Publishable, Verdicts,
     Contents, Files, Final, Acquire, Others, run, files, publisher,
     writing, history, clients
<1>3. ASSUME Misread
      PROVE  WritesInOrder'
  BY <1>3 DEF TypeOK, WritesInOrder, InTransaction, Publishable, Verdicts,
     Contents, Files, Final, Misread, run, files, publisher, writing,
     history, clients
<1>4. ASSUME NEW v \in Verdicts, Observe(v)
      PROVE  WritesInOrder'
  BY <1>4 DEF TypeOK, WritesInOrder, InTransaction, Publishable, Verdicts,
     Contents, Files, Final, Observe, Owned, run, files, publisher, writing,
     history, clients
<1>5. ASSUME WriteTemporary
      PROVE  WritesInOrder'
  BY <1>5 DEF TypeOK, WritesInOrder, InTransaction, Publishable, Verdicts,
     Contents, Files, Final, WriteTemporary, Flushed, run, files, publisher,
     writing, history, clients
<1>6. ASSUME Rename
      PROVE  WritesInOrder'
  BY <1>6 DEF TypeOK, WritesInOrder, InTransaction, Publishable, Verdicts,
     Contents, Files, Final, Rename, run, files, publisher, writing,
     history, clients
<1>7. ASSUME SyncDirectory
      PROVE  WritesInOrder'
  BY <1>7 DEF TypeOK, WritesInOrder, InTransaction, Publishable, Verdicts,
     Contents, Files, Final, SyncDirectory, Settled, After, run, files,
     publisher, writing, history, clients
<1>8. ASSUME SetOutcome
      PROVE  WritesInOrder'
  BY <1>8 DEF TypeOK, WritesInOrder, InTransaction, Publishable, Verdicts,
     Contents, Files, Final, SetOutcome, Undecided, run, files, publisher,
     writing, history, clients
<1>9. ASSUME BeginPublication
      PROVE  WritesInOrder'
  BY <1>9 DEF TypeOK, WritesInOrder, InTransaction, Publishable, Verdicts,
     Contents, Files, Final, BeginPublication, run, files, publisher,
     writing, history, clients
<1>10. ASSUME CommitPublication
      PROVE  WritesInOrder'
  BY <1>10 DEF TypeOK, WritesInOrder, InTransaction, Publishable, Verdicts,
     Contents, Files, Final, CommitPublication, run, files, publisher,
     writing, history, clients
<1>11. ASSUME Fail
      PROVE  WritesInOrder'
  BY <1>11 DEF TypeOK, WritesInOrder, InTransaction, Publishable, Verdicts,
     Contents, Files, Final, Fail, run, files, publisher, writing, history,
     clients
<1>12. ASSUME Handle
      PROVE  WritesInOrder'
  BY <1>12 DEF TypeOK, WritesInOrder, InTransaction, Publishable, Verdicts,
     Contents, Files, Final, Handle, Undecided, run, files, publisher,
     writing, history, clients
<1>13. ASSUME Release
      PROVE  WritesInOrder'
  BY <1>13 DEF TypeOK, WritesInOrder, InTransaction, Publishable, Verdicts,
     Contents, Files, Final, Release, run, files, publisher, writing,
     history, clients
<1>14. ASSUME NEW c \in Clients, Ask(c)
      PROVE  WritesInOrder'
  BY <1>14 DEF TypeOK, WritesInOrder, InTransaction, Publishable, Verdicts,
     Contents, Files, Final, Ask, run, files, publisher, writing, history,
     clients
<1>15. ASSUME NEW c \in Clients, ReadResult(c)
      PROVE  WritesInOrder'
  BY <1>15 DEF TypeOK, WritesInOrder, InTransaction, Publishable, Verdicts,
     Contents, Files, Final, ReadResult, run, files, publisher, writing,
     history, clients
<1>16. ASSUME NEW c \in Clients, ReadManifest(c)
      PROVE  WritesInOrder'
  BY <1>16 DEF TypeOK, WritesInOrder, InTransaction, Publishable, Verdicts,
     Contents, Files, Final, ReadManifest, Intact, run, files, publisher,
     writing, history, clients
<1>17. ASSUME NEW f \in Files, Damage(f)
      PROVE  WritesInOrder'
  BY <1>17 DEF TypeOK, WritesInOrder, InTransaction, Publishable, Verdicts,
     Contents, Files, Final, Damage, run, files, publisher, writing,
     history, clients
<1>18. ASSUME Kill
      PROVE  WritesInOrder'
  BY <1>18 DEF TypeOK, WritesInOrder, InTransaction, Publishable, Verdicts,
     Contents, Files, Final, Kill, Restart, run, files, publisher, writing,
     history, clients
<1>19. ASSUME PowerCut
      PROVE  WritesInOrder'
  BY <1>19 DEF TypeOK, WritesInOrder, InTransaction, Publishable, Verdicts,
     Contents, Files, Final, PowerCut, Restart, run, files, publisher,
     writing, history, clients
<1> QED
  BY <1>0, <1>1, <1>2, <1>3, <1>4, <1>5, <1>6, <1>7, <1>8, <1>9, <1>10,
     <1>11, <1>12, <1>13, <1>14, <1>15, <1>16, <1>17, <1>18, <1>19 DEF Next

\* Every step keeps the rows in agreement.
LEMMA RowsStep ==
  ASSUME TypeOK, WritesInOrder, RowsAgree, [Next]_vars
  PROVE  RowsAgree'
<1>0. CASE UNCHANGED vars
  BY <1>0 DEF TypeOK, WritesInOrder, RowsAgree, InTransaction, Publishable,
     Verdicts, Contents, Files, Final, run, files, publisher, writing,
     history, clients, vars
<1>1. ASSUME NEW t \in Threads, Reconcile(t)
      PROVE  RowsAgree'
  BY <1>1 DEF TypeOK, WritesInOrder, RowsAgree, InTransaction, Publishable,
     Verdicts, Contents, Files, Final, Reconcile, run, files, publisher,
     writing, history, clients
<1>2. ASSUME NEW t \in Threads, Acquire(t)
      PROVE  RowsAgree'
  BY <1>2 DEF TypeOK, WritesInOrder, RowsAgree, InTransaction, Publishable,
     Verdicts, Contents, Files, Final, Acquire, Others, run, files,
     publisher, writing, history, clients
<1>3. ASSUME Misread
      PROVE  RowsAgree'
  BY <1>3 DEF TypeOK, WritesInOrder, RowsAgree, InTransaction, Publishable,
     Verdicts, Contents, Files, Final, Misread, run, files, publisher,
     writing, history, clients
<1>4. ASSUME NEW v \in Verdicts, Observe(v)
      PROVE  RowsAgree'
  BY <1>4 DEF TypeOK, WritesInOrder, RowsAgree, InTransaction, Publishable,
     Verdicts, Contents, Files, Final, Observe, Owned, run, files,
     publisher, writing, history, clients
<1>5. ASSUME WriteTemporary
      PROVE  RowsAgree'
  BY <1>5 DEF TypeOK, WritesInOrder, RowsAgree, InTransaction, Publishable,
     Verdicts, Contents, Files, Final, WriteTemporary, Flushed, run, files,
     publisher, writing, history, clients
<1>6. ASSUME Rename
      PROVE  RowsAgree'
  BY <1>6 DEF TypeOK, WritesInOrder, RowsAgree, InTransaction, Publishable,
     Verdicts, Contents, Files, Final, Rename, run, files, publisher,
     writing, history, clients
<1>7. ASSUME SyncDirectory
      PROVE  RowsAgree'
  BY <1>7 DEF TypeOK, WritesInOrder, RowsAgree, InTransaction, Publishable,
     Verdicts, Contents, Files, Final, SyncDirectory, Settled, After, run,
     files, publisher, writing, history, clients
<1>8. ASSUME SetOutcome
      PROVE  RowsAgree'
  BY <1>8 DEF TypeOK, WritesInOrder, RowsAgree, InTransaction, Publishable,
     Verdicts, Contents, Files, Final, SetOutcome, Undecided, run, files,
     publisher, writing, history, clients
<1>9. ASSUME BeginPublication
      PROVE  RowsAgree'
  BY <1>9 DEF TypeOK, WritesInOrder, RowsAgree, InTransaction, Publishable,
     Verdicts, Contents, Files, Final, BeginPublication, run, files,
     publisher, writing, history, clients
<1>10. ASSUME CommitPublication
      PROVE  RowsAgree'
  BY <1>10 DEF TypeOK, WritesInOrder, RowsAgree, InTransaction, Publishable,
     Verdicts, Contents, Files, Final, CommitPublication, run, files,
     publisher, writing, history, clients
<1>11. ASSUME Fail
      PROVE  RowsAgree'
  BY <1>11 DEF TypeOK, WritesInOrder, RowsAgree, InTransaction, Publishable,
     Verdicts, Contents, Files, Final, Fail, run, files, publisher, writing,
     history, clients
<1>12. ASSUME Handle
      PROVE  RowsAgree'
  BY <1>12 DEF TypeOK, WritesInOrder, RowsAgree, InTransaction, Publishable,
     Verdicts, Contents, Files, Final, Handle, Undecided, run, files,
     publisher, writing, history, clients
<1>13. ASSUME Release
      PROVE  RowsAgree'
  BY <1>13 DEF TypeOK, WritesInOrder, RowsAgree, InTransaction, Publishable,
     Verdicts, Contents, Files, Final, Release, run, files, publisher,
     writing, history, clients
<1>14. ASSUME NEW c \in Clients, Ask(c)
      PROVE  RowsAgree'
  BY <1>14 DEF TypeOK, WritesInOrder, RowsAgree, InTransaction, Publishable,
     Verdicts, Contents, Files, Final, Ask, run, files, publisher, writing,
     history, clients
<1>15. ASSUME NEW c \in Clients, ReadResult(c)
      PROVE  RowsAgree'
  BY <1>15 DEF TypeOK, WritesInOrder, RowsAgree, InTransaction, Publishable,
     Verdicts, Contents, Files, Final, ReadResult, run, files, publisher,
     writing, history, clients
<1>16. ASSUME NEW c \in Clients, ReadManifest(c)
      PROVE  RowsAgree'
  BY <1>16 DEF TypeOK, WritesInOrder, RowsAgree, InTransaction, Publishable,
     Verdicts, Contents, Files, Final, ReadManifest, Intact, run, files,
     publisher, writing, history, clients
<1>17. ASSUME NEW f \in Files, Damage(f)
      PROVE  RowsAgree'
  BY <1>17 DEF TypeOK, WritesInOrder, RowsAgree, InTransaction, Publishable,
     Verdicts, Contents, Files, Final, Damage, run, files, publisher,
     writing, history, clients
<1>18. ASSUME Kill
      PROVE  RowsAgree'
  BY <1>18 DEF TypeOK, WritesInOrder, RowsAgree, InTransaction, Publishable,
     Verdicts, Contents, Files, Final, Kill, Restart, run, files, publisher,
     writing, history, clients
<1>19. ASSUME PowerCut
      PROVE  RowsAgree'
  BY <1>19 DEF TypeOK, WritesInOrder, RowsAgree, InTransaction, Publishable,
     Verdicts, Contents, Files, Final, PowerCut, Restart, run, files,
     publisher, writing, history, clients
<1> QED
  BY <1>0, <1>1, <1>2, <1>3, <1>4, <1>5, <1>6, <1>7, <1>8, <1>9, <1>10,
     <1>11, <1>12, <1>13, <1>14, <1>15, <1>16, <1>17, <1>18, <1>19 DEF Next

\* No step takes a success off the disk.
LEMMA DurableStep ==
  ASSUME TypeOK, WritesInOrder, RowsAgree, SucceededIsDurable, [Next]_vars
  PROVE  SucceededIsDurable'
<1>0. CASE UNCHANGED vars
  BY <1>0 DEF TypeOK, WritesInOrder, RowsAgree, SucceededIsDurable,
     InTransaction, Publishable, Verdicts, Contents, Files, Final, run,
     files, publisher, writing, history, clients, vars
<1>1. ASSUME NEW t \in Threads, Reconcile(t)
      PROVE  SucceededIsDurable'
  BY <1>1 DEF TypeOK, WritesInOrder, RowsAgree, SucceededIsDurable,
     InTransaction, Publishable, Verdicts, Contents, Files, Final,
     Reconcile, run, files, publisher, writing, history, clients
<1>2. ASSUME NEW t \in Threads, Acquire(t)
      PROVE  SucceededIsDurable'
  BY <1>2 DEF TypeOK, WritesInOrder, RowsAgree, SucceededIsDurable,
     InTransaction, Publishable, Verdicts, Contents, Files, Final, Acquire,
     Others, run, files, publisher, writing, history, clients
<1>3. ASSUME Misread
      PROVE  SucceededIsDurable'
  BY <1>3 DEF TypeOK, WritesInOrder, RowsAgree, SucceededIsDurable,
     InTransaction, Publishable, Verdicts, Contents, Files, Final, Misread,
     run, files, publisher, writing, history, clients
<1>4. ASSUME NEW v \in Verdicts, Observe(v)
      PROVE  SucceededIsDurable'
  BY <1>4 DEF TypeOK, WritesInOrder, RowsAgree, SucceededIsDurable,
     InTransaction, Publishable, Verdicts, Contents, Files, Final, Observe,
     Owned, run, files, publisher, writing, history, clients
<1>5. ASSUME WriteTemporary
      PROVE  SucceededIsDurable'
  BY <1>5 DEF TypeOK, WritesInOrder, RowsAgree, SucceededIsDurable,
     InTransaction, Publishable, Verdicts, Contents, Files, Final,
     WriteTemporary, Flushed, run, files, publisher, writing, history,
     clients
<1>6. ASSUME Rename
      PROVE  SucceededIsDurable'
  BY <1>6 DEF TypeOK, WritesInOrder, RowsAgree, SucceededIsDurable,
     InTransaction, Publishable, Verdicts, Contents, Files, Final, Rename,
     run, files, publisher, writing, history, clients
<1>7. ASSUME SyncDirectory
      PROVE  SucceededIsDurable'
  BY <1>7 DEF TypeOK, WritesInOrder, RowsAgree, SucceededIsDurable,
     InTransaction, Publishable, Verdicts, Contents, Files, Final,
     SyncDirectory, Settled, After, run, files, publisher, writing, history,
     clients
<1>8. ASSUME SetOutcome
      PROVE  SucceededIsDurable'
  BY <1>8 DEF TypeOK, WritesInOrder, RowsAgree, SucceededIsDurable,
     InTransaction, Publishable, Verdicts, Contents, Files, Final,
     SetOutcome, Undecided, run, files, publisher, writing, history, clients
<1>9. ASSUME BeginPublication
      PROVE  SucceededIsDurable'
  BY <1>9 DEF TypeOK, WritesInOrder, RowsAgree, SucceededIsDurable,
     InTransaction, Publishable, Verdicts, Contents, Files, Final,
     BeginPublication, run, files, publisher, writing, history, clients
<1>10. ASSUME CommitPublication
      PROVE  SucceededIsDurable'
  BY <1>10 DEF TypeOK, WritesInOrder, RowsAgree, SucceededIsDurable,
     InTransaction, Publishable, Verdicts, Contents, Files, Final,
     CommitPublication, run, files, publisher, writing, history, clients
<1>11. ASSUME Fail
      PROVE  SucceededIsDurable'
  BY <1>11 DEF TypeOK, WritesInOrder, RowsAgree, SucceededIsDurable,
     InTransaction, Publishable, Verdicts, Contents, Files, Final, Fail,
     run, files, publisher, writing, history, clients
<1>12. ASSUME Handle
      PROVE  SucceededIsDurable'
  BY <1>12 DEF TypeOK, WritesInOrder, RowsAgree, SucceededIsDurable,
     InTransaction, Publishable, Verdicts, Contents, Files, Final, Handle,
     Undecided, run, files, publisher, writing, history, clients
<1>13. ASSUME Release
      PROVE  SucceededIsDurable'
  BY <1>13 DEF TypeOK, WritesInOrder, RowsAgree, SucceededIsDurable,
     InTransaction, Publishable, Verdicts, Contents, Files, Final, Release,
     run, files, publisher, writing, history, clients
<1>14. ASSUME NEW c \in Clients, Ask(c)
      PROVE  SucceededIsDurable'
  BY <1>14 DEF TypeOK, WritesInOrder, RowsAgree, SucceededIsDurable,
     InTransaction, Publishable, Verdicts, Contents, Files, Final, Ask, run,
     files, publisher, writing, history, clients
<1>15. ASSUME NEW c \in Clients, ReadResult(c)
      PROVE  SucceededIsDurable'
  BY <1>15 DEF TypeOK, WritesInOrder, RowsAgree, SucceededIsDurable,
     InTransaction, Publishable, Verdicts, Contents, Files, Final,
     ReadResult, run, files, publisher, writing, history, clients
<1>16. ASSUME NEW c \in Clients, ReadManifest(c)
      PROVE  SucceededIsDurable'
  BY <1>16 DEF TypeOK, WritesInOrder, RowsAgree, SucceededIsDurable,
     InTransaction, Publishable, Verdicts, Contents, Files, Final,
     ReadManifest, Intact, run, files, publisher, writing, history, clients
<1>17. ASSUME NEW f \in Files, Damage(f)
      PROVE  SucceededIsDurable'
  BY <1>17 DEF TypeOK, WritesInOrder, RowsAgree, SucceededIsDurable,
     InTransaction, Publishable, Verdicts, Contents, Files, Final, Damage,
     run, files, publisher, writing, history, clients
<1>18. ASSUME Kill
      PROVE  SucceededIsDurable'
  BY <1>18 DEF TypeOK, WritesInOrder, RowsAgree, SucceededIsDurable,
     InTransaction, Publishable, Verdicts, Contents, Files, Final, Kill,
     Restart, run, files, publisher, writing, history, clients
<1>19. ASSUME PowerCut
      PROVE  SucceededIsDurable'
  BY <1>19 DEF TypeOK, WritesInOrder, RowsAgree, SucceededIsDurable,
     InTransaction, Publishable, Verdicts, Contents, Files, Final, PowerCut,
     Restart, run, files, publisher, writing, history, clients
<1> QED
  BY <1>0, <1>1, <1>2, <1>3, <1>4, <1>5, <1>6, <1>7, <1>8, <1>9, <1>10,
     <1>11, <1>12, <1>13, <1>14, <1>15, <1>16, <1>17, <1>18, <1>19 DEF Next

\* No step tells a client anything but the outcome.
LEMMA ToldStep ==
  ASSUME TypeOK, WritesInOrder, RowsAgree, SucceededIsDurable, ToldOutcome,
     [Next]_vars
  PROVE  ToldOutcome'
<1>0. CASE UNCHANGED vars
  BY <1>0 DEF TypeOK, WritesInOrder, RowsAgree, SucceededIsDurable,
     ToldOutcome, InTransaction, Publishable, Outcome, Verdicts, Contents,
     Files, Final, run, files, publisher, writing, history, clients, vars
<1>1. ASSUME NEW t \in Threads, Reconcile(t)
      PROVE  ToldOutcome'
  BY <1>1 DEF TypeOK, WritesInOrder, RowsAgree, SucceededIsDurable,
     ToldOutcome, InTransaction, Publishable, Outcome, Verdicts, Contents,
     Files, Final, Reconcile, run, files, publisher, writing, history,
     clients
<1>2. ASSUME NEW t \in Threads, Acquire(t)
      PROVE  ToldOutcome'
  BY <1>2 DEF TypeOK, WritesInOrder, RowsAgree, SucceededIsDurable,
     ToldOutcome, InTransaction, Publishable, Outcome, Verdicts, Contents,
     Files, Final, Acquire, Others, run, files, publisher, writing, history,
     clients
<1>3. ASSUME Misread
      PROVE  ToldOutcome'
  BY <1>3 DEF TypeOK, WritesInOrder, RowsAgree, SucceededIsDurable,
     ToldOutcome, InTransaction, Publishable, Outcome, Verdicts, Contents,
     Files, Final, Misread, run, files, publisher, writing, history, clients
<1>4. ASSUME NEW v \in Verdicts, Observe(v)
      PROVE  ToldOutcome'
  BY <1>4 DEF TypeOK, WritesInOrder, RowsAgree, SucceededIsDurable,
     ToldOutcome, InTransaction, Publishable, Outcome, Verdicts, Contents,
     Files, Final, Observe, Owned, run, files, publisher, writing, history,
     clients
<1>5. ASSUME WriteTemporary
      PROVE  ToldOutcome'
  BY <1>5 DEF TypeOK, WritesInOrder, RowsAgree, SucceededIsDurable,
     ToldOutcome, InTransaction, Publishable, Outcome, Verdicts, Contents,
     Files, Final, WriteTemporary, Flushed, run, files, publisher, writing,
     history, clients
<1>6. ASSUME Rename
      PROVE  ToldOutcome'
  BY <1>6 DEF TypeOK, WritesInOrder, RowsAgree, SucceededIsDurable,
     ToldOutcome, InTransaction, Publishable, Outcome, Verdicts, Contents,
     Files, Final, Rename, run, files, publisher, writing, history, clients
<1>7. ASSUME SyncDirectory
      PROVE  ToldOutcome'
  BY <1>7 DEF TypeOK, WritesInOrder, RowsAgree, SucceededIsDurable,
     ToldOutcome, InTransaction, Publishable, Outcome, Verdicts, Contents,
     Files, Final, SyncDirectory, Settled, After, run, files, publisher,
     writing, history, clients
<1>8. ASSUME SetOutcome
      PROVE  ToldOutcome'
  BY <1>8 DEF TypeOK, WritesInOrder, RowsAgree, SucceededIsDurable,
     ToldOutcome, InTransaction, Publishable, Outcome, Verdicts, Contents,
     Files, Final, SetOutcome, Undecided, run, files, publisher, writing,
     history, clients
<1>9. ASSUME BeginPublication
      PROVE  ToldOutcome'
  BY <1>9 DEF TypeOK, WritesInOrder, RowsAgree, SucceededIsDurable,
     ToldOutcome, InTransaction, Publishable, Outcome, Verdicts, Contents,
     Files, Final, BeginPublication, run, files, publisher, writing,
     history, clients
<1>10. ASSUME CommitPublication
      PROVE  ToldOutcome'
  BY <1>10 DEF TypeOK, WritesInOrder, RowsAgree, SucceededIsDurable,
     ToldOutcome, InTransaction, Publishable, Outcome, Verdicts, Contents,
     Files, Final, CommitPublication, run, files, publisher, writing,
     history, clients
<1>11. ASSUME Fail
      PROVE  ToldOutcome'
  BY <1>11 DEF TypeOK, WritesInOrder, RowsAgree, SucceededIsDurable,
     ToldOutcome, InTransaction, Publishable, Outcome, Verdicts, Contents,
     Files, Final, Fail, run, files, publisher, writing, history, clients
<1>12. ASSUME Handle
      PROVE  ToldOutcome'
  BY <1>12 DEF TypeOK, WritesInOrder, RowsAgree, SucceededIsDurable,
     ToldOutcome, InTransaction, Publishable, Outcome, Verdicts, Contents,
     Files, Final, Handle, Undecided, run, files, publisher, writing,
     history, clients
<1>13. ASSUME Release
      PROVE  ToldOutcome'
  BY <1>13 DEF TypeOK, WritesInOrder, RowsAgree, SucceededIsDurable,
     ToldOutcome, InTransaction, Publishable, Outcome, Verdicts, Contents,
     Files, Final, Release, run, files, publisher, writing, history, clients
<1>14. ASSUME NEW c \in Clients, Ask(c)
      PROVE  ToldOutcome'
  BY <1>14 DEF TypeOK, WritesInOrder, RowsAgree, SucceededIsDurable,
     ToldOutcome, InTransaction, Publishable, Outcome, Verdicts, Contents,
     Files, Final, Ask, run, files, publisher, writing, history, clients
<1>15. ASSUME NEW c \in Clients, ReadResult(c)
      PROVE  ToldOutcome'
  BY <1>15 DEF TypeOK, WritesInOrder, RowsAgree, SucceededIsDurable,
     ToldOutcome, InTransaction, Publishable, Outcome, Verdicts, Contents,
     Files, Final, ReadResult, run, files, publisher, writing, history,
     clients
<1>16. ASSUME NEW c \in Clients, ReadManifest(c)
      PROVE  ToldOutcome'
  BY <1>16 DEF TypeOK, WritesInOrder, RowsAgree, SucceededIsDurable,
     ToldOutcome, InTransaction, Publishable, Outcome, Verdicts, Contents,
     Files, Final, ReadManifest, Intact, run, files, publisher, writing,
     history, clients
<1>17. ASSUME NEW f \in Files, Damage(f)
      PROVE  ToldOutcome'
  BY <1>17 DEF TypeOK, WritesInOrder, RowsAgree, SucceededIsDurable,
     ToldOutcome, InTransaction, Publishable, Outcome, Verdicts, Contents,
     Files, Final, Damage, run, files, publisher, writing, history, clients
<1>18. ASSUME Kill
      PROVE  ToldOutcome'
  BY <1>18 DEF TypeOK, WritesInOrder, RowsAgree, SucceededIsDurable,
     ToldOutcome, InTransaction, Publishable, Outcome, Verdicts, Contents,
     Files, Final, Kill, Restart, run, files, publisher, writing, history,
     clients
<1>19. ASSUME PowerCut
      PROVE  ToldOutcome'
  BY <1>19 DEF TypeOK, WritesInOrder, RowsAgree, SucceededIsDurable,
     ToldOutcome, InTransaction, Publishable, Outcome, Verdicts, Contents,
     Files, Final, PowerCut, Restart, run, files, publisher, writing,
     history, clients
<1> QED
  BY <1>0, <1>1, <1>2, <1>3, <1>4, <1>5, <1>6, <1>7, <1>8, <1>9, <1>10,
     <1>11, <1>12, <1>13, <1>14, <1>15, <1>16, <1>17, <1>18, <1>19 DEF Next

\* No step lets a run that is over be observed, unless a release fails.
LEMMA ObserverStep ==
  ASSUME TypeOK, WritesInOrder, RowsAgree, NoLateObserver, [Next]_vars
  PROVE  NoLateObserver'
<1>0. CASE UNCHANGED vars
  BY <1>0 DEF TypeOK, WritesInOrder, RowsAgree, NoLateObserver,
     InTransaction, Publishable, Verdicts, Contents, Files, Final, run,
     files, publisher, writing, history, clients, vars
<1>1. ASSUME NEW t \in Threads, Reconcile(t)
      PROVE  NoLateObserver'
  BY <1>1 DEF TypeOK, WritesInOrder, RowsAgree, NoLateObserver,
     InTransaction, Publishable, Verdicts, Contents, Files, Final,
     Reconcile, run, files, publisher, writing, history, clients
<1>2. ASSUME NEW t \in Threads, Acquire(t)
      PROVE  NoLateObserver'
  BY <1>2 DEF TypeOK, WritesInOrder, RowsAgree, NoLateObserver,
     InTransaction, Publishable, Verdicts, Contents, Files, Final, Acquire,
     Others, run, files, publisher, writing, history, clients
<1>3. ASSUME Misread
      PROVE  NoLateObserver'
  BY <1>3 DEF TypeOK, WritesInOrder, RowsAgree, NoLateObserver,
     InTransaction, Publishable, Verdicts, Contents, Files, Final, Misread,
     run, files, publisher, writing, history, clients
<1>4. ASSUME NEW v \in Verdicts, Observe(v)
      PROVE  NoLateObserver'
  BY <1>4 DEF TypeOK, WritesInOrder, RowsAgree, NoLateObserver,
     InTransaction, Publishable, Verdicts, Contents, Files, Final, Observe,
     Owned, run, files, publisher, writing, history, clients
<1>5. ASSUME WriteTemporary
      PROVE  NoLateObserver'
  BY <1>5 DEF TypeOK, WritesInOrder, RowsAgree, NoLateObserver,
     InTransaction, Publishable, Verdicts, Contents, Files, Final,
     WriteTemporary, Flushed, run, files, publisher, writing, history,
     clients
<1>6. ASSUME Rename
      PROVE  NoLateObserver'
  BY <1>6 DEF TypeOK, WritesInOrder, RowsAgree, NoLateObserver,
     InTransaction, Publishable, Verdicts, Contents, Files, Final, Rename,
     run, files, publisher, writing, history, clients
<1>7. ASSUME SyncDirectory
      PROVE  NoLateObserver'
  BY <1>7 DEF TypeOK, WritesInOrder, RowsAgree, NoLateObserver,
     InTransaction, Publishable, Verdicts, Contents, Files, Final,
     SyncDirectory, Settled, After, run, files, publisher, writing, history,
     clients
<1>8. ASSUME SetOutcome
      PROVE  NoLateObserver'
  BY <1>8 DEF TypeOK, WritesInOrder, RowsAgree, NoLateObserver,
     InTransaction, Publishable, Verdicts, Contents, Files, Final,
     SetOutcome, Undecided, run, files, publisher, writing, history, clients
<1>9. ASSUME BeginPublication
      PROVE  NoLateObserver'
  BY <1>9 DEF TypeOK, WritesInOrder, RowsAgree, NoLateObserver,
     InTransaction, Publishable, Verdicts, Contents, Files, Final,
     BeginPublication, run, files, publisher, writing, history, clients
<1>10. ASSUME CommitPublication
      PROVE  NoLateObserver'
  BY <1>10 DEF TypeOK, WritesInOrder, RowsAgree, NoLateObserver,
     InTransaction, Publishable, Verdicts, Contents, Files, Final,
     CommitPublication, run, files, publisher, writing, history, clients
<1>11. ASSUME Fail
      PROVE  NoLateObserver'
  BY <1>11 DEF TypeOK, WritesInOrder, RowsAgree, NoLateObserver,
     InTransaction, Publishable, Verdicts, Contents, Files, Final, Fail,
     run, files, publisher, writing, history, clients
<1>12. ASSUME Handle
      PROVE  NoLateObserver'
  BY <1>12 DEF TypeOK, WritesInOrder, RowsAgree, NoLateObserver,
     InTransaction, Publishable, Verdicts, Contents, Files, Final, Handle,
     Undecided, run, files, publisher, writing, history, clients
<1>13. ASSUME Release
      PROVE  NoLateObserver'
  BY <1>13 DEF TypeOK, WritesInOrder, RowsAgree, NoLateObserver,
     InTransaction, Publishable, Verdicts, Contents, Files, Final, Release,
     run, files, publisher, writing, history, clients
<1>14. ASSUME NEW c \in Clients, Ask(c)
      PROVE  NoLateObserver'
  BY <1>14 DEF TypeOK, WritesInOrder, RowsAgree, NoLateObserver,
     InTransaction, Publishable, Verdicts, Contents, Files, Final, Ask, run,
     files, publisher, writing, history, clients
<1>15. ASSUME NEW c \in Clients, ReadResult(c)
      PROVE  NoLateObserver'
  BY <1>15 DEF TypeOK, WritesInOrder, RowsAgree, NoLateObserver,
     InTransaction, Publishable, Verdicts, Contents, Files, Final,
     ReadResult, run, files, publisher, writing, history, clients
<1>16. ASSUME NEW c \in Clients, ReadManifest(c)
      PROVE  NoLateObserver'
  BY <1>16 DEF TypeOK, WritesInOrder, RowsAgree, NoLateObserver,
     InTransaction, Publishable, Verdicts, Contents, Files, Final,
     ReadManifest, Intact, run, files, publisher, writing, history, clients
<1>17. ASSUME NEW f \in Files, Damage(f)
      PROVE  NoLateObserver'
  BY <1>17 DEF TypeOK, WritesInOrder, RowsAgree, NoLateObserver,
     InTransaction, Publishable, Verdicts, Contents, Files, Final, Damage,
     run, files, publisher, writing, history, clients
<1>18. ASSUME Kill
      PROVE  NoLateObserver'
  BY <1>18 DEF TypeOK, WritesInOrder, RowsAgree, NoLateObserver,
     InTransaction, Publishable, Verdicts, Contents, Files, Final, Kill,
     Restart, run, files, publisher, writing, history, clients
<1>19. ASSUME PowerCut
      PROVE  NoLateObserver'
  BY <1>19 DEF TypeOK, WritesInOrder, RowsAgree, NoLateObserver,
     InTransaction, Publishable, Verdicts, Contents, Files, Final, PowerCut,
     Restart, run, files, publisher, writing, history, clients
<1> QED
  BY <1>0, <1>1, <1>2, <1>3, <1>4, <1>5, <1>6, <1>7, <1>8, <1>9, <1>10,
     <1>11, <1>12, <1>13, <1>14, <1>15, <1>16, <1>17, <1>18, <1>19 DEF Next

\* No step finds a result unavailable whose files were left alone.
LEMMA DamageStep ==
  ASSUME TypeOK, WritesInOrder, RowsAgree, SucceededIsDurable, ToldOutcome,
     UnavailableMeansDamage, [Next]_vars
  PROVE  UnavailableMeansDamage'
<1>0. CASE UNCHANGED vars
  BY <1>0 DEF TypeOK, WritesInOrder, RowsAgree, SucceededIsDurable,
     ToldOutcome, UnavailableMeansDamage, Verdicts, Contents, Files, Final,
     run, files, publisher, writing, history, clients, vars
<1>1. ASSUME NEW t \in Threads, Reconcile(t)
      PROVE  UnavailableMeansDamage'
  BY <1>1 DEF TypeOK, WritesInOrder, RowsAgree, SucceededIsDurable,
     ToldOutcome, UnavailableMeansDamage, Verdicts, Contents, Files, Final,
     Reconcile, InTransaction, run, files, publisher, writing, history,
     clients
<1>2. ASSUME NEW t \in Threads, Acquire(t)
      PROVE  UnavailableMeansDamage'
  BY <1>2 DEF TypeOK, WritesInOrder, RowsAgree, SucceededIsDurable,
     ToldOutcome, UnavailableMeansDamage, Verdicts, Contents, Files, Final,
     Acquire, Others, run, files, publisher, writing, history, clients
<1>3. ASSUME Misread
      PROVE  UnavailableMeansDamage'
  BY <1>3 DEF TypeOK, WritesInOrder, RowsAgree, SucceededIsDurable,
     ToldOutcome, UnavailableMeansDamage, Verdicts, Contents, Files, Final,
     Misread, InTransaction, run, files, publisher, writing, history,
     clients
<1>4. ASSUME NEW v \in Verdicts, Observe(v)
      PROVE  UnavailableMeansDamage'
  BY <1>4 DEF TypeOK, WritesInOrder, RowsAgree, SucceededIsDurable,
     ToldOutcome, UnavailableMeansDamage, Verdicts, Contents, Files, Final,
     Observe, Owned, run, files, publisher, writing, history, clients
<1>5. ASSUME WriteTemporary
      PROVE  UnavailableMeansDamage'
  BY <1>5 DEF TypeOK, WritesInOrder, RowsAgree, SucceededIsDurable,
     ToldOutcome, UnavailableMeansDamage, Verdicts, Contents, Files, Final,
     WriteTemporary, Flushed, run, files, publisher, writing, history,
     clients
<1>6. ASSUME Rename
      PROVE  UnavailableMeansDamage'
  BY <1>6 DEF TypeOK, WritesInOrder, RowsAgree, SucceededIsDurable,
     ToldOutcome, UnavailableMeansDamage, Verdicts, Contents, Files, Final,
     Rename, run, files, publisher, writing, history, clients
<1>7. ASSUME SyncDirectory
      PROVE  UnavailableMeansDamage'
  BY <1>7 DEF TypeOK, WritesInOrder, RowsAgree, SucceededIsDurable,
     ToldOutcome, UnavailableMeansDamage, Verdicts, Contents, Files, Final,
     SyncDirectory, Settled, After, run, files, publisher, writing, history,
     clients
<1>8. ASSUME SetOutcome
      PROVE  UnavailableMeansDamage'
  BY <1>8 DEF TypeOK, WritesInOrder, RowsAgree, SucceededIsDurable,
     ToldOutcome, UnavailableMeansDamage, Verdicts, Contents, Files, Final,
     SetOutcome, Undecided, run, files, publisher, writing, history, clients
<1>9. ASSUME BeginPublication
      PROVE  UnavailableMeansDamage'
  BY <1>9 DEF TypeOK, WritesInOrder, RowsAgree, SucceededIsDurable,
     ToldOutcome, UnavailableMeansDamage, Verdicts, Contents, Files, Final,
     BeginPublication, Publishable, run, files, publisher, writing, history,
     clients
<1>10. ASSUME CommitPublication
      PROVE  UnavailableMeansDamage'
  BY <1>10 DEF TypeOK, WritesInOrder, RowsAgree, SucceededIsDurable,
     ToldOutcome, UnavailableMeansDamage, Verdicts, Contents, Files, Final,
     CommitPublication, run, files, publisher, writing, history, clients
<1>11. ASSUME Fail
      PROVE  UnavailableMeansDamage'
  BY <1>11 DEF TypeOK, WritesInOrder, RowsAgree, SucceededIsDurable,
     ToldOutcome, UnavailableMeansDamage, Verdicts, Contents, Files, Final,
     Fail, run, files, publisher, writing, history, clients
<1>12. ASSUME Handle
      PROVE  UnavailableMeansDamage'
  BY <1>12 DEF TypeOK, WritesInOrder, RowsAgree, SucceededIsDurable,
     ToldOutcome, UnavailableMeansDamage, Verdicts, Contents, Files, Final,
     Handle, Undecided, run, files, publisher, writing, history, clients
<1>13. ASSUME Release
      PROVE  UnavailableMeansDamage'
  BY <1>13 DEF TypeOK, WritesInOrder, RowsAgree, SucceededIsDurable,
     ToldOutcome, UnavailableMeansDamage, Verdicts, Contents, Files, Final,
     Release, run, files, publisher, writing, history, clients
<1>14. ASSUME NEW c \in Clients, Ask(c)
      PROVE  UnavailableMeansDamage'
  BY <1>14 DEF TypeOK, WritesInOrder, RowsAgree, SucceededIsDurable,
     ToldOutcome, UnavailableMeansDamage, Verdicts, Contents, Files, Final,
     Ask, InTransaction, run, files, publisher, writing, history, clients
<1>15. ASSUME NEW c \in Clients, ReadResult(c)
      PROVE  UnavailableMeansDamage'
  BY <1>15 DEF TypeOK, WritesInOrder, RowsAgree, SucceededIsDurable,
     ToldOutcome, UnavailableMeansDamage, Verdicts, Contents, Files, Final,
     ReadResult, run, files, publisher, writing, history, clients
<1>16. ASSUME NEW c \in Clients, ReadManifest(c)
      PROVE  UnavailableMeansDamage'
  <2>1. state = "succeeded" /\ row[c] = index /\ index \in Texts
    BY <1>16 DEF ReadManifest, ToldOutcome, RowsAgree
  <2>2. answers' = answers \cup {IF Intact(c) THEN text[c] ELSE "unavailable"}
    BY <1>16 DEF ReadManifest
  <2>3. CASE damaged
    BY <1>16, <2>3 DEF ReadManifest, history, UnavailableMeansDamage
  <2>4. CASE ~damaged
    <3>1. text[c] = index
      BY <1>16, <2>4 DEF ReadManifest, ToldOutcome
    <3>2. seen["manifest"] = index
      BY <2>1, <2>4 DEF SucceededIsDurable, WritesInOrder, Files
    <3>3. "unavailable" \notin answers
      BY <2>4 DEF UnavailableMeansDamage
    <3>4. Intact(c)
      BY <2>1, <3>1, <3>2 DEF Intact
    <3>5. index # "unavailable"
      BY <2>1, TextAssumption
    <3> QED
      BY <2>2, <3>1, <3>3, <3>4, <3>5 DEF UnavailableMeansDamage
  <2> QED
    BY <2>3, <2>4
<1>17. ASSUME NEW f \in Files, Damage(f)
      PROVE  UnavailableMeansDamage'
  BY <1>17 DEF TypeOK, WritesInOrder, RowsAgree, SucceededIsDurable,
     ToldOutcome, UnavailableMeansDamage, Verdicts, Contents, Files, Final,
     Damage, run, files, publisher, writing, history, clients
<1>18. ASSUME Kill
      PROVE  UnavailableMeansDamage'
  BY <1>18 DEF TypeOK, WritesInOrder, RowsAgree, SucceededIsDurable,
     ToldOutcome, UnavailableMeansDamage, Verdicts, Contents, Files, Final,
     Kill, Restart, run, files, publisher, writing, history, clients
<1>19. ASSUME PowerCut
      PROVE  UnavailableMeansDamage'
  BY <1>19 DEF TypeOK, WritesInOrder, RowsAgree, SucceededIsDurable,
     ToldOutcome, UnavailableMeansDamage, Verdicts, Contents, Files, Final,
     PowerCut, Restart, run, files, publisher, writing, history, clients
<1> QED
  BY <1>0, <1>1, <1>2, <1>3, <1>4, <1>5, <1>6, <1>7, <1>8, <1>9, <1>10,
     <1>11, <1>12, <1>13, <1>14, <1>15, <1>16, <1>17, <1>18, <1>19 DEF Next

\* No step parts the evidence from the outcome, unless a release fails.
LEMMA EvidenceStep ==
  ASSUME TypeOK, WritesInOrder, RowsAgree, NoLateObserver,
     EvidenceOfOutcome, [Next]_vars
  PROVE  EvidenceOfOutcome'
<1>0. CASE UNCHANGED vars
  BY <1>0 DEF TypeOK, WritesInOrder, RowsAgree, NoLateObserver,
     EvidenceOfOutcome, InTransaction, Publishable, Verdicts, Contents,
     Files, Final, run, files, publisher, writing, history, clients, vars
<1>1. ASSUME NEW t \in Threads, Reconcile(t)
      PROVE  EvidenceOfOutcome'
  BY <1>1 DEF TypeOK, WritesInOrder, RowsAgree, NoLateObserver,
     EvidenceOfOutcome, InTransaction, Publishable, Verdicts, Contents,
     Files, Final, Reconcile, run, files, publisher, writing, history,
     clients
<1>2. ASSUME NEW t \in Threads, Acquire(t)
      PROVE  EvidenceOfOutcome'
  BY <1>2 DEF TypeOK, WritesInOrder, RowsAgree, NoLateObserver,
     EvidenceOfOutcome, InTransaction, Publishable, Verdicts, Contents,
     Files, Final, Acquire, Others, run, files, publisher, writing, history,
     clients
<1>3. ASSUME Misread
      PROVE  EvidenceOfOutcome'
  BY <1>3 DEF TypeOK, WritesInOrder, RowsAgree, NoLateObserver,
     EvidenceOfOutcome, InTransaction, Publishable, Verdicts, Contents,
     Files, Final, Misread, run, files, publisher, writing, history, clients
<1>4. ASSUME NEW v \in Verdicts, Observe(v)
      PROVE  EvidenceOfOutcome'
  BY <1>4 DEF TypeOK, WritesInOrder, RowsAgree, NoLateObserver,
     EvidenceOfOutcome, InTransaction, Publishable, Verdicts, Contents,
     Files, Final, Observe, Owned, run, files, publisher, writing, history,
     clients
<1>5. ASSUME WriteTemporary
      PROVE  EvidenceOfOutcome'
  BY <1>5 DEF TypeOK, WritesInOrder, RowsAgree, NoLateObserver,
     EvidenceOfOutcome, InTransaction, Publishable, Verdicts, Contents,
     Files, Final, WriteTemporary, Flushed, run, files, publisher, writing,
     history, clients
<1>6. ASSUME Rename
      PROVE  EvidenceOfOutcome'
  BY <1>6 DEF TypeOK, WritesInOrder, RowsAgree, NoLateObserver,
     EvidenceOfOutcome, InTransaction, Publishable, Verdicts, Contents,
     Files, Final, Rename, run, files, publisher, writing, history, clients
<1>7. ASSUME SyncDirectory
      PROVE  EvidenceOfOutcome'
  BY <1>7 DEF TypeOK, WritesInOrder, RowsAgree, NoLateObserver,
     EvidenceOfOutcome, InTransaction, Publishable, Verdicts, Contents,
     Files, Final, SyncDirectory, Settled, After, run, files, publisher,
     writing, history, clients
<1>8. ASSUME SetOutcome
      PROVE  EvidenceOfOutcome'
  BY <1>8 DEF TypeOK, WritesInOrder, RowsAgree, NoLateObserver,
     EvidenceOfOutcome, InTransaction, Publishable, Verdicts, Contents,
     Files, Final, SetOutcome, Undecided, run, files, publisher, writing,
     history, clients
<1>9. ASSUME BeginPublication
      PROVE  EvidenceOfOutcome'
  BY <1>9 DEF TypeOK, WritesInOrder, RowsAgree, NoLateObserver,
     EvidenceOfOutcome, InTransaction, Publishable, Verdicts, Contents,
     Files, Final, BeginPublication, run, files, publisher, writing,
     history, clients
<1>10. ASSUME CommitPublication
      PROVE  EvidenceOfOutcome'
  BY <1>10 DEF TypeOK, WritesInOrder, RowsAgree, NoLateObserver,
     EvidenceOfOutcome, InTransaction, Publishable, Verdicts, Contents,
     Files, Final, CommitPublication, run, files, publisher, writing,
     history, clients
<1>11. ASSUME Fail
      PROVE  EvidenceOfOutcome'
  BY <1>11 DEF TypeOK, WritesInOrder, RowsAgree, NoLateObserver,
     EvidenceOfOutcome, InTransaction, Publishable, Verdicts, Contents,
     Files, Final, Fail, run, files, publisher, writing, history, clients
<1>12. ASSUME Handle
      PROVE  EvidenceOfOutcome'
  BY <1>12 DEF TypeOK, WritesInOrder, RowsAgree, NoLateObserver,
     EvidenceOfOutcome, InTransaction, Publishable, Verdicts, Contents,
     Files, Final, Handle, Undecided, run, files, publisher, writing,
     history, clients
<1>13. ASSUME Release
      PROVE  EvidenceOfOutcome'
  BY <1>13 DEF TypeOK, WritesInOrder, RowsAgree, NoLateObserver,
     EvidenceOfOutcome, InTransaction, Publishable, Verdicts, Contents,
     Files, Final, Release, run, files, publisher, writing, history, clients
<1>14. ASSUME NEW c \in Clients, Ask(c)
      PROVE  EvidenceOfOutcome'
  BY <1>14 DEF TypeOK, WritesInOrder, RowsAgree, NoLateObserver,
     EvidenceOfOutcome, InTransaction, Publishable, Verdicts, Contents,
     Files, Final, Ask, run, files, publisher, writing, history, clients
<1>15. ASSUME NEW c \in Clients, ReadResult(c)
      PROVE  EvidenceOfOutcome'
  BY <1>15 DEF TypeOK, WritesInOrder, RowsAgree, NoLateObserver,
     EvidenceOfOutcome, InTransaction, Publishable, Verdicts, Contents,
     Files, Final, ReadResult, run, files, publisher, writing, history,
     clients
<1>16. ASSUME NEW c \in Clients, ReadManifest(c)
      PROVE  EvidenceOfOutcome'
  BY <1>16 DEF TypeOK, WritesInOrder, RowsAgree, NoLateObserver,
     EvidenceOfOutcome, InTransaction, Publishable, Verdicts, Contents,
     Files, Final, ReadManifest, Intact, run, files, publisher, writing,
     history, clients
<1>17. ASSUME NEW f \in Files, Damage(f)
      PROVE  EvidenceOfOutcome'
  BY <1>17 DEF TypeOK, WritesInOrder, RowsAgree, NoLateObserver,
     EvidenceOfOutcome, InTransaction, Publishable, Verdicts, Contents,
     Files, Final, Damage, run, files, publisher, writing, history, clients
<1>18. ASSUME Kill
      PROVE  EvidenceOfOutcome'
  BY <1>18 DEF TypeOK, WritesInOrder, RowsAgree, NoLateObserver,
     EvidenceOfOutcome, InTransaction, Publishable, Verdicts, Contents,
     Files, Final, Kill, Restart, run, files, publisher, writing, history,
     clients
<1>19. ASSUME PowerCut
      PROVE  EvidenceOfOutcome'
  BY <1>19 DEF TypeOK, WritesInOrder, RowsAgree, NoLateObserver,
     EvidenceOfOutcome, InTransaction, Publishable, Verdicts, Contents,
     Files, Final, PowerCut, Restart, run, files, publisher, writing,
     history, clients
<1> QED
  BY <1>0, <1>1, <1>2, <1>3, <1>4, <1>5, <1>6, <1>7, <1>8, <1>9, <1>10,
     <1>11, <1>12, <1>13, <1>14, <1>15, <1>16, <1>17, <1>18, <1>19 DEF Next

\* The initial states satisfy the invariant.
LEMMA InitInvariant == Init => IInv
<1> SUFFICES ASSUME Init PROVE IInv
  OBVIOUS
<1>1. TypeOK
  BY DEF Init, TypeOK, Files, Contents, Verdicts, Final
<1>2. WritesInOrder
  BY DEF Init, WritesInOrder, Files, InTransaction
<1>3. RowsAgree /\ ToldOutcome /\ NoLateObserver
  BY DEF Init, RowsAgree, ToldOutcome, NoLateObserver, Final, Outcome
<1>4. SucceededIsDurable /\ UnavailableMeansDamage /\ EvidenceOfOutcome
  BY DEF Init, SucceededIsDurable, UnavailableMeansDamage, EvidenceOfOutcome
<1> QED
  BY <1>1, <1>2, <1>3, <1>4 DEF IInv

\* Every step preserves the invariant.
LEMMA StepInvariant == IInv /\ [Next]_vars => IInv'
<1> SUFFICES ASSUME IInv, [Next]_vars PROVE IInv'
  OBVIOUS
<1>1. TypeOK' /\ WritesInOrder'
  BY TypeStep, WritesStep DEF IInv
<1>2. RowsAgree' /\ SucceededIsDurable'
  BY RowsStep, DurableStep DEF IInv
<1>3. ToldOutcome' /\ UnavailableMeansDamage'
  BY ToldStep, DamageStep DEF IInv
<1>4. NoLateObserver' /\ EvidenceOfOutcome'
  BY ObserverStep, EvidenceStep DEF IInv
<1> QED
  BY <1>1, <1>2, <1>3, <1>4 DEF IInv

\* Writes, rows, answers and the disk agree in every reachable state.
THEOREM Invariant == Spec => []IInv
BY InitInvariant, StepInvariant, PTL DEF Spec

\* The invariant allows one final answer besides "unavailable".
LEMMA InvariantOneAnswer == IInv => OneFinalAnswer
BY DEF IInv, ToldOutcome, OneFinalAnswer

\* Whatever one client is told for good (supervisor.py, wait and get_result),
\* no other is ever told otherwise, through every retry, failure and crash.
THEOREM OneAnswer == Spec => []OneFinalAnswer
BY Invariant, InvariantOneAnswer, PTL

\* The invariant has the success on the disk and the evidence with it.
LEMMA InvariantOnDisk ==
  IInv => SucceededIsDurable /\ UnavailableMeansDamage /\ EvidenceOfOutcome
BY DEF IInv

\* Both files of a succeeded run survive every crash (journal.py, atomic_json
\* and save_result_and_manifest).
THEOREM Durable == Spec => []SucceededIsDurable
BY Invariant, InvariantOnDisk, PTL

\* get_result fails on a succeeded run only if its files were changed by hand.
THEOREM Available == Spec => []UnavailableMeansDamage
BY Invariant, InvariantOnDisk, PTL

\* The evidence of a run that is over is of its outcome, as long as every
\* release of its context succeeds (supervisor.py, before_event).
THEOREM Evidence == Spec => []EvidenceOfOutcome
BY Invariant, InvariantOnDisk, PTL
=============================================================================
