----------------------------- MODULE HomeProofs -----------------------------
(***************************************************************************)
(* Proofs about the home directory.  HomeOwnership, for any number of      *)
(* journals, supervisors and threads: a home is generated on only under    *)
(* its lock, by its owner, and never on top of an unresolved intent.       *)
(* HomeSecrets, for any keys, secrets and runs: without a loss of the      *)
(* secret a key names one run and every run can be read; with one, an      *)
(* unresolved run still blocks.                                            *)
(***************************************************************************)
EXTENDS HomeOwnership, HomeSecrets, TLAPS

USE HomeAssumption, SecretAssumption

-----------------------------------------------------------------------------
\* Who may generate

\* Every step keeps the types.
LEMMA TypeStep ==
  ASSUME TypeOK, [Next]_vars
  PROVE  TypeOK'
<1>0. CASE UNCHANGED vars
  BY <1>0
    DEF TypeOK, Places, Inside, Open, calls, ledger, flags, vars, Before, InTransaction,
        Committed
<1>1. ASSUME NEW j \in Journals, LockHome(j)
      PROVE  TypeOK'
  BY <1>1
    DEF TypeOK, Places, Inside, Open, LockHome, MayLock, calls, ledger, flags, Before,
        InTransaction, Committed
<1>2. ASSUME NEW j \in Journals, OpenJournal(j)
      PROVE  TypeOK'
  BY <1>2
    DEF TypeOK, Places, Inside, Open, OpenJournal, calls, ledger, flags, Before,
        InTransaction, Committed
<1>3. ASSUME NEW j \in Journals, Crash(j)
      PROVE  TypeOK'
  BY <1>3
    DEF TypeOK, Places, Inside, Open, Crash, calls, ledger, flags, Before,
        InTransaction, Committed
<1>4. ASSUME NEW j \in Journals, BeginClose(j)
      PROVE  TypeOK'
  BY <1>4
    DEF TypeOK, Places, Inside, Open, BeginClose, Building, calls, ledger, flags,
        Before, InTransaction, Committed
<1>5. ASSUME NEW j \in Journals, Join(j)
      PROVE  TypeOK'
  <2>1. faulted' \in [Supervisors -> BOOLEAN]
    BY <1>5 DEF TypeOK, Join
  <2>2. closer' \in [Journals -> {"none", "stopping", "joined", "checked", "shut"}]
    BY <1>5 DEF TypeOK, Join
  <2> QED
    BY <1>5, <2>1, <2>2 DEF TypeOK, Join, calls, ledger
<1>6. ASSUME NEW j \in Journals, CheckIdle(j)
      PROVE  TypeOK'
  BY <1>6
    DEF TypeOK, Places, Inside, Open, CheckIdle, Idle, calls, ledger, flags, Before,
        InTransaction, Committed
<1>7. ASSUME NEW j \in Journals, CloseTransport(j)
      PROVE  TypeOK'
  BY <1>7
    DEF TypeOK, Places, Inside, Open, CloseTransport, calls, ledger, flags, Before,
        InTransaction, Committed
<1>8. ASSUME NEW j \in Journals, Release(j)
      PROVE  TypeOK'
  BY <1>8
    DEF TypeOK, Places, Inside, Open, Release, ConnectionFree, calls, ledger, flags,
        Before, InTransaction, Committed
<1>9. ASSUME NEW s \in Supervisors, CheckPrevious(s)
      PROVE  TypeOK'
  BY <1>9
    DEF TypeOK, Places, Inside, Open, CheckPrevious, Active, Building, calls, ledger,
        flags, Before, InTransaction, Committed
<1>10. ASSUME NEW s \in Supervisors, Supersede(s)
      PROVE  TypeOK'
  BY <1>10
    DEF TypeOK, Places, Inside, Open, Supersede, calls, ledger, flags, Before,
        InTransaction, Committed
<1>11. ASSUME NEW s \in Supervisors, TakeOver(s)
      PROVE  TypeOK'
  <2>1. sup' \in [Supervisors -> {"new", "checked", "superseding", "live", "failed"}]
    BY <1>11 DEF TypeOK, TakeOver
  <2>2. owner' \in [Journals -> Supervisors \cup {NoSupervisor}]
    BY <1>11 DEF TypeOK, TakeOver
  <2>3. uncertain' \subseteq intents'
    BY <1>11 DEF TypeOK, TakeOver, Recovered
  <2> QED
    BY <1>11, <2>1, <2>2, <2>3 DEF TypeOK, TakeOver, calls, flags
<1>12. ASSUME NEW s \in Supervisors, StartWorker(s)
      PROVE  TypeOK'
  BY <1>12
    DEF TypeOK, Places, Inside, Open, StartWorker, calls, ledger, flags, Before,
        InTransaction, Committed
<1>13. ASSUME NEW s \in Supervisors, WorkerEnds(s)
      PROVE  TypeOK'
  BY <1>13
    DEF TypeOK, Places, Inside, Open, WorkerEnds, calls, ledger, flags, Before,
        InTransaction, Committed
<1>14. ASSUME NEW s \in Supervisors, NEW t \in Threads, Ensure(s, t)
      PROVE  TypeOK'
  <2>1. pc' = [pc EXCEPT ![s][t] = "ensured"]
    BY <1>14 DEF Ensure, GoTo
  <2>2. UNCHANGED <<flock, journal, owner, closer, sup, superseded, stop, shut,
                    faulted, worker, gen, intents, uncertain, receipts>>
       /\ sup[s] = "live" /\ pc[s][t] = "idle"
    BY <1>14 DEF Ensure, ledger, flags
  <2> QED
    BY <2>1, <2>2 DEF TypeOK, Places, Inside, Before, InTransaction, Committed
<1>15. ASSUME NEW s \in Supervisors, NEW t \in Threads, Take(s, t)
      PROVE  TypeOK'
  <2>1. CASE gen[s] = NoThread /\ gen' = [gen EXCEPT ![s] = t]
    <3>1. PICK place \in {"looking", "locked", "idle"} : pc' = [pc EXCEPT ![s][t] = place]
      BY <1>15, <2>1 DEF Take, GoTo
    <3>2. UNCHANGED <<flock, journal, owner, closer, sup, superseded, stop, shut,
                      faulted, worker, intents, uncertain, receipts>>
      BY <1>15 DEF Take, ledger, flags
    <3>3. pc[s][t] = "ensured"
      BY <1>15 DEF Take
    <3> QED
      BY <2>1, <3>1, <3>2, <3>3
        DEF TypeOK, Places, Inside, Before, InTransaction, Committed
  <2>2. CASE GoTo(s, t, "idle") /\ UNCHANGED gen
    BY <1>15, <2>2
      DEF Take, GoTo, ledger, flags, TypeOK, Places, Inside, Before, InTransaction,
          Committed
  <2> QED
    BY <1>15, <2>1, <2>2 DEF Take
<1>16. ASSUME NEW s \in Supervisors, NEW t \in Threads, Admit(s, t)
      PROVE  TypeOK'
  BY <1>16
    DEF TypeOK, Places, Inside, Open, Admit, Latch, GoTo, InTransaction, calls, ledger,
        flags, Before, Committed
<1>17. ASSUME NEW s \in Supervisors, NEW t \in Threads, Commit(s, t)
      PROVE  TypeOK'
  BY <1>17
    DEF TypeOK, Places, Inside, Open, Commit, GoTo, InTransaction, Committed, calls,
        ledger, flags, Before
<1>18. ASSUME NEW s \in Supervisors, NEW t \in Threads, Leave(s, t)
      PROVE  TypeOK'
  BY <1>18
    DEF TypeOK, Places, Inside, Open, Leave, GoTo, MayFault, Decidable, Recoverable,
        calls, ledger, flags, Before, InTransaction, Committed
<1>19. ASSUME NEW s \in Supervisors, NEW t \in Threads, Call(s, t)
      PROVE  TypeOK'
  BY <1>19
    DEF TypeOK, Places, Inside, Open, Call, GoTo, calls, ledger, flags, Before,
        InTransaction, Committed
<1>20. ASSUME NEW s \in Supervisors, NEW t \in Threads, SaveReceipt(s, t)
      PROVE  TypeOK'
  BY <1>20
    DEF TypeOK, Places, Inside, Open, SaveReceipt, ConnectionFree, calls, ledger, flags,
        Before, InTransaction, Committed
<1> QED
  BY <1>0, <1>1, <1>2, <1>3, <1>4, <1>5, <1>6, <1>7, <1>8, <1>9, <1>10, <1>11,
     <1>12, <1>13, <1>14, <1>15, <1>16, <1>17, <1>18, <1>19, <1>20 DEF Next

\* Every step keeps the lock and the journals in agreement.
LEMMA LockStep ==
  ASSUME TypeOK, HomeLockAgrees, ClosesInOrder, [Next]_vars
  PROVE  HomeLockAgrees'
<1>0. CASE UNCHANGED vars
  BY <1>0 DEF TypeOK, HomeLockAgrees, ClosesInOrder, calls, ledger, flags, vars
<1>1. ASSUME NEW j \in Journals, LockHome(j)
      PROVE  HomeLockAgrees'
  BY <1>1
    DEF TypeOK, HomeLockAgrees, ClosesInOrder, LockHome, MayLock, calls, ledger, flags
<1>2. ASSUME NEW j \in Journals, OpenJournal(j)
      PROVE  HomeLockAgrees'
  BY <1>2 DEF TypeOK, HomeLockAgrees, ClosesInOrder, OpenJournal, calls, ledger, flags
<1>3. ASSUME NEW j \in Journals, Crash(j)
      PROVE  HomeLockAgrees'
  BY <1>3 DEF TypeOK, HomeLockAgrees, ClosesInOrder, Crash, calls, ledger, flags
<1>4. ASSUME NEW j \in Journals, BeginClose(j)
      PROVE  HomeLockAgrees'
  BY <1>4
    DEF TypeOK, HomeLockAgrees, ClosesInOrder, BeginClose, Building, calls, ledger,
        flags
<1>5. ASSUME NEW j \in Journals, Join(j)
      PROVE  HomeLockAgrees'
  BY <1>5 DEF TypeOK, HomeLockAgrees, ClosesInOrder, Join, calls, ledger, flags
<1>6. ASSUME NEW j \in Journals, CheckIdle(j)
      PROVE  HomeLockAgrees'
  BY <1>6
    DEF TypeOK, HomeLockAgrees, ClosesInOrder, CheckIdle, Idle, calls, ledger, flags
<1>7. ASSUME NEW j \in Journals, CloseTransport(j)
      PROVE  HomeLockAgrees'
  BY <1>7
    DEF TypeOK, HomeLockAgrees, ClosesInOrder, CloseTransport, calls, ledger, flags
<1>8. ASSUME NEW j \in Journals, Release(j)
      PROVE  HomeLockAgrees'
  BY <1>8
    DEF TypeOK, HomeLockAgrees, ClosesInOrder, Release, ConnectionFree, calls, ledger,
        flags
<1>9. ASSUME NEW s \in Supervisors, CheckPrevious(s)
      PROVE  HomeLockAgrees'
  BY <1>9
    DEF TypeOK, HomeLockAgrees, ClosesInOrder, CheckPrevious, Active, Building, calls,
        ledger, flags
<1>10. ASSUME NEW s \in Supervisors, Supersede(s)
      PROVE  HomeLockAgrees'
  BY <1>10 DEF TypeOK, HomeLockAgrees, ClosesInOrder, Supersede, calls, ledger, flags
<1>11. ASSUME NEW s \in Supervisors, TakeOver(s)
      PROVE  HomeLockAgrees'
  BY <1>11
    DEF TypeOK, HomeLockAgrees, ClosesInOrder, TakeOver, Recovered, ConnectionFree,
        calls, ledger, flags
<1>12. ASSUME NEW s \in Supervisors, StartWorker(s)
      PROVE  HomeLockAgrees'
  BY <1>12 DEF TypeOK, HomeLockAgrees, ClosesInOrder, StartWorker, calls, ledger, flags
<1>13. ASSUME NEW s \in Supervisors, WorkerEnds(s)
      PROVE  HomeLockAgrees'
  BY <1>13 DEF TypeOK, HomeLockAgrees, ClosesInOrder, WorkerEnds, calls, ledger, flags
<1>14. ASSUME NEW s \in Supervisors, NEW t \in Threads, Ensure(s, t)
      PROVE  HomeLockAgrees'
  BY <1>14 DEF TypeOK, HomeLockAgrees, ClosesInOrder, Ensure, GoTo, calls, ledger, flags
<1>15. ASSUME NEW s \in Supervisors, NEW t \in Threads, Take(s, t)
      PROVE  HomeLockAgrees'
  BY <1>15 DEF TypeOK, HomeLockAgrees, ClosesInOrder, Take, GoTo, calls, ledger, flags
<1>16. ASSUME NEW s \in Supervisors, NEW t \in Threads, Admit(s, t)
      PROVE  HomeLockAgrees'
  BY <1>16
    DEF TypeOK, HomeLockAgrees, ClosesInOrder, Admit, Latch, GoTo, InTransaction, calls,
        ledger, flags
<1>17. ASSUME NEW s \in Supervisors, NEW t \in Threads, Commit(s, t)
      PROVE  HomeLockAgrees'
  BY <1>17
    DEF TypeOK, HomeLockAgrees, ClosesInOrder, Commit, GoTo, InTransaction, Committed,
        calls, ledger, flags
<1>18. ASSUME NEW s \in Supervisors, NEW t \in Threads, Leave(s, t)
      PROVE  HomeLockAgrees'
  BY <1>18
    DEF TypeOK, HomeLockAgrees, ClosesInOrder, Leave, GoTo, MayFault, Decidable,
        Recoverable, calls, ledger, flags
<1>19. ASSUME NEW s \in Supervisors, NEW t \in Threads, Call(s, t)
      PROVE  HomeLockAgrees'
  BY <1>19 DEF TypeOK, HomeLockAgrees, ClosesInOrder, Call, GoTo, calls, ledger, flags
<1>20. ASSUME NEW s \in Supervisors, NEW t \in Threads, SaveReceipt(s, t)
      PROVE  HomeLockAgrees'
  BY <1>20
    DEF TypeOK, HomeLockAgrees, ClosesInOrder, SaveReceipt, ConnectionFree, calls,
        ledger, flags
<1> QED
  BY <1>0, <1>1, <1>2, <1>3, <1>4, <1>5, <1>6, <1>7, <1>8, <1>9, <1>10, <1>11,
     <1>12, <1>13, <1>14, <1>15, <1>16, <1>17, <1>18, <1>19, <1>20 DEF Next

\* Every step keeps the generation lock with the thread that is inside.
LEMMA CallsStep ==
  ASSUME TypeOK, CallsAreLive, SupervisorsOfJournals, HomeLockAgrees,
         [Next]_vars
  PROVE  CallsAreLive'
<1>0. CASE UNCHANGED vars
  BY <1>0
    DEF TypeOK, CallsAreLive, Inside, Places, InTransaction, Committed, Open, calls,
        ledger, flags, vars, Before
<1>1. ASSUME NEW j \in Journals, LockHome(j)
      PROVE  CallsAreLive'
  BY <1>1
    DEF TypeOK, CallsAreLive, Inside, Places, InTransaction, Committed, Open, LockHome,
        MayLock, calls, ledger, flags, Before
<1>2. ASSUME NEW j \in Journals, OpenJournal(j)
      PROVE  CallsAreLive'
  BY <1>2
    DEF TypeOK, CallsAreLive, Inside, Places, InTransaction, Committed, Open,
        OpenJournal, calls, ledger, flags, Before
<1>3. ASSUME NEW j \in Journals, Crash(j)
      PROVE  CallsAreLive'
  BY <1>3
    DEF TypeOK, CallsAreLive, Inside, Places, InTransaction, Committed, Open, Crash,
        calls, ledger, flags, Before
<1>4. ASSUME NEW j \in Journals, BeginClose(j)
      PROVE  CallsAreLive'
  BY <1>4
    DEF TypeOK, CallsAreLive, Inside, Places, InTransaction, Committed, Open,
        BeginClose, Building, calls, ledger, flags, Before
<1>5. ASSUME NEW j \in Journals, Join(j)
      PROVE  CallsAreLive'
  BY <1>5
    DEF TypeOK, CallsAreLive, Inside, Places, InTransaction, Committed, Open, Join,
        calls, ledger, flags, Before
<1>6. ASSUME NEW j \in Journals, CheckIdle(j)
      PROVE  CallsAreLive'
  BY <1>6
    DEF TypeOK, CallsAreLive, Inside, Places, InTransaction, Committed, Open, CheckIdle,
        Idle, calls, ledger, flags, Before
<1>7. ASSUME NEW j \in Journals, CloseTransport(j)
      PROVE  CallsAreLive'
  BY <1>7
    DEF TypeOK, CallsAreLive, Inside, Places, InTransaction, Committed, Open,
        CloseTransport, calls, ledger, flags, Before
<1>8. ASSUME NEW j \in Journals, Release(j)
      PROVE  CallsAreLive'
  BY <1>8
    DEF TypeOK, CallsAreLive, Inside, Places, InTransaction, Committed, Open, Release,
        ConnectionFree, calls, ledger, flags, Before
<1>9. ASSUME NEW s \in Supervisors, CheckPrevious(s)
      PROVE  CallsAreLive'
  BY <1>9
    DEF TypeOK, CallsAreLive, Inside, Places, InTransaction, Committed, Open,
        CheckPrevious, Active, Building, calls, ledger, flags, Before
<1>10. ASSUME NEW s \in Supervisors, Supersede(s)
      PROVE  CallsAreLive'
  BY <1>10
    DEF TypeOK, CallsAreLive, Inside, Places, InTransaction, Committed, Open, Supersede,
        calls, ledger, flags, Before
<1>11. ASSUME NEW s \in Supervisors, TakeOver(s)
      PROVE  CallsAreLive'
  BY <1>11
    DEF TypeOK, CallsAreLive, Inside, Places, InTransaction, Committed, Open, TakeOver,
        Recovered, ConnectionFree, calls, ledger, flags, Before
<1>12. ASSUME NEW s \in Supervisors, StartWorker(s)
      PROVE  CallsAreLive'
  BY <1>12
    DEF TypeOK, CallsAreLive, Inside, Places, InTransaction, Committed, Open,
        StartWorker, calls, ledger, flags, Before
<1>13. ASSUME NEW s \in Supervisors, WorkerEnds(s)
      PROVE  CallsAreLive'
  BY <1>13
    DEF TypeOK, CallsAreLive, Inside, Places, InTransaction, Committed, Open,
        WorkerEnds, calls, ledger, flags, Before
<1>14. ASSUME NEW s \in Supervisors, NEW t \in Threads, Ensure(s, t)
      PROVE  CallsAreLive'
  <2>1. pc' = [pc EXCEPT ![s][t] = "ensured"]
    BY <1>14 DEF Ensure, GoTo
  <2>2. UNCHANGED <<flock, journal, owner, closer, sup, superseded, stop, shut,
                    faulted, worker, gen, intents, uncertain, receipts>>
       /\ sup[s] = "live" /\ pc[s][t] = "idle"
    BY <1>14 DEF Ensure, ledger, flags
  <2> QED
    BY <2>1, <2>2
      DEF TypeOK, CallsAreLive, Inside, InTransaction, Open, Places, Before, Committed
<1>15. ASSUME NEW s \in Supervisors, NEW t \in Threads, Take(s, t)
      PROVE  CallsAreLive'
  <2>1. CASE gen[s] = NoThread /\ gen' = [gen EXCEPT ![s] = t]
    <3>1. PICK place \in {"looking", "locked", "idle"} : pc' = [pc EXCEPT ![s][t] = place]
      BY <1>15, <2>1 DEF Take, GoTo
    <3>2. UNCHANGED <<flock, journal, owner, closer, sup, superseded, stop, shut,
                      faulted, worker, intents, uncertain, receipts>>
      BY <1>15 DEF Take, ledger, flags
    <3>3. pc[s][t] = "ensured"
      BY <1>15 DEF Take
    <3> QED
      BY <2>1, <3>1, <3>2, <3>3
        DEF TypeOK, CallsAreLive, Inside, InTransaction, Open, Places, Before, Committed
  <2>2. CASE GoTo(s, t, "idle") /\ UNCHANGED gen
    BY <1>15, <2>2
      DEF Take, GoTo, ledger, flags, TypeOK, CallsAreLive, Inside, InTransaction, Open,
          Places, Before, Committed
  <2> QED
    BY <1>15, <2>1, <2>2 DEF Take
<1>16. ASSUME NEW s \in Supervisors, NEW t \in Threads, Admit(s, t)
      PROVE  CallsAreLive'
  BY <1>16
    DEF TypeOK, CallsAreLive, Inside, Places, InTransaction, Committed, Open, Admit,
        Latch, GoTo, calls, ledger, flags, Before
<1>17. ASSUME NEW s \in Supervisors, NEW t \in Threads, Commit(s, t)
      PROVE  CallsAreLive'
  BY <1>17
    DEF TypeOK, CallsAreLive, Inside, Places, InTransaction, Committed, Open, Commit,
        GoTo, calls, ledger, flags, Before
<1>18. ASSUME NEW s \in Supervisors, NEW t \in Threads, Leave(s, t)
      PROVE  CallsAreLive'
  BY <1>18
    DEF TypeOK, CallsAreLive, Inside, Places, InTransaction, Committed, Open, Leave,
        GoTo, MayFault, Decidable, Recoverable, calls, ledger, flags, Before
<1>19. ASSUME NEW s \in Supervisors, NEW t \in Threads, Call(s, t)
      PROVE  CallsAreLive'
  BY <1>19
    DEF TypeOK, CallsAreLive, Inside, Places, InTransaction, Committed, Open, Call,
        GoTo, calls, ledger, flags, Before
<1>20. ASSUME NEW s \in Supervisors, NEW t \in Threads, SaveReceipt(s, t)
      PROVE  CallsAreLive'
  BY <1>20
    DEF TypeOK, CallsAreLive, Inside, Places, InTransaction, Committed, Open,
        SaveReceipt, ConnectionFree, calls, ledger, flags, Before
<1> QED
  BY <1>0, <1>1, <1>2, <1>3, <1>4, <1>5, <1>6, <1>7, <1>8, <1>9, <1>10, <1>11,
     <1>12, <1>13, <1>14, <1>15, <1>16, <1>17, <1>18, <1>19, <1>20 DEF Next

\* Every step keeps supervisors with their journals.
LEMMA SupervisorsStep ==
  ASSUME TypeOK, HomeLockAgrees, SupervisorsOfJournals, ClosesInOrder,
         [Next]_vars
  PROVE  SupervisorsOfJournals'
<1>0. CASE UNCHANGED vars
  BY <1>0
    DEF TypeOK, HomeLockAgrees, SupervisorsOfJournals, ClosesInOrder, Open, Building,
        calls, ledger, flags, vars
<1>1. ASSUME NEW j \in Journals, LockHome(j)
      PROVE  SupervisorsOfJournals'
  BY <1>1
    DEF TypeOK, HomeLockAgrees, SupervisorsOfJournals, ClosesInOrder, Open, Building,
        LockHome, MayLock, calls, ledger, flags
<1>2. ASSUME NEW j \in Journals, OpenJournal(j)
      PROVE  SupervisorsOfJournals'
  BY <1>2
    DEF TypeOK, HomeLockAgrees, SupervisorsOfJournals, ClosesInOrder, Open, Building,
        OpenJournal, calls, ledger, flags
<1>3. ASSUME NEW j \in Journals, Crash(j)
      PROVE  SupervisorsOfJournals'
  <2>1. /\ \A s \in Supervisors :
              IF Home[s] = j THEN sup'[s] = "failed"
              ELSE sup'[s] = sup[s] /\ superseded'[s] = superseded[s]
        /\ \A i \in Journals :
              IF i = j THEN owner'[i] = NoSupervisor
              ELSE /\ owner'[i] = owner[i] /\ journal'[i] = journal[i]
                   /\ closer'[i] = closer[i]
    BY <1>3 DEF TypeOK, Crash
  <2>2. \A s \in Supervisors : Home[s] \in Journals
    OBVIOUS
  <2>3. \A s \in Supervisors : (Building(s)' <=> Home[s] # j /\ Building(s))
    BY <2>1 DEF Building
  <2>4. \A i \in Journals : owner'[i] # NoSupervisor =>
           i # j /\ owner[i] = owner'[i] /\ owner[i] \in Supervisors /\ Home[owner[i]] = i
    BY <2>1 DEF SupervisorsOfJournals, TypeOK
  <2>5. ASSUME NEW s \in Supervisors
        PROVE  /\ sup'[s] = "live" => journal'[Home[s]] \in {"open", "closed"}
               /\ Building(s)' => Open(s)' /\ closer'[Home[s]] = "none"
               /\ sup'[s] = "superseding" /\ owner'[Home[s]] # NoSupervisor
                     => superseded'[owner'[Home[s]]]
    BY <2>1, <2>2, <2>3, <2>4 DEF SupervisorsOfJournals, Open
  <2>6. \A s, o \in Supervisors :
           Building(s)' /\ Building(o)' /\ Home[s] = Home[o] => s = o
    BY <2>3 DEF SupervisorsOfJournals
  <2> QED
    BY <2>4, <2>5, <2>6 DEF SupervisorsOfJournals, Open, Building
<1>4. ASSUME NEW j \in Journals, BeginClose(j)
      PROVE  SupervisorsOfJournals'
  BY <1>4
    DEF TypeOK, HomeLockAgrees, SupervisorsOfJournals, ClosesInOrder, Open, Building,
        BeginClose, calls, ledger, flags
<1>5. ASSUME NEW j \in Journals, Join(j)
      PROVE  SupervisorsOfJournals'
  BY <1>5
    DEF TypeOK, HomeLockAgrees, SupervisorsOfJournals, ClosesInOrder, Open, Building,
        Join, calls, ledger, flags
<1>6. ASSUME NEW j \in Journals, CheckIdle(j)
      PROVE  SupervisorsOfJournals'
  BY <1>6
    DEF TypeOK, HomeLockAgrees, SupervisorsOfJournals, ClosesInOrder, Open, Building,
        CheckIdle, Idle, calls, ledger, flags
<1>7. ASSUME NEW j \in Journals, CloseTransport(j)
      PROVE  SupervisorsOfJournals'
  BY <1>7
    DEF TypeOK, HomeLockAgrees, SupervisorsOfJournals, ClosesInOrder, Open, Building,
        CloseTransport, calls, ledger, flags
<1>8. ASSUME NEW j \in Journals, Release(j)
      PROVE  SupervisorsOfJournals'
  BY <1>8
    DEF TypeOK, HomeLockAgrees, SupervisorsOfJournals, ClosesInOrder, Open, Building,
        Release, ConnectionFree, calls, ledger, flags
<1>9. ASSUME NEW s \in Supervisors, CheckPrevious(s)
      PROVE  SupervisorsOfJournals'
  BY <1>9
    DEF TypeOK, HomeLockAgrees, SupervisorsOfJournals, ClosesInOrder, Open, Building,
        CheckPrevious, Active, calls, ledger, flags
<1>10. ASSUME NEW s \in Supervisors, Supersede(s)
      PROVE  SupervisorsOfJournals'
  <2>1. /\ sup[s] = "checked" /\ sup' = [sup EXCEPT ![s] = "superseding"]
        /\ UNCHANGED <<journal, owner, closer>>
    BY <1>10 DEF Supersede
  <2>2. \A o \in Supervisors : superseded'[o] <=> superseded[o] \/ o = owner[Home[s]]
    BY <1>10 DEF Supersede, TypeOK
  <2>3. \A o \in Supervisors : Building(o)' <=> Building(o)
    BY <2>1 DEF Building, TypeOK
  <2>4. \A o \in Supervisors : sup'[o] \in {"live", "superseding"} => sup'[o] = sup[o] \/ o = s
    BY <2>1 DEF TypeOK
  <2> QED
    BY <2>1, <2>2, <2>3, <2>4 DEF SupervisorsOfJournals, TypeOK, Open
<1>11. ASSUME NEW s \in Supervisors, TakeOver(s)
      PROVE  SupervisorsOfJournals'
  BY <1>11
    DEF TypeOK, HomeLockAgrees, SupervisorsOfJournals, ClosesInOrder, Open, Building,
        TakeOver, Recovered, ConnectionFree, calls, ledger, flags
<1>12. ASSUME NEW s \in Supervisors, StartWorker(s)
      PROVE  SupervisorsOfJournals'
  BY <1>12
    DEF TypeOK, HomeLockAgrees, SupervisorsOfJournals, ClosesInOrder, Open, Building,
        StartWorker, calls, ledger, flags
<1>13. ASSUME NEW s \in Supervisors, WorkerEnds(s)
      PROVE  SupervisorsOfJournals'
  BY <1>13
    DEF TypeOK, HomeLockAgrees, SupervisorsOfJournals, ClosesInOrder, Open, Building,
        WorkerEnds, calls, ledger, flags
<1>14. ASSUME NEW s \in Supervisors, NEW t \in Threads, Ensure(s, t)
      PROVE  SupervisorsOfJournals'
  BY <1>14
    DEF TypeOK, HomeLockAgrees, SupervisorsOfJournals, ClosesInOrder, Open, Building,
        Ensure, GoTo, calls, ledger, flags
<1>15. ASSUME NEW s \in Supervisors, NEW t \in Threads, Take(s, t)
      PROVE  SupervisorsOfJournals'
  BY <1>15
    DEF TypeOK, HomeLockAgrees, SupervisorsOfJournals, ClosesInOrder, Open, Building,
        Take, GoTo, calls, ledger, flags
<1>16. ASSUME NEW s \in Supervisors, NEW t \in Threads, Admit(s, t)
      PROVE  SupervisorsOfJournals'
  BY <1>16
    DEF TypeOK, HomeLockAgrees, SupervisorsOfJournals, ClosesInOrder, Open, Building,
        Admit, Latch, GoTo, InTransaction, calls, ledger, flags
<1>17. ASSUME NEW s \in Supervisors, NEW t \in Threads, Commit(s, t)
      PROVE  SupervisorsOfJournals'
  BY <1>17
    DEF TypeOK, HomeLockAgrees, SupervisorsOfJournals, ClosesInOrder, Open, Building,
        Commit, GoTo, InTransaction, Committed, calls, ledger, flags
<1>18. ASSUME NEW s \in Supervisors, NEW t \in Threads, Leave(s, t)
      PROVE  SupervisorsOfJournals'
  BY <1>18
    DEF TypeOK, HomeLockAgrees, SupervisorsOfJournals, ClosesInOrder, Open, Building,
        Leave, GoTo, MayFault, Decidable, Recoverable, calls, ledger, flags
<1>19. ASSUME NEW s \in Supervisors, NEW t \in Threads, Call(s, t)
      PROVE  SupervisorsOfJournals'
  BY <1>19
    DEF TypeOK, HomeLockAgrees, SupervisorsOfJournals, ClosesInOrder, Open, Building,
        Call, GoTo, calls, ledger, flags
<1>20. ASSUME NEW s \in Supervisors, NEW t \in Threads, SaveReceipt(s, t)
      PROVE  SupervisorsOfJournals'
  BY <1>20
    DEF TypeOK, HomeLockAgrees, SupervisorsOfJournals, ClosesInOrder, Open, Building,
        SaveReceipt, ConnectionFree, calls, ledger, flags
<1> QED
  BY <1>0, <1>1, <1>2, <1>3, <1>4, <1>5, <1>6, <1>7, <1>8, <1>9, <1>10, <1>11,
     <1>12, <1>13, <1>14, <1>15, <1>16, <1>17, <1>18, <1>19, <1>20 DEF Next

\* Every step keeps the stages of close() in order.
LEMMA ClosesStep ==
  ASSUME TypeOK, HomeLockAgrees, SupervisorsOfJournals, ClosesInOrder,
         [Next]_vars
  PROVE  ClosesInOrder'
<1>0. CASE UNCHANGED vars
  BY <1>0
    DEF TypeOK, HomeLockAgrees, SupervisorsOfJournals, ClosesInOrder, Open, Building,
        calls, ledger, flags, vars
<1>1. ASSUME NEW j \in Journals, LockHome(j)
      PROVE  ClosesInOrder'
  BY <1>1
    DEF TypeOK, HomeLockAgrees, SupervisorsOfJournals, ClosesInOrder, Open, Building,
        LockHome, MayLock, calls, ledger, flags
<1>2. ASSUME NEW j \in Journals, OpenJournal(j)
      PROVE  ClosesInOrder'
  BY <1>2
    DEF TypeOK, HomeLockAgrees, SupervisorsOfJournals, ClosesInOrder, Open, Building,
        OpenJournal, calls, ledger, flags
<1>3. ASSUME NEW j \in Journals, Crash(j)
      PROVE  ClosesInOrder'
  BY <1>3
    DEF TypeOK, HomeLockAgrees, SupervisorsOfJournals, ClosesInOrder, Open, Building,
        Crash, calls, ledger, flags
<1>4. ASSUME NEW j \in Journals, BeginClose(j)
      PROVE  ClosesInOrder'
  BY <1>4
    DEF TypeOK, HomeLockAgrees, SupervisorsOfJournals, ClosesInOrder, Open, Building,
        BeginClose, calls, ledger, flags
<1>5. ASSUME NEW j \in Journals, Join(j)
      PROVE  ClosesInOrder'
  BY <1>5
    DEF TypeOK, HomeLockAgrees, SupervisorsOfJournals, ClosesInOrder, Open, Building,
        Join, calls, ledger, flags
<1>6. ASSUME NEW j \in Journals, CheckIdle(j)
      PROVE  ClosesInOrder'
  BY <1>6
    DEF TypeOK, HomeLockAgrees, SupervisorsOfJournals, ClosesInOrder, Open, Building,
        CheckIdle, Idle, calls, ledger, flags
<1>7. ASSUME NEW j \in Journals, CloseTransport(j)
      PROVE  ClosesInOrder'
  BY <1>7
    DEF TypeOK, HomeLockAgrees, SupervisorsOfJournals, ClosesInOrder, Open, Building,
        CloseTransport, calls, ledger, flags
<1>8. ASSUME NEW j \in Journals, Release(j)
      PROVE  ClosesInOrder'
  BY <1>8
    DEF TypeOK, HomeLockAgrees, SupervisorsOfJournals, ClosesInOrder, Open, Building,
        Release, ConnectionFree, calls, ledger, flags
<1>9. ASSUME NEW s \in Supervisors, CheckPrevious(s)
      PROVE  ClosesInOrder'
  BY <1>9
    DEF TypeOK, HomeLockAgrees, SupervisorsOfJournals, ClosesInOrder, Open, Building,
        CheckPrevious, Active, calls, ledger, flags
<1>10. ASSUME NEW s \in Supervisors, Supersede(s)
      PROVE  ClosesInOrder'
  BY <1>10
    DEF TypeOK, HomeLockAgrees, SupervisorsOfJournals, ClosesInOrder, Open, Building,
        Supersede, calls, ledger, flags
<1>11. ASSUME NEW s \in Supervisors, TakeOver(s)
      PROVE  ClosesInOrder'
  BY <1>11
    DEF TypeOK, HomeLockAgrees, SupervisorsOfJournals, ClosesInOrder, Open, Building,
        TakeOver, Recovered, ConnectionFree, calls, ledger, flags
<1>12. ASSUME NEW s \in Supervisors, StartWorker(s)
      PROVE  ClosesInOrder'
  BY <1>12
    DEF TypeOK, HomeLockAgrees, SupervisorsOfJournals, ClosesInOrder, Open, Building,
        StartWorker, calls, ledger, flags
<1>13. ASSUME NEW s \in Supervisors, WorkerEnds(s)
      PROVE  ClosesInOrder'
  BY <1>13
    DEF TypeOK, HomeLockAgrees, SupervisorsOfJournals, ClosesInOrder, Open, Building,
        WorkerEnds, calls, ledger, flags
<1>14. ASSUME NEW s \in Supervisors, NEW t \in Threads, Ensure(s, t)
      PROVE  ClosesInOrder'
  BY <1>14
    DEF TypeOK, HomeLockAgrees, SupervisorsOfJournals, ClosesInOrder, Open, Building,
        Ensure, GoTo, calls, ledger, flags
<1>15. ASSUME NEW s \in Supervisors, NEW t \in Threads, Take(s, t)
      PROVE  ClosesInOrder'
  BY <1>15
    DEF TypeOK, HomeLockAgrees, SupervisorsOfJournals, ClosesInOrder, Open, Building,
        Take, GoTo, calls, ledger, flags
<1>16. ASSUME NEW s \in Supervisors, NEW t \in Threads, Admit(s, t)
      PROVE  ClosesInOrder'
  BY <1>16
    DEF TypeOK, HomeLockAgrees, SupervisorsOfJournals, ClosesInOrder, Open, Building,
        Admit, Latch, GoTo, InTransaction, calls, ledger, flags
<1>17. ASSUME NEW s \in Supervisors, NEW t \in Threads, Commit(s, t)
      PROVE  ClosesInOrder'
  BY <1>17
    DEF TypeOK, HomeLockAgrees, SupervisorsOfJournals, ClosesInOrder, Open, Building,
        Commit, GoTo, InTransaction, Committed, calls, ledger, flags
<1>18. ASSUME NEW s \in Supervisors, NEW t \in Threads, Leave(s, t)
      PROVE  ClosesInOrder'
  BY <1>18
    DEF TypeOK, HomeLockAgrees, SupervisorsOfJournals, ClosesInOrder, Open, Building,
        Leave, GoTo, MayFault, Decidable, Recoverable, calls, ledger, flags
<1>19. ASSUME NEW s \in Supervisors, NEW t \in Threads, Call(s, t)
      PROVE  ClosesInOrder'
  BY <1>19
    DEF TypeOK, HomeLockAgrees, SupervisorsOfJournals, ClosesInOrder, Open, Building,
        Call, GoTo, calls, ledger, flags
<1>20. ASSUME NEW s \in Supervisors, NEW t \in Threads, SaveReceipt(s, t)
      PROVE  ClosesInOrder'
  BY <1>20
    DEF TypeOK, HomeLockAgrees, SupervisorsOfJournals, ClosesInOrder, Open, Building,
        SaveReceipt, ConnectionFree, calls, ledger, flags
<1> QED
  BY <1>0, <1>1, <1>2, <1>3, <1>4, <1>5, <1>6, <1>7, <1>8, <1>9, <1>10, <1>11,
     <1>12, <1>13, <1>14, <1>15, <1>16, <1>17, <1>18, <1>19, <1>20 DEF Next

\* Every step leaves an owner quiet once close() has seen its lock free.
LEMMA QuietStep ==
  ASSUME TypeOK, CallsAreLive, SupervisorsOfJournals, ClosesInOrder,
         QuietOnceChecked, [Next]_vars
  PROVE  QuietOnceChecked'
<1>0. CASE UNCHANGED vars
  BY <1>0
    DEF TypeOK, CallsAreLive, SupervisorsOfJournals, ClosesInOrder, QuietOnceChecked,
        Quiet, Generating, Inside, Committed, InTransaction, Open, calls, ledger, flags,
        vars, Places, Before
<1>1. ASSUME NEW j \in Journals, LockHome(j)
      PROVE  QuietOnceChecked'
  BY <1>1
    DEF TypeOK, CallsAreLive, SupervisorsOfJournals, ClosesInOrder, QuietOnceChecked,
        Quiet, Generating, Inside, Committed, InTransaction, Open, LockHome, MayLock,
        calls, ledger, flags, Places, Before
<1>2. ASSUME NEW j \in Journals, OpenJournal(j)
      PROVE  QuietOnceChecked'
  BY <1>2
    DEF TypeOK, CallsAreLive, SupervisorsOfJournals, ClosesInOrder, QuietOnceChecked,
        Quiet, Generating, Inside, Committed, InTransaction, Open, OpenJournal, calls,
        ledger, flags, Places, Before
<1>3. ASSUME NEW j \in Journals, Crash(j)
      PROVE  QuietOnceChecked'
  <2>1. /\ \A s \in Supervisors :
              IF Home[s] = j THEN shut'[s] = FALSE
              ELSE /\ shut'[s] = shut[s] /\ stop'[s] = stop[s]
                   /\ worker'[s] = worker[s] /\ pc'[s] = pc[s]
        /\ \A i \in Journals :
              IF i = j THEN owner'[i] = NoSupervisor
              ELSE /\ owner'[i] = owner[i] /\ journal'[i] = journal[i]
                   /\ closer'[i] = closer[i]
    BY <1>3 DEF TypeOK, Crash
  <2>2. \A s \in Supervisors : Home[s] # j /\ Quiet(s) => Quiet(s)'
    BY <2>1 DEF Quiet, Generating
  <2>3. \A i \in Journals : owner'[i] # NoSupervisor =>
           i # j /\ owner[i] = owner'[i] /\ owner[i] \in Supervisors /\ Home[owner[i]] = i
    BY <2>1 DEF SupervisorsOfJournals, TypeOK
  <2> QED
    BY <2>1, <2>2, <2>3 DEF QuietOnceChecked
<1>4. ASSUME NEW j \in Journals, BeginClose(j)
      PROVE  QuietOnceChecked'
  <2>1. \A s \in Supervisors : Quiet(s) => Quiet(s)'
    <3>1. \A s \in Supervisors : stop[s] => stop'[s]
      BY <1>4 DEF BeginClose, TypeOK
    <3> QED
      BY <1>4, <3>1 DEF BeginClose, Quiet, Generating, calls
  <2>2. \A i \in Journals : closer'[i] \in {"checked", "shut"} /\ owner[i] # NoSupervisor
                          => closer[i] \in {"checked", "shut"}
    BY <1>4 DEF BeginClose, TypeOK
  <2> QED
    BY <1>4, <2>1, <2>2 DEF BeginClose, TypeOK, QuietOnceChecked
<1>5. ASSUME NEW j \in Journals, Join(j)
      PROVE  QuietOnceChecked'
  BY <1>5
    DEF TypeOK, CallsAreLive, SupervisorsOfJournals, ClosesInOrder, QuietOnceChecked,
        Quiet, Generating, Inside, Committed, InTransaction, Open, Join, calls, ledger,
        flags, Places, Before
<1>6. ASSUME NEW j \in Journals, CheckIdle(j)
      PROVE  QuietOnceChecked'
  BY <1>6
    DEF TypeOK, CallsAreLive, SupervisorsOfJournals, ClosesInOrder, QuietOnceChecked,
        Quiet, Generating, Inside, Committed, InTransaction, Open, CheckIdle, Idle,
        calls, ledger, flags, Places, Before
<1>7. ASSUME NEW j \in Journals, CloseTransport(j)
      PROVE  QuietOnceChecked'
  <2>1. \A s \in Supervisors : Quiet(s) => Quiet(s)'
    BY <1>7 DEF CloseTransport, Quiet, Generating, calls
  <2>2. owner[j] # NoSupervisor /\ Quiet(owner[j])
    BY <1>7 DEF CloseTransport, ClosesInOrder, QuietOnceChecked
  <2>3. \A s \in Supervisors : shut'[s] => shut[s] \/ s = owner[j]
    BY <1>7 DEF CloseTransport, TypeOK
  <2>4. \A i \in Journals : closer'[i] = closer[i] \/ i = j
    BY <1>7 DEF CloseTransport, TypeOK
  <2> QED
    BY <1>7, <2>1, <2>2, <2>3, <2>4 DEF CloseTransport, TypeOK, QuietOnceChecked
<1>8. ASSUME NEW j \in Journals, Release(j)
      PROVE  QuietOnceChecked'
  BY <1>8
    DEF TypeOK, CallsAreLive, SupervisorsOfJournals, ClosesInOrder, QuietOnceChecked,
        Quiet, Generating, Inside, Committed, InTransaction, Open, Release,
        ConnectionFree, calls, ledger, flags, Places, Before
<1>9. ASSUME NEW s \in Supervisors, CheckPrevious(s)
      PROVE  QuietOnceChecked'
  BY <1>9
    DEF TypeOK, CallsAreLive, SupervisorsOfJournals, ClosesInOrder, QuietOnceChecked,
        Quiet, Generating, Inside, Committed, InTransaction, Open, CheckPrevious,
        Active, Building, calls, ledger, flags, Places, Before
<1>10. ASSUME NEW s \in Supervisors, Supersede(s)
      PROVE  QuietOnceChecked'
  BY <1>10
    DEF TypeOK, CallsAreLive, SupervisorsOfJournals, ClosesInOrder, QuietOnceChecked,
        Quiet, Generating, Inside, Committed, InTransaction, Open, Supersede, calls,
        ledger, flags, Places, Before
<1>11. ASSUME NEW s \in Supervisors, TakeOver(s)
      PROVE  QuietOnceChecked'
  <2>1. \A o \in Supervisors : (Quiet(o)' <=> Quiet(o)) /\ shut'[o] = shut[o]
    BY <1>11 DEF TakeOver, Quiet, Generating, calls, flags
  <2>2. closer[Home[s]] = "none" /\ journal[Home[s]] = "open"
    BY <1>11 DEF TakeOver, SupervisorsOfJournals, Building, Open
  <2>3. \A i \in Journals : i # Home[s] => owner'[i] = owner[i]
    BY <1>11 DEF TakeOver, TypeOK
  <2> QED
    BY <1>11, <2>1, <2>2, <2>3 DEF TakeOver, QuietOnceChecked, TypeOK
<1>12. ASSUME NEW s \in Supervisors, StartWorker(s)
      PROVE  QuietOnceChecked'
  BY <1>12
    DEF TypeOK, CallsAreLive, SupervisorsOfJournals, ClosesInOrder, QuietOnceChecked,
        Quiet, Generating, Inside, Committed, InTransaction, Open, StartWorker, calls,
        ledger, flags, Places, Before
<1>13. ASSUME NEW s \in Supervisors, WorkerEnds(s)
      PROVE  QuietOnceChecked'
  BY <1>13
    DEF TypeOK, CallsAreLive, SupervisorsOfJournals, ClosesInOrder, QuietOnceChecked,
        Quiet, Generating, Inside, Committed, InTransaction, Open, WorkerEnds, calls,
        ledger, flags, Places, Before
<1>14. ASSUME NEW s \in Supervisors, NEW t \in Threads, Ensure(s, t)
      PROVE  QuietOnceChecked'
  <2>1. pc' = [pc EXCEPT ![s][t] = "ensured"]
    BY <1>14 DEF Ensure, GoTo
  <2>2. UNCHANGED <<flock, journal, owner, closer, sup, superseded, stop, shut,
                    faulted, worker, gen, intents, uncertain, receipts>>
       /\ sup[s] = "live" /\ pc[s][t] = "idle"
    BY <1>14 DEF Ensure, ledger, flags
  <2> QED
    BY <2>1, <2>2
      DEF TypeOK, CallsAreLive, SupervisorsOfJournals, ClosesInOrder, QuietOnceChecked,
          Quiet, Generating, Inside, Committed, InTransaction, Places, Before
<1>15. ASSUME NEW s \in Supervisors, NEW t \in Threads, Take(s, t)
      PROVE  QuietOnceChecked'
  <2>1. CASE gen[s] = NoThread /\ gen' = [gen EXCEPT ![s] = t]
    <3>1. PICK place \in {"looking", "locked", "idle"} : pc' = [pc EXCEPT ![s][t] = place]
      BY <1>15, <2>1 DEF Take, GoTo
    <3>2. UNCHANGED <<flock, journal, owner, closer, sup, superseded, stop, shut,
                      faulted, worker, intents, uncertain, receipts>>
      BY <1>15 DEF Take, ledger, flags
    <3>3. pc[s][t] = "ensured"
      BY <1>15 DEF Take
    <3> QED
      BY <2>1, <3>1, <3>2, <3>3
        DEF TypeOK, CallsAreLive, SupervisorsOfJournals, ClosesInOrder,
            QuietOnceChecked, Quiet, Generating, Inside, Committed, InTransaction,
            Places, Before
  <2>2. CASE GoTo(s, t, "idle") /\ UNCHANGED gen
    BY <1>15, <2>2
      DEF Take, GoTo, ledger, flags, TypeOK, CallsAreLive, SupervisorsOfJournals,
          ClosesInOrder, QuietOnceChecked, Quiet, Generating, Inside, Committed,
          InTransaction, Places, Before
  <2> QED
    BY <1>15, <2>1, <2>2 DEF Take
<1>16. ASSUME NEW s \in Supervisors, NEW t \in Threads, Admit(s, t)
      PROVE  QuietOnceChecked'
  BY <1>16
    DEF TypeOK, CallsAreLive, SupervisorsOfJournals, ClosesInOrder, QuietOnceChecked,
        Quiet, Generating, Inside, Committed, InTransaction, Open, Admit, Latch, GoTo,
        calls, ledger, flags, Places, Before
<1>17. ASSUME NEW s \in Supervisors, NEW t \in Threads, Commit(s, t)
      PROVE  QuietOnceChecked'
  BY <1>17
    DEF TypeOK, CallsAreLive, SupervisorsOfJournals, ClosesInOrder, QuietOnceChecked,
        Quiet, Generating, Inside, Committed, InTransaction, Open, Commit, GoTo, calls,
        ledger, flags, Places, Before
<1>18. ASSUME NEW s \in Supervisors, NEW t \in Threads, Leave(s, t)
      PROVE  QuietOnceChecked'
  BY <1>18
    DEF TypeOK, CallsAreLive, SupervisorsOfJournals, ClosesInOrder, QuietOnceChecked,
        Quiet, Generating, Inside, Committed, InTransaction, Open, Leave, GoTo,
        MayFault, Decidable, Recoverable, calls, ledger, flags, Places, Before
<1>19. ASSUME NEW s \in Supervisors, NEW t \in Threads, Call(s, t)
      PROVE  QuietOnceChecked'
  BY <1>19
    DEF TypeOK, CallsAreLive, SupervisorsOfJournals, ClosesInOrder, QuietOnceChecked,
        Quiet, Generating, Inside, Committed, InTransaction, Open, Call, GoTo, calls,
        ledger, flags, Places, Before
<1>20. ASSUME NEW s \in Supervisors, NEW t \in Threads, SaveReceipt(s, t)
      PROVE  QuietOnceChecked'
  BY <1>20
    DEF TypeOK, CallsAreLive, SupervisorsOfJournals, ClosesInOrder, QuietOnceChecked,
        Quiet, Generating, Inside, Committed, InTransaction, Open, SaveReceipt,
        ConnectionFree, calls, ledger, flags, Places, Before
<1> QED
  BY <1>0, <1>1, <1>2, <1>3, <1>4, <1>5, <1>6, <1>7, <1>8, <1>9, <1>10, <1>11,
     <1>12, <1>13, <1>14, <1>15, <1>16, <1>17, <1>18, <1>19, <1>20 DEF Next

\* Every step keeps the inductive invariant.
LEMMA Inductive == IInv /\ [Next]_vars => IInv'
  BY TypeStep, LockStep, CallsStep, SupervisorsStep, ClosesStep, QuietStep DEF IInv

\* The inductive invariant holds of every run of the specification: see IInv.
THEOREM Invariant == Spec => []IInv
<1>1. Init => IInv
  BY DEF Init, IInv, TypeOK, HomeLockAgrees, CallsAreLive, SupervisorsOfJournals,
         ClosesInOrder, QuietOnceChecked, Quiet, Generating, Inside, Committed,
         InTransaction, Building, Places, Open, Before
<1> QED
  BY <1>1, Inductive, PTL DEF Spec

\* Whoever works or generates for the owner of a journal holds the home: close() of
\* supervisor.py sets _stop before it looks at the lock, and _admit looks at
\* _stop after it has taken it.
THEOREM LockKept == Spec => []OwnerKeepsTheLock
<1>1. IInv => OwnerKeepsTheLock
  BY DEF IInv, TypeOK, HomeLockAgrees, CallsAreLive, SupervisorsOfJournals,
         QuietOnceChecked, Quiet, Generating, Committed, OwnerKeepsTheLock, Open
<1> QED
  BY <1>1, Invariant, PTL

\* A transport is closed only once no generation runs or can begin.
THEOREM TransportClosedWhenIdle == Spec => []ClosedTransportIsIdle
<1>1. IInv => ClosedTransportIsIdle
  BY DEF IInv, QuietOnceChecked, Quiet, ClosedTransportIsIdle
<1> QED
  BY <1>1, Invariant, PTL

\* A journal that is open holds the home, so all open supervisors share one.
LEMMA OneHome ==
  ASSUME IInv, NEW s \in Supervisors, NEW o \in Supervisors, Open(s), Open(o)
  PROVE  Home[o] = Home[s]
BY DEF IInv, TypeOK, HomeLockAgrees, Open

\* A step of a call moves one thread in one supervisor.
LEMMA Moves ==
  ASSUME TypeOK, NEW s \in Supervisors, NEW t \in Threads, NEW place,
         GoTo(s, t, place)
  PROVE  /\ pc'[s][t] = place
         /\ \A o \in Supervisors, u \in Threads :
               o # s \/ u # t => pc'[o][u] = pc[o][u]
BY DEF TypeOK, GoTo

\* The steps that are no call, no crash and no change of owner.
Aside ==
  \/ \E j \in Journals : \/ LockHome(j) \/ OpenJournal(j) \/ BeginClose(j) \/ Join(j)
                         \/ CheckIdle(j) \/ CloseTransport(j) \/ Release(j)
  \/ \E s \in Supervisors : \/ CheckPrevious(s) \/ Supersede(s) \/ StartWorker(s)
                            \/ WorkerEnds(s)

\* They leave calls, intents and owners alone and make nobody live.
LEMMA AsideStep ==
  ASSUME IInv, Aside
  PROVE  /\ UNCHANGED <<pc, intents, uncertain, receipts, owner>>
         /\ \A s \in Supervisors :
               /\ superseded[s] => superseded'[s]
               /\ faulted[s] => faulted'[s]
               /\ sup'[s] = "live" /\ Open(s)' => sup[s] = "live" /\ Open(s)
<1> DEFINE Stays == /\ UNCHANGED <<pc, intents, uncertain, receipts, owner>>
                   /\ \A s \in Supervisors :
                         /\ superseded[s] => superseded'[s]
                         /\ faulted[s] => faulted'[s]
                         /\ sup'[s] = "live" /\ Open(s)' => sup[s] = "live" /\ Open(s)
<1> USE DEF IInv, TypeOK, SupervisorsOfJournals, Open, calls, ledger, flags
<1>1. ASSUME NEW j \in Journals, LockHome(j) \/ OpenJournal(j) PROVE Stays
  BY <1>1 DEF LockHome, OpenJournal
<1>2. ASSUME NEW j \in Journals,
             \/ BeginClose(j) \/ CheckIdle(j) \/ CloseTransport(j) \/ Release(j)
      PROVE  Stays
  BY <1>2 DEF BeginClose, CheckIdle, CloseTransport, Release
<1>3. ASSUME NEW s \in Supervisors,
             CheckPrevious(s) \/ Supersede(s) \/ StartWorker(s) \/ WorkerEnds(s)
      PROVE  Stays
  BY <1>3 DEF CheckPrevious, Supersede, StartWorker, WorkerEnds
<1>4. ASSUME NEW j \in Journals, Join(j) PROVE Stays
  <2>1. \A s \in Supervisors : faulted[s] => faulted'[s]
    BY <1>4 DEF Join
  <2> QED
    BY <1>4, <2>1 DEF Join
<1> QED
  BY <1>1, <1>2, <1>3, <1>4 DEF Aside

\* What a new owner finds: itself without calls, nobody in a block, every
\* supervisor before it superseded.
LEMMA TakeOverStep ==
  ASSUME IInv, OwnerAdmits, NEW s \in Supervisors, TakeOver(s)
  PROVE  /\ UNCHANGED <<pc, intents, receipts, superseded, faulted, journal>>
         /\ \/ /\ owner' = [owner EXCEPT ![Home[s]] = s] /\ uncertain' = Recovered
               /\ \A o \in Supervisors : sup'[o] = "live" => sup[o] = "live" \/ o = s
               /\ \A t \in Threads : pc[s][t] = "idle"
               /\ \A o \in Supervisors :
                     o # s /\ Home[o] = Home[s] /\ sup[o] = "live" =>
                        superseded[o] /\ \A t \in Threads : pc[o][t] \notin InTransaction
            \/ /\ UNCHANGED <<owner, uncertain>>
               /\ \A o \in Supervisors : sup'[o] = "live" => sup[o] = "live"
<1>1. UNCHANGED <<pc, intents, receipts, superseded, faulted, journal>>
  BY DEF TakeOver, calls, flags
<1>2. CASE /\ ConnectionFree(Home[s]) /\ uncertain' = Recovered
           /\ sup' = [sup EXCEPT ![s] = "live"]
           /\ owner' = [owner EXCEPT ![Home[s]] = s]
  <2>1. \A o \in Supervisors : sup'[o] = "live" => sup[o] = "live" \/ o = s
    BY <1>2 DEF IInv, TypeOK
  <2>2. \A t \in Threads : pc[s][t] = "idle"
    BY DEF TakeOver, IInv, CallsAreLive
  <2>3. ASSUME NEW o \in Supervisors, Home[o] = Home[s], sup[o] = "live"
        PROVE  superseded[o] /\ \A t \in Threads : pc[o][t] \notin InTransaction
    <3>1. \A t \in Threads : pc[o][t] \notin InTransaction
      BY <1>2, <2>3 DEF ConnectionFree
    <3>2. Open(s) /\ Open(o)
      BY <2>3 DEF TakeOver, IInv, SupervisorsOfJournals, Building, Open
    <3>3. ~superseded[o] => owner[Home[s]] = o
      BY <2>3, <3>2 DEF OwnerAdmits
    <3>4. owner[Home[s]] # NoSupervisor => superseded[owner[Home[s]]]
      BY DEF TakeOver, IInv, SupervisorsOfJournals
    <3> QED
      BY <3>1, <3>3, <3>4
  <2> QED
    BY <1>1, <1>2, <2>1, <2>2, <2>3
<1>3. CASE sup' = [sup EXCEPT ![s] = "failed"] /\ UNCHANGED <<owner, uncertain>>
  BY <1>1, <1>3 DEF IInv, TypeOK
<1> QED
  BY <1>2, <1>3 DEF TakeOver

\* Every step leaves admission with the owner.
LEMMA OwnerAdmitsStep == ASSUME IInv, OwnerAdmits, Next PROVE OwnerAdmits'
<1> SUFFICES ASSUME NEW o \in Supervisors, sup'[o] = "live", Open(o)'
             PROVE  /\ ~superseded'[o] => owner'[Home[o]] = o
                    /\ \A t \in Threads :
                          pc'[o][t] \in InTransaction => owner'[Home[o]] = o
  BY DEF OwnerAdmits, Open, InTransaction
<1>0. sup[o] = "live" /\ Open(o) =>
        /\ ~superseded[o] => owner[Home[o]] = o
        /\ \A t \in Threads : pc[o][t] \in InTransaction => owner[Home[o]] = o
  BY DEF OwnerAdmits
<1> DEFINE Goal == /\ ~superseded'[o] => owner'[Home[o]] = o
                   /\ \A t \in Threads :
                         pc'[o][t] \in InTransaction => owner'[Home[o]] = o
<1>1. CASE Aside
  BY <1>0, <1>1, AsideStep
<1>2. ASSUME NEW j \in Journals, Crash(j) PROVE Goal
  <2>1. Home[o] # j /\ sup[o] = "live" /\ Open(o) /\ pc'[o] = pc[o]
    BY <1>2 DEF Crash, IInv, TypeOK, Open
  <2> QED
    BY <1>0, <1>2, <2>1 DEF Crash, flags
<1>3. ASSUME NEW s \in Supervisors, TakeOver(s) PROVE Goal
  <2>1. CASE UNCHANGED owner /\ sup[o] = "live"
    BY <1>0, <1>3, <2>1, TakeOverStep DEF Open
  <2>2. CASE /\ owner' = [owner EXCEPT ![Home[s]] = s]
             /\ \A t \in Threads : pc[s][t] = "idle"
             /\ sup[o] = "live" \/ o = s
             /\ o # s /\ Home[o] = Home[s] /\ sup[o] = "live" =>
                  superseded[o] /\ \A t \in Threads : pc[o][t] \notin InTransaction
    <3>1. UNCHANGED <<pc, superseded, journal>>
      BY <1>3, TakeOverStep
    <3>2. CASE o = s
      BY <2>2, <3>2 DEF IInv, TypeOK
    <3>3. CASE o # s /\ Home[o] = Home[s]
      BY <2>2, <3>1, <3>3
    <3>4. CASE Home[o] # Home[s]
      BY <1>0, <2>2, <3>1, <3>4 DEF Open, IInv, TypeOK
    <3> QED
      BY <3>2, <3>3, <3>4
  <2> QED
    BY <1>3, <2>1, <2>2, TakeOverStep
<1>4. ASSUME NEW s \in Supervisors, NEW t \in Threads, NEW place, GoTo(s, t, place),
             place \in InTransaction => sup[s] = "live" /\ Open(s) /\ ~superseded[s],
             UNCHANGED <<sup, journal, owner, superseded>>
      PROVE  Goal
  BY <1>0, <1>4, Moves DEF IInv, Open
<1>5. ASSUME NEW s \in Supervisors, NEW t \in Threads, Ensure(s, t) \/ Take(s, t)
      PROVE  Goal
  <2>1. PICK place \in {"ensured", "looking", "locked", "idle"} : GoTo(s, t, place)
    BY <1>5 DEF Ensure, Take
  <2>2. UNCHANGED <<sup, journal, owner, superseded>>
    BY <1>5 DEF Ensure, Take, flags
  <2> QED
    BY <1>4, <2>1, <2>2 DEF InTransaction
<1>6. ASSUME NEW s \in Supervisors, NEW t \in Threads, Admit(s, t) PROVE Goal
  <2>1. sup[s] = "live" /\ Open(s) /\ ~superseded[s]
    BY <1>6 DEF Admit, Latch, IInv, CallsAreLive
  <2>2. PICK place \in {"preparing", "submitting"} : GoTo(s, t, place)
    BY <1>6 DEF Admit
  <2> QED
    BY <1>4, <1>6, <2>1, <2>2 DEF Admit, flags
<1>7. ASSUME NEW s \in Supervisors, NEW t \in Threads,
             Commit(s, t) \/ Call(s, t) \/ Leave(s, t)
      PROVE  Goal
  <2>1. PICK place \in {"intended", "prepared", "committed", "submitted", "idle"} :
           GoTo(s, t, place)
    BY <1>7 DEF Commit, Call, Leave
  <2>2. UNCHANGED <<sup, journal, owner, superseded>>
    BY <1>7 DEF Commit, Call, Leave, flags
  <2> QED
    BY <1>4, <2>1, <2>2 DEF InTransaction
<1>8. ASSUME NEW s \in Supervisors, NEW t \in Threads, SaveReceipt(s, t) PROVE Goal
  BY <1>0, <1>8 DEF SaveReceipt, calls, flags, Open
<1> QED
  BY <1>1, <1>2, <1>3, <1>5, <1>6, <1>7, <1>8 DEF Next, Aside

\* What a call that leaves does to the intents and to the fault.
LEMMA LeaveStep ==
  ASSUME IInv, NEW s \in Supervisors, NEW t \in Threads, Leave(s, t)
  PROVE  /\ intents' \subseteq intents
         /\ intents' \ uncertain' \subseteq intents \ uncertain
         /\ intents \ receipts \subseteq intents' \ receipts'
         /\ pc[s][t] \in Committed => faulted'[s] \/ <<s, t>> \notin intents' \ uncertain'
         /\ \A o \in Supervisors : faulted[o] => faulted'[o]
<1>1. CASE pc[s][t] \notin Committed /\ UNCHANGED ledger /\ MayFault(s, t)
  BY <1>1 DEF ledger, MayFault, IInv, TypeOK
<1>2. CASE UNCHANGED ledger /\ faulted' = [faulted EXCEPT ![s] = TRUE]
  BY <1>2 DEF ledger, IInv, TypeOK
<1>3. CASE /\ uncertain' = uncertain \cup ({<<s, t>>} \cap intents)
           /\ UNCHANGED <<intents, receipts>> /\ MayFault(s, t)
  BY <1>3 DEF MayFault, IInv, TypeOK
<1>4. CASE /\ \E r \in Decidable(s, t) : /\ intents' = intents \ {r}
                                        /\ uncertain' = uncertain \ {r}
                                        /\ receipts' = receipts \ {r}
           /\ MayFault(s, t)
  <2>1. Decidable(s, t) \subseteq receipts
    BY DEF Decidable, Recoverable
  <2>2. pc[s][t] \in Committed => Decidable(s, t) \subseteq {<<s, t>>}
    BY DEF Decidable, Committed
  <2>3. \A o \in Supervisors : faulted[o] => faulted'[o]
    BY <1>4 DEF MayFault, IInv, TypeOK
  <2> QED
    BY <1>4, <2>1, <2>2, <2>3
<1> QED
  BY <1>1, <1>2, <1>3, <1>4 DEF Leave

\* Every step leaves the intents known to the owner.
LEMMA KnownStep ==
  ASSUME IInv, OwnerAdmits, IntentsAreKnown, Next
  PROVE  IntentsAreKnown'
<1> SUFFICES ASSUME NEW o \in Supervisors,
                    sup'[o] = "live", Open(o)', owner'[Home[o]] = o
             PROVE  /\ \A r \in intents' \ uncertain' :
                          faulted'[o] \/ (r[1] = o /\ pc'[o][r[2]] \in Committed)
                    /\ \A u \in Threads :
                          /\ pc'[o][u] = "preparing" => intents' = {}
                          /\ pc'[o][u] = "submitting" => intents' \subseteq {<<o, u>>}
  BY DEF IntentsAreKnown, Open, Committed
<1> DEFINE Goal == /\ \A r \in intents' \ uncertain' :
                         faulted'[o] \/ (r[1] = o /\ pc'[o][r[2]] \in Committed)
                   /\ \A u \in Threads :
                         /\ pc'[o][u] = "preparing" => intents' = {}
                         /\ pc'[o][u] = "submitting" => intents' \subseteq {<<o, u>>}
<1>0. sup[o] = "live" /\ Open(o) /\ owner[Home[o]] = o =>
        /\ \A r \in intents \ uncertain :
              faulted[o] \/ (r[1] = o /\ pc[o][r[2]] \in Committed)
        /\ \A u \in Threads :
              /\ pc[o][u] = "preparing" => intents = {}
              /\ pc[o][u] = "submitting" => intents \subseteq {<<o, u>>}
  BY DEF IntentsAreKnown
<1>1. CASE Aside
  BY <1>0, <1>1, AsideStep
<1>2. ASSUME NEW j \in Journals, Crash(j) PROVE Goal
  <2>1. Home[o] # j /\ sup[o] = "live" /\ Open(o) /\ pc'[o] = pc[o] /\ faulted'[o] = faulted[o]
    BY <1>2 DEF Crash, IInv, TypeOK, Open
  <2> QED
    BY <1>0, <1>2, <2>1 DEF Crash, ledger
<1>3. ASSUME NEW s \in Supervisors, TakeOver(s) PROVE Goal
  <2>1. CASE UNCHANGED <<owner, uncertain>> /\ sup[o] = "live"
    BY <1>0, <1>3, <2>1, TakeOverStep DEF Open
  <2>2. CASE /\ owner' = [owner EXCEPT ![Home[s]] = s] /\ uncertain' = Recovered
             /\ \A t \in Threads : pc[s][t] = "idle"
             /\ sup[o] = "live" \/ o = s
    <3>1. UNCHANGED <<pc, intents, faulted, journal>> /\ intents' \ uncertain' = {}
      BY <1>3, <2>2, TakeOverStep DEF Recovered
    <3>2. CASE o = s
      BY <2>2, <3>1, <3>2
    <3>3. CASE o # s
      <4>1. owner[Home[o]] = o /\ sup[o] = "live"
        BY <2>2, <3>3 DEF IInv, TypeOK
      <4> QED
        BY <1>0, <3>1, <4>1 DEF Open
    <3> QED
      BY <3>2, <3>3
  <2> QED
    BY <1>3, <2>1, <2>2, TakeOverStep
<1>4. ASSUME NEW s \in Supervisors, NEW t \in Threads, Ensure(s, t) \/ Take(s, t)
      PROVE  Goal
  <2>1. PICK place \in {"ensured", "looking", "locked", "idle"} : GoTo(s, t, place)
    BY <1>4 DEF Ensure, Take
  <2>2. UNCHANGED <<sup, journal, owner, faulted, intents, uncertain>>
    BY <1>4 DEF Ensure, Take, ledger, flags
  <2>3. pc[s][t] \in {"idle", "ensured"}
    BY <1>4 DEF Ensure, Take
  <2>4. \A r \in intents : r[2] \in Threads
    BY DEF IInv, TypeOK
  <2> QED
    BY <1>0, <2>1, <2>2, <2>3, <2>4, Moves DEF IInv, Open, Committed
<1>5. ASSUME NEW s \in Supervisors, NEW t \in Threads, Admit(s, t) PROVE Goal
  <2>1. /\ sup[s] = "live" /\ Open(s) /\ ~superseded[s] /\ uncertain = {}
        /\ ~faulted[s] /\ gen[s] = t /\ owner[Home[s]] = s
    BY <1>5
      DEF Admit, Latch, IInv, CallsAreLive, Inside, OwnerAdmits, Places, Before,
          InTransaction, Committed
  <2>2. UNCHANGED <<sup, journal, owner, faulted, intents, uncertain>>
    BY <1>5 DEF Admit, ledger, flags
  <2>3. o = s
    BY <2>1, <2>2, OneHome DEF Open
  <2>4. ASSUME NEW r \in intents PROVE r = <<s, t>> /\ pc[s][t] \in Committed
    <3>1. r \in Supervisors \X Threads
      BY DEF IInv, TypeOK
    <3>2. r[1] = s /\ pc[s][r[2]] \in Committed
      BY <1>0, <2>1, <2>3
    <3>3. r[2] = t
      BY <2>1, <3>1, <3>2
        DEF IInv, CallsAreLive, Inside, Committed, Places, Before, InTransaction
    <3> QED
      BY <3>1, <3>2, <3>3
  <2>5. \A u \in Threads : u # t => pc[s][u] \notin InTransaction
    BY <2>1 DEF IInv, CallsAreLive, Inside, InTransaction, Places, Before, Committed
  <2>6. \A u \in Threads : u # t => pc'[s][u] = pc[s][u]
    BY <1>5, Moves DEF Admit, IInv
  <2>7. CASE pc[s][t] = "locked"
    <3>1. intents = {} /\ pc'[s][t] = "preparing"
      BY <1>5, <2>4, <2>7, Moves DEF Admit, IInv, Committed
    <3> QED
      BY <2>2, <2>3, <2>5, <2>6, <3>1 DEF InTransaction
  <2>8. CASE pc[s][t] = "prepared"
    <3>1. pc'[s][t] = "submitting"
      BY <1>5, <2>8, Moves DEF Admit, IInv
    <3> QED
      BY <2>2, <2>3, <2>4, <2>5, <2>6, <3>1 DEF InTransaction, Committed
  <2> QED
    BY <1>5, <2>7, <2>8 DEF Admit
<1>6. ASSUME NEW s \in Supervisors, NEW t \in Threads, Commit(s, t) PROVE Goal
  <2>1. /\ sup[s] = "live" /\ Open(s) /\ gen[s] = t /\ owner[Home[s]] = s
    BY <1>6
      DEF Commit, IInv, CallsAreLive, Inside, InTransaction, OwnerAdmits, Places,
          Before, Committed
  <2>2. UNCHANGED <<sup, journal, owner, uncertain>>
    BY <1>6 DEF Commit, flags
  <2>3. o = s
    BY <2>1, <2>2, OneHome DEF Open
  <2>4. intents' \subseteq {<<s, t>>}
    BY <1>0, <1>6, <2>1, <2>3 DEF Commit, InTransaction
  <2>5. pc'[s][t] \in Committed \ {"submitting"}
    BY <1>6, Moves DEF Commit, IInv, Committed
  <2>6. \A u \in Threads : u # t => pc'[s][u] \notin InTransaction
    BY <1>6, <2>1, Moves
      DEF Commit, IInv, CallsAreLive, Inside, InTransaction, Places, Before, Committed
  <2> QED
    BY <2>3, <2>4, <2>5, <2>6 DEF InTransaction, Committed
<1>7. ASSUME NEW s \in Supervisors, NEW t \in Threads, Leave(s, t) PROVE Goal
  <2>1. UNCHANGED <<sup, journal, owner>> /\ sup[s] = "live"
    BY <1>7
      DEF Leave, IInv, CallsAreLive, Inside, Places, Before, InTransaction, Committed
  <2>2. sup[o] = "live" /\ Open(o) /\ owner[Home[o]] = o
    BY <2>1 DEF Open
  <2>3. /\ pc'[s][t] = "idle"
        /\ \A p \in Supervisors, u \in Threads :
              p # s \/ u # t => pc'[p][u] = pc[p][u]
    BY <1>7, Moves DEF Leave, IInv
  <2>4. ASSUME NEW r \in intents' \ uncertain', ~faulted'[o]
        PROVE  r[1] = o /\ pc'[o][r[2]] \in Committed
    <3>1. r \in intents \ uncertain /\ r \in Supervisors \X Threads /\ ~faulted[o]
      BY <1>7, <2>4, LeaveStep DEF IInv, TypeOK
    <3>2. r[1] = o /\ pc[o][r[2]] \in Committed
      BY <1>0, <2>2, <3>1
    <3>3. r # <<s, t>> \/ o # s
      BY <1>7, <2>4, <3>2, LeaveStep
    <3>4. o # s \/ r[2] # t
      BY <3>1, <3>2, <3>3
    <3> QED
      BY <2>3, <3>1, <3>2, <3>4
  <2>5. intents' \subseteq intents
    BY <1>7, LeaveStep
  <2> QED
    BY <1>0, <2>2, <2>3, <2>4, <2>5
<1>8. ASSUME NEW s \in Supervisors, NEW t \in Threads, Call(s, t) PROVE Goal
  <2>1. /\ UNCHANGED <<sup, journal, owner, faulted, intents, uncertain>>
        /\ pc[s][t] \in Committed
    BY <1>8 DEF Call, ledger, flags, Committed
  <2>2. /\ pc'[s][t] \in {"prepared", "submitted"}
        /\ \A p \in Supervisors, u \in Threads :
              p # s \/ u # t => pc'[p][u] = pc[p][u]
    BY <1>8, Moves DEF Call, IInv
  <2>3. \A r \in intents : r[2] \in Threads
    BY DEF IInv, TypeOK
  <2> QED
    BY <1>0, <2>1, <2>2, <2>3 DEF Open, Committed
<1>9. ASSUME NEW s \in Supervisors, NEW t \in Threads, SaveReceipt(s, t) PROVE Goal
  BY <1>0, <1>9 DEF SaveReceipt, calls, flags, Open
<1> QED
  BY <1>1, <1>2, <1>3, <1>4, <1>5, <1>6, <1>7, <1>8, <1>9 DEF Next, Aside

\* Every step leaves what a call has recorded, and not sent or not got an answer
\* to, without an outcome.
LEMMA StandStep ==
  ASSUME IInv, OwnerAdmits, IntentsAreKnown, IntentsStand, Next
  PROVE  IntentsStand'
<1> DEFINE At == Committed \ {"submitted"}
<1> SUFFICES ASSUME NEW o \in Supervisors, NEW u \in Threads, pc'[o][u] \in At
             PROVE  <<o, u>> \in intents' \ receipts'
  BY DEF IntentsStand, Committed
<1>0. pc[o][u] \in At => <<o, u>> \in intents \ receipts
  BY DEF IntentsStand
<1>1. CASE Aside
  BY <1>0, <1>1, AsideStep
<1>2. ASSUME NEW j \in Journals, Crash(j) PROVE <<o, u>> \in intents' \ receipts'
  <2>1. pc'[o][u] \in {pc[o][u], "idle"}
    BY <1>2 DEF Crash
  <2> QED
    BY <1>0, <1>2, <2>1 DEF Crash, ledger, Committed
<1>3. ASSUME NEW s \in Supervisors, TakeOver(s)
      PROVE  <<o, u>> \in intents' \ receipts'
  BY <1>0, <1>3, TakeOverStep
<1>4. ASSUME NEW s \in Supervisors, NEW t \in Threads,
             Ensure(s, t) \/ Take(s, t) \/ Admit(s, t) \/ Call(s, t)
      PROVE  <<o, u>> \in intents' \ receipts'
  <2>1. UNCHANGED <<intents, receipts>>
    BY <1>4 DEF Ensure, Take, Admit, Call, ledger
  <2>2. PICK place \in Places :
          /\ GoTo(s, t, place)
          /\ place \in At => pc[s][t] \in At
    BY <1>4 DEF Ensure, Take, Admit, Call, Places, Before, InTransaction, Committed
  <2> QED
    BY <1>0, <2>1, <2>2, Moves DEF IInv
<1>5. ASSUME NEW s \in Supervisors, NEW t \in Threads, Commit(s, t)
      PROVE  <<o, u>> \in intents' \ receipts'
  <2>1. intents' = intents \cup {<<s, t>>} /\ receipts' = receipts
    BY <1>5 DEF Commit
  <2>2. <<s, t>> \notin receipts
    <3>1. sup[s] = "live" /\ Open(s) /\ owner[Home[s]] = s
      BY <1>5 DEF Commit, IInv, CallsAreLive, InTransaction, OwnerAdmits
    <3>2. CASE pc[s][t] = "preparing"
      BY <3>1, <3>2 DEF IntentsAreKnown, IInv, TypeOK
    <3>3. CASE pc[s][t] = "submitting"
      BY <3>3 DEF IntentsStand, Committed
    <3> QED
      BY <1>5, <3>2, <3>3 DEF Commit, InTransaction
  <2>3. o # s \/ u # t => pc'[o][u] = pc[o][u]
    BY <1>5, Moves DEF Commit, IInv
  <2> QED
    BY <1>0, <2>1, <2>2, <2>3
<1>6. ASSUME NEW s \in Supervisors, NEW t \in Threads, SaveReceipt(s, t)
      PROVE  <<o, u>> \in intents' \ receipts'
  <2>1. /\ UNCHANGED <<pc, intents>> /\ receipts' = receipts \cup {<<s, t>>}
        /\ pc[s][t] = "submitted"
    BY <1>6 DEF SaveReceipt, calls
  <2> QED
    BY <1>0, <2>1
<1>7. ASSUME NEW s \in Supervisors, NEW t \in Threads, Leave(s, t)
      PROVE  <<o, u>> \in intents' \ receipts'
  <2>1. /\ pc'[s][t] = "idle"
        /\ o # s \/ u # t => pc'[o][u] = pc[o][u]
    BY <1>7, Moves DEF Leave, IInv
  <2> QED
    BY <1>0, <1>7, <2>1, LeaveStep DEF Committed
<1> QED
  BY <1>1, <1>2, <1>3, <1>4, <1>5, <1>6, <1>7 DEF Next, Aside

\* Admission is the owner's: _superseded is set before the recovery that makes
\* the next supervisor the owner, and that waits for a block that is open.
THEOREM OwnerAdmission == Spec => []OwnerAdmits
<1>1. Init => OwnerAdmits
  BY DEF Init, OwnerAdmits
<1>2. IInv /\ OwnerAdmits /\ [Next]_vars => OwnerAdmits'
  <2>1. CASE Next
    BY <2>1, OwnerAdmitsStep
  <2>2. CASE UNCHANGED vars
    BY <2>2 DEF vars, calls, flags, OwnerAdmits, Open, InTransaction
  <2> QED
    BY <2>1, <2>2
<1> QED
  BY <1>1, <1>2, Invariant, PTL DEF Spec

\* Every intent without an outcome is uncertain or that of the generation the
\* owner has under way, unless the owner has faulted: see IntentsAreKnown.
THEOREM Known == Spec => []IntentsAreKnown
<1>1. Init => IntentsAreKnown
  BY DEF Init, IntentsAreKnown
<1>2. IInv /\ OwnerAdmits /\ IntentsAreKnown /\ [Next]_vars => IntentsAreKnown'
  <2>1. CASE Next
    BY <2>1, KnownStep
  <2>2. CASE UNCHANGED vars
    BY <2>2 DEF vars, calls, ledger, flags, IntentsAreKnown, Open, Committed
  <2> QED
    BY <2>1, <2>2
<1> QED
  BY <1>1, <1>2, Invariant, OwnerAdmission, PTL DEF Spec

\* No process and no supervisor generates on top of what another, or it before
\* a crash, left unresolved: recover_on_startup marks it, _admit refuses while
\* it is marked.
THEOREM OneIntent == Spec => []OneUnresolvedIntent
<1>1. Init => OneUnresolvedIntent
  BY DEF Init, OneUnresolvedIntent
<1>2. IInv /\ OwnerAdmits /\ IntentsAreKnown /\ OneUnresolvedIntent /\ [Next]_vars
        => OneUnresolvedIntent'
  <2> SUFFICES ASSUME IInv, OwnerAdmits, IntentsAreKnown, OneUnresolvedIntent,
                      [Next]_vars
               PROVE  OneUnresolvedIntent'
    OBVIOUS
  <2>1. ASSUME NEW s \in Supervisors, NEW t \in Threads, Commit(s, t)
        PROVE  intents' = {<<s, t>>}
    <3>1. sup[s] = "live" /\ Open(s) /\ owner[Home[s]] = s
      BY <2>1 DEF Commit, IInv, CallsAreLive, InTransaction, OwnerAdmits
    <3> QED
      BY <2>1, <3>1 DEF Commit, IntentsAreKnown, InTransaction
  <2>2. ASSUME NEW s \in Supervisors, NEW t \in Threads, Leave(s, t)
        PROVE  intents' \subseteq intents
    BY <2>2, LeaveStep
  <2>3. \/ \E s \in Supervisors, t \in Threads : Commit(s, t) \/ Leave(s, t)
        \/ intents' = intents
    BY DEF Next, vars, ledger, LockHome, OpenJournal, Crash, BeginClose, Join,
           CheckIdle, CloseTransport, Release, CheckPrevious, Supersede, TakeOver,
           StartWorker, WorkerEnds, Ensure, Take, Admit, Call, SaveReceipt
  <2> QED
    BY <2>1, <2>2, <2>3 DEF OneUnresolvedIntent
<1> QED
  BY <1>1, <1>2, Invariant, OwnerAdmission, Known, PTL DEF Spec

\* What a call has recorded stays without an outcome until the call has its answer.
THEOREM Standing == Spec => []IntentsStand
<1>1. Init => IntentsStand
  BY DEF Init, IntentsStand, Committed
<1>2. IInv /\ OwnerAdmits /\ IntentsAreKnown /\ IntentsStand /\ [Next]_vars
        => IntentsStand'
  <2>1. CASE Next
    BY <2>1, StandStep
  <2>2. CASE UNCHANGED vars
    BY <2>2 DEF vars, calls, ledger, IntentsStand
  <2> QED
    BY <2>1, <2>2
<1> QED
  BY <1>1, <1>2, Invariant, OwnerAdmission, Known, PTL DEF Spec

\* Intents are recorded by the owner of the journal that holds the home and by
\* nobody else: _admit stands in the block that records them.
THEOREM OwnerRecords == Spec => OnlyOwnerRecords
<1> DEFINE Records == \A s \in Supervisors, t \in Threads :
              pc[s][t] \in InTransaction /\ pc'[s][t] \in Committed =>
                 owner[Home[s]] = s /\ flock = Home[s]
<1>1. IInv /\ OwnerAdmits => Records
  BY DEF IInv, TypeOK, CallsAreLive, HomeLockAgrees, OwnerAdmits, InTransaction, Open
<1> QED
  BY <1>1, Invariant, OwnerAdmission, PTL DEF OnlyOwnerRecords

\* A recorded request goes out while its run is the only unresolved one, even
\* from a supervisor that was superseded meanwhile.
THEOREM CallsAlone == Spec => CallsStandAlone
<1> DEFINE Alone == \A s \in Supervisors, t \in Threads :
        pc[s][t] \in {"intended", "committed"} /\ pc'[s][t] \in {"prepared", "submitted"}
           => intents = {<<s, t>>}
<1>1. IntentsStand /\ OneUnresolvedIntent => Alone
  BY DEF IntentsStand, OneUnresolvedIntent, Committed
<1> QED
  BY <1>1, Standing, OneIntent, PTL DEF CallsStandAlone

-----------------------------------------------------------------------------
\* The secret

\* While the rows stay as they are, a key keeps its runs and nothing is sent.
LEMMA RowsStay ==
  ASSUME KeysAgree, OneUnresolved, UNCHANGED rows, lost => lost'
  PROVE  KeysAgree' /\ OneUnresolved'
BY DEF KeysAgree, OneUnresolved, rows

\* Opening the home and losing the file: a process comes up only with what the
\* file holds, and without a loss the file keeps what the rows were made under.
LEMMA FileStep ==
  ASSUME SecretsInv,
         Lock \/ Load \/ Refuse \/ CreateFile \/ WriteFile \/ Lose
         \/ Reconfigure
  PROVE  SecretsInv'
<1>1. UNCHANGED rows /\ (lost => lost')
  BY DEF Lock, Load, Refuse, CreateFile, WriteFile, Lose, Reconfigure, SecretsInv,
         SecretsTypeOK
<1>2. SecretsTypeOK'
  BY <1>1
    DEF SecretsInv, SecretsTypeOK, SecretsAgree, Lock, Load, Refuse, CreateFile,
        WriteFile, Lose, Reconfigure, Source, Kept, rows
<1>3. SecretsAgree'
  BY <1>1
    DEF SecretsInv, SecretsTypeOK, SecretsAgree, Lock, Load, Refuse, CreateFile,
        WriteFile, Lose, Reconfigure, Source, Kept, rows
<1>4. RowsAdmit'
  BY <1>1
    DEF SecretsInv, RowsAdmit, Lock, Load, Refuse, CreateFile, WriteFile, Lose,
        Reconfigure, Unresolved, rows
<1> QED
  BY <1>1, <1>2, <1>3, <1>4, RowsStay DEF SecretsInv

\* A key that is not remembered gets a new run; one that is, the run it has.
LEMMA KeyStep ==
  ASSUME SecretsInv, NEW k \in Keys, NEW r \in Runs, Replay(k, r) \/ Enqueue(k, r)
  PROVE  SecretsInv'
<1> USE DEF SecretsInv, SecretsTypeOK, Replay, Enqueue
<1>1. SecretsTypeOK'
  BY DEF SecretsAgree, Source
<1>2. SecretsAgree'
  BY DEF SecretsAgree, Source
<1>3. KeysAgree'
  BY DEF SecretsAgree, KeysAgree, Remembered
<1>4. RowsAdmit' /\ OneUnresolved'
  BY DEF RowsAdmit, OneUnresolved, Unresolved
<1> QED
  BY <1>1, <1>2, <1>3, <1>4

\* A run that was sent and is not proven stays unresolved, readable or not: no
\* other is sent before its outcome is proven.
LEMMA RunStep ==
  ASSUME SecretsInv, NEW r \in Runs, Execute(r) \/ ExecuteUnreadable(r) \/ Conclude(r)
  PROVE  SecretsInv'
<1> USE DEF SecretsInv, SecretsTypeOK, Execute, ExecuteUnreadable, Conclude, Unreadable
<1>1. SecretsTypeOK'
  BY DEF Unresolved, Final, RowsAdmit
<1>2. SecretsAgree' /\ KeysAgree'
  BY DEF SecretsAgree, Source, KeysAgree, Unresolved, Final
<1>3. RowsAdmit'
  BY DEF RowsAdmit, Unresolved, Final
<1>4. OneUnresolved'
  BY DEF OneUnresolved, RowsAdmit, Latched, Unresolved
<1> QED
  BY <1>1, <1>2, <1>3, <1>4

\* A process that ends leaves its run uncertain.
LEMMA ExitStep ==
  ASSUME SecretsInv, Exit
  PROVE  SecretsInv'
BY DEF SecretsInv, SecretsTypeOK, SecretsAgree, KeysAgree, RowsAdmit, OneUnresolved,
       Unresolved, Final, Exit, Source

\* Process, file, keys and rows agree in every reachable state.
THEOREM SecretsCorrect == SecretsSpec => []SecretsInv
<1>1. SecretsInit => SecretsInv
  BY DEF SecretsInit, SecretsInv, SecretsTypeOK, SecretsAgree, KeysAgree, RowsAdmit,
         OneUnresolved, Unresolved, Final
<1>2. SecretsInv /\ [SecretsNext]_secretsVars => SecretsInv'
  <2>1. CASE UNCHANGED secretsVars
    BY <2>1
      DEF secretsVars, rows, SecretsInv, SecretsTypeOK, SecretsAgree, KeysAgree,
          RowsAdmit, OneUnresolved, Unresolved, Final, Source
  <2> QED
    BY <2>1, FileStep, KeyStep, RunStep, ExitStep DEF SecretsNext
<1> QED
  BY <1>1, <1>2, PTL DEF SecretsSpec

\* A key names one run through every restart and every interrupted start, as
\* long as the file is kept (supervisor.py, enqueue_run).
THEOREM OneRun == SecretsSpec => []OneRunPerKey
<1>1. SecretsInv => OneRunPerKey
  BY DEF SecretsInv, SecretsTypeOK, KeysAgree, OneRunPerKey
<1> QED
  BY <1>1, SecretsCorrect, PTL

\* Whoever has the home can read every accepted run, as long as the secret
\* is kept (supervisor.py, _snapshot).
THEOREM Readability == SecretsSpec => []AcceptedIsReadable
<1>1. SecretsInv => AcceptedIsReadable
  BY DEF SecretsInv, SecretsAgree, AcceptedIsReadable, Readable
<1> QED
  BY <1>1, SecretsCorrect, PTL

\* A generation is requested only when every earlier one has a proven outcome,
\* even after a loss of the file (supervisor.py, execute_run).
THEOREM Unresolving == SecretsSpec => []OneUnresolved
<1>1. SecretsInv => OneUnresolved
  BY DEF SecretsInv
<1> QED
  BY <1>1, SecretsCorrect, PTL
=============================================================================
