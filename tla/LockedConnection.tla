-------------------------- MODULE LockedConnection --------------------------
(***************************************************************************)
(* The one SQLite connection all threads share: storage/db.py,             *)
(* LockedConnection.  `with conn:` blocks nest; the outermost one is a     *)
(* transaction under a re-entrant lock, an inner one a savepoint.  What    *)
(* SQLite does with BEGIN, SAVEPOINT, COMMIT and ROLLBACK is modelled from *)
(* its documented behaviour.                                               *)
(*                                                                         *)
(* Definitions that no action uses are deliberate defects of the           *)
(* definition that follows them.                                           *)
(***************************************************************************)
EXTENDS Naturals, Sequences

CONSTANTS
  Thread,
  NoThread,  \* the lock is free
  Outermost, \* the marker of a block that began the transaction (None)
  Row,       \* what may be written, each once
  MaxDepth   \* bound: blocks inside each other

ASSUME ConnectionAssumption ==
  NoThread \notin Thread /\ Outermost \notin Nat /\ MaxDepth \in Nat

VARIABLES
  closed,     \* JournalSystem.close has closed the connection
  owner,      \* owner of conn.lock
  stack,      \* _local.stack of each thread: the markers of its open blocks
  inTransaction,
  savepoints, \* SQLite's, outermost first: their names and contents
  content,    \* the rows the connection sees
  durable,    \* the rows another process would see
  raising,    \* how a thread leaves its blocks: no, error, lost
  work,       \* rows each open block has put in, completed inner blocks included
  reported    \* rows of outermost blocks that ended without an exception

sqlite == <<inTransaction, savepoints, content, durable>>
vars   == <<closed, owner, stack, sqlite, raising, work, reported>>

TypeOK ==
  /\ closed \in BOOLEAN
  /\ owner \in Thread \cup {NoThread}
  /\ stack \in [Thread -> Seq(Nat \cup {Outermost})]
  /\ inTransaction \in BOOLEAN
  /\ savepoints \in Seq([name : Nat, rows : SUBSET Row])
  /\ content \subseteq Row /\ durable \subseteq Row /\ reported \subseteq Row
  /\ raising \in [Thread -> {"no", "error", "lost"}]
  /\ work \in Seq(SUBSET Row)
  /\ owner # NoThread => Len(work) = Len(stack[owner]) /\ Len(work) <= MaxDepth

Init ==
  /\ closed = FALSE
  /\ owner = NoThread /\ stack = [t \in Thread |-> <<>>]
  /\ inTransaction = FALSE /\ savepoints = <<>>
  /\ content = {} /\ durable = {} /\ reported = {}
  /\ raising = [t \in Thread |-> "no"] /\ work = <<>>

-----------------------------------------------------------------------------
Top(s)    == s[Len(s)]
Popped(s) == SubSeq(s, 1, Len(s) - 1)

Inside(t) == owner = t /\ stack[t] # <<>> /\ raising[t] = "no"

MayEnter(t) ==
  /\ ~closed /\ owner \in {NoThread, t} /\ raising[t] = "no"
  /\ Len(stack[t]) < MaxDepth

\* __enter__: the first block begins a transaction, others set a savepoint.
Enter(t) ==
  /\ MayEnter(t)
  /\ owner' = t
  /\ IF inTransaction
       THEN /\ savepoints' = Append(savepoints, [name |-> Len(stack[t]), rows |-> content])
            /\ stack' = [stack EXCEPT ![t] = Append(@, Len(stack[t]))]
            /\ UNCHANGED inTransaction
       ELSE /\ inTransaction' = TRUE
            /\ stack' = [stack EXCEPT ![t] = Append(@, Outermost)]
            /\ UNCHANGED savepoints
  /\ work' = Append(work, {})
  /\ UNCHANGED <<content, durable, raising, reported>>

EnterFailsLocked(t) ==
  /\ MayEnter(t)
  /\ owner' = t
  /\ raising' = [raising EXCEPT ![t] = IF stack[t] = <<>> THEN "no" ELSE "error"]
  /\ UNCHANGED <<stack, sqlite, work, reported>>

\* The BEGIN or SAVEPOINT raises inside the try: the lock is given back before
\* the exception is passed on.
EnterFails(t) ==
  /\ MayEnter(t)
  /\ raising' = [raising EXCEPT ![t] = IF stack[t] = <<>> THEN "no" ELSE "error"]
  /\ UNCHANGED <<owner, stack, sqlite, work, reported>>

\* On a closed connection in_transaction raises, after the acquire and before
\* the try: the lock is never given back.
EnterClosed(t) ==
  /\ closed /\ owner \in {NoThread, t}
  /\ owner' = t
  /\ UNCHANGED <<stack, sqlite, raising, work, reported>>

Write(t) ==
  /\ Inside(t)
  /\ \E r \in Row \ (content \cup reported) :
       /\ content' = content \cup {r}
       /\ work' = [work EXCEPT ![Len(work)] = @ \cup {r}]
  /\ UNCHANGED <<owner, stack, inTransaction, savepoints, durable, raising, reported>>

\* The code in the block raises, or a statement that only undoes itself.
Raise(t) ==
  /\ Inside(t)
  /\ raising' = [raising EXCEPT ![t] = "error"]
  /\ UNCHANGED <<owner, stack, sqlite, work, reported>>

\* A full disk or an I/O error: SQLite rolls back by itself.
LoseTransaction(t) ==
  /\ Inside(t)
  /\ inTransaction' = FALSE /\ savepoints' = <<>> /\ content' = durable
  /\ raising' = [raising EXCEPT ![t] = "lost"]
  /\ UNCHANGED <<owner, stack, durable, work, reported>>

\* A block around what failed may handle the error and go on; no
\* code handles the loss of its transaction before it has left all blocks.
Handle(t) ==
  /\ owner = t /\ stack[t] # <<>> /\ raising[t] = "error"
  /\ raising' = [raising EXCEPT ![t] = "no"]
  /\ UNCHANGED <<owner, stack, sqlite, work, reported>>

-----------------------------------------------------------------------------
(* __exit__: the marker is popped and the lock released on every way out.  *)

\* The rows of a block that ended without an exception belong to the block
\* around it, or are what the thread's caller takes to be stored.
Leave(t, ok) ==
  /\ stack' = [stack EXCEPT ![t] = Popped(@)]
  /\ owner' = IF Len(stack[t]) = 1 THEN NoThread ELSE t
  /\ raising' = [raising EXCEPT ![t] = IF Len(stack[t]) = 1 THEN "no" ELSE @]
  /\ work' = IF ok /\ Len(work) > 1
               THEN [Popped(work) EXCEPT ![Len(work) - 1] = @ \cup Top(work)]
               ELSE Popped(work)
  /\ reported' = IF ok /\ Len(stack[t]) = 1 THEN reported \cup Top(work) ELSE reported

Savepoint(m) ==
  CHOOSE i \in DOMAIN savepoints :
    /\ savepoints[i].name = m
    /\ \A j \in DOMAIN savepoints : savepoints[j].name = m => j <= i

RollBackNothing(m) == content

RollBackTo(m) == savepoints[Savepoint(m)].rows

\* ROLLBACK TO the marker if the block raised, and RELEASE it.
ExitInner(t) ==
  /\ owner = t /\ stack[t] # <<>> /\ raising[t] # "lost"
  /\ LET m == Top(stack[t])  failed == raising[t] = "error" IN
       /\ m # Outermost
       /\ content' = IF failed THEN RollBackTo(m) ELSE content
       /\ savepoints' = SubSeq(savepoints, 1, Savepoint(m) - 1)
       /\ Leave(t, ~failed)
  /\ UNCHANGED <<inTransaction, durable>>

EndsOutermost(t) ==
  /\ owner = t /\ stack[t] # <<>> /\ Top(stack[t]) = Outermost
  /\ inTransaction' = FALSE /\ savepoints' = <<>>

Commit(t) ==
  /\ raising[t] = "no" /\ EndsOutermost(t)
  /\ durable' = content
  /\ Leave(t, TRUE)
  /\ UNCHANGED content

CommitFailsOpen(t) ==
  /\ Inside(t) /\ Top(stack[t]) = Outermost
  /\ Leave(t, FALSE)
  /\ UNCHANGED sqlite

\* A COMMIT that raises leaves the transaction open: it is rolled back here.
CommitFails(t) ==
  /\ raising[t] = "no" /\ EndsOutermost(t)
  /\ content' = durable
  /\ Leave(t, FALSE)
  /\ UNCHANGED durable

Rollback(t) ==
  /\ raising[t] = "error" /\ EndsOutermost(t)
  /\ content' = durable
  /\ Leave(t, FALSE)
  /\ UNCHANGED durable

\* Without a transaction ROLLBACK TO and ROLLBACK raise as well: the next
\* block out is left in the same way.
ExitLost(t) ==
  /\ owner = t /\ stack[t] # <<>> /\ raising[t] = "lost"
  /\ Leave(t, FALSE)
  /\ UNCHANGED sqlite

CloseUnlocked ==
  /\ ~closed /\ closed' = TRUE
  /\ UNCHANGED <<owner, stack, sqlite, raising, work, reported>>

\* JournalSystem.close takes the lock around conn.close(), while other threads
\* still wait and read.
Close ==
  /\ ~closed /\ owner = NoThread
  /\ closed' = TRUE
  /\ UNCHANGED <<owner, stack, sqlite, raising, work, reported>>

\* The process dies; the next one opens the file anew.
Crash ==
  /\ closed' = FALSE
  /\ owner' = NoThread /\ stack' = [t \in Thread |-> <<>>]
  /\ inTransaction' = FALSE /\ savepoints' = <<>> /\ content' = durable
  /\ raising' = [t \in Thread |-> "no"] /\ work' = <<>>
  /\ UNCHANGED <<durable, reported>>

Next ==
  \/ /\ \E t \in Thread :
          \/ Enter(t) \/ EnterFails(t) \/ EnterClosed(t)
          \/ Write(t) \/ Raise(t) \/ LoseTransaction(t) \/ Handle(t)
          \/ ExitInner(t) \/ Commit(t) \/ CommitFails(t) \/ Rollback(t) \/ ExitLost(t)
     /\ UNCHANGED closed
  \/ Close
  \/ Crash

Spec == Init /\ [][Next]_vars

-----------------------------------------------------------------------------
\* A block that ended normally is durable with all it was reported to contain,
\* and nothing else is: not an inner block that raised, not a block whose
\* COMMIT failed, not what a thread had open when another one entered.
AllOrNothing == durable = reported

\* In a transaction the connection sees what is durable and what the open
\* blocks have put in, whichever inner blocks failed and were handled.
BlocksAddUp ==
  inTransaction => content = durable \cup UNION {work[i] : i \in DOMAIN work}

\* On an open connection the lock is held exactly while a thread has a block open,
\* and a transaction only then: no way out of __enter__ or __exit__ keeps them or
\* gives them up too early.  The connection is closed between blocks, never
\* under one.  (Once it is closed the lock may be kept: EnterClosed.)
HeldWhileOpen ==
  /\ \A t \in Thread : IF closed THEN stack[t] = <<>> ELSE owner = t <=> stack[t] # <<>>
  /\ inTransaction => owner # NoThread /\ ~closed

-----------------------------------------------------------------------------
\* The inductive invariant

\* Rows that are durable or were put in by the outermost n open blocks.
RowsBelow(n) == durable \cup UNION {work[k] : k \in 1..n}

\* The thread that owns the lock has blocks open, nobody else has, and it is
\* in a transaction unless that was lost.  On a closed connection there is none.
OwnerIsInside ==
  /\ owner = NoThread \/ closed => work = <<>> /\ ~inTransaction
  /\ \A t \in Thread : t # owner => stack[t] = <<>> /\ raising[t] = "no"
  /\ closed => \A t \in Thread : stack[t] = <<>> /\ raising[t] = "no"
  /\ owner # NoThread /\ ~closed =>
       /\ stack[owner] # <<>>
       /\ inTransaction <=> raising[owner] # "lost"

\* The n-th block inside the outermost one has the marker n.
MarkersAreDepths ==
  \A t \in Thread : \A i \in DOMAIN stack[t] :
    stack[t][i] = IF i = 1 THEN Outermost ELSE i - 1

\* The n-th savepoint holds what was there when the block after n was entered.
SavepointsAddUp ==
  /\ ~inTransaction => savepoints = <<>> /\ content = durable
  /\ inTransaction =>
       /\ Len(savepoints) = Len(work) - 1
       /\ content = RowsBelow(Len(work))
       /\ \A n \in DOMAIN savepoints :
            savepoints[n].name = n /\ savepoints[n].rows = RowsBelow(n)

IInv == TypeOK /\ OwnerIsInside /\ MarkersAreDepths /\ SavepointsAddUp /\ AllOrNothing
=============================================================================
