----------------------- MODULE LockedConnectionProofs -----------------------
(***************************************************************************)
(* Proofs about LockedConnection, for any number of threads and rows and   *)
(* blocks of any depth: what is durable is what was reported, and what the *)
(* connection sees is that and what the open blocks have put in.           *)
(***************************************************************************)
EXTENDS LockedConnection, SequenceTheorems, TLAPS

USE ConnectionAssumption

\* The first n - 1 elements of a sequence.
LEMMA Front ==
  ASSUME NEW S, NEW s, NEW n \in Nat \ {0}, \A i \in 1..n : s[i] \in S
  PROVE  /\ SubSeq(s, 1, n - 1) \in Seq(S)
         /\ Len(SubSeq(s, 1, n - 1)) = n - 1
         /\ \A i \in 1..(n - 1) : SubSeq(s, 1, n - 1)[i] = s[i]
<1> DEFINE p == SubSeq(s, 1, n - 1)  l == Len(p)
<1>1. /\ p \in Seq(S)
      /\ l = IF 1 <= n - 1 THEN n - 1 - 1 + 1 ELSE 0
      /\ \A i \in 1..(n - 1 - 1 + 1) : p[i] = s[1 + i - 1]
  <2>1. 1 \in Int /\ n - 1 \in Int /\ \A i \in 1..(n - 1) : s[i] \in S
    OBVIOUS
  <2> QED
    BY <2>1, SubSeqProperties
<1> HIDE DEF l
<1>2. l = n - 1
  BY <1>1
<1> HIDE DEF p
<1>3. \A i \in 1..(n - 1) : p[i] = s[i]
  BY <1>1
<1> QED
  BY <1>1, <1>2, <1>3 DEF l, p

\* What is left of a sequence without its last element.
LEMMA Popping ==
  ASSUME NEW S, NEW s \in Seq(S), s # <<>>
  PROVE  /\ Len(s) \in Nat \ {0}
         /\ Popped(s) \in Seq(S)
         /\ Len(Popped(s)) = Len(s) - 1
         /\ \A i \in 1..(Len(s) - 1) : Popped(s)[i] = s[i]
         /\ Top(s) \in S
<1>1. Len(s) \in Nat \ {0}
  BY EmptySeq
<1>2. \A i \in 1..Len(s) : s[i] \in S
  BY ElementOfSeq
<1>3. Top(s) \in S
  BY <1>1, <1>2 DEF Top
<1> QED
  BY <1>1, <1>2, <1>3, Front DEF Popped

\* The rows of the outermost n blocks, one block after the other.
LEMMA RowsSplit ==
  ASSUME NEW n \in Nat \ {0}
  PROVE  RowsBelow(n) = RowsBelow(n - 1) \cup work[n]
<1>1. 1..n = (1..(n - 1)) \cup {n}
  OBVIOUS
<1> QED
  BY <1>1 DEF RowsBelow

\* They stay the same while those blocks do.
LEMMA RowsKept ==
  ASSUME NEW n \in Nat, durable' = durable, \A k \in 1..n : work'[k] = work[k]
  PROVE  RowsBelow(n)' = RowsBelow(n)
BY DEF RowsBelow

\* How deep the owner is, and what a transaction means for it.
LEMMA Depth ==
  ASSUME IInv, NEW t \in Thread, owner = t, stack[t] # <<>>
  PROVE  /\ ~closed
         /\ Len(work) = Len(stack[t])
         /\ Len(work) \in Nat \ {0}
         /\ work # <<>>
         /\ inTransaction <=> raising[t] # "lost"
         /\ Top(stack[t]) = IF Len(work) = 1 THEN Outermost ELSE Len(work) - 1
<1>1. stack[t] \in Seq(Nat \cup {Outermost}) /\ owner # NoThread /\ ~closed
  BY DEF IInv, TypeOK, OwnerIsInside
<1>2. Len(stack[t]) \in Nat \ {0} /\ DOMAIN stack[t] = 1..Len(stack[t])
  BY <1>1, Popping, LenProperties
<1>3. Len(work) = Len(stack[t]) /\ (inTransaction <=> raising[t] # "lost")
  BY <1>1 DEF IInv, TypeOK, OwnerIsInside
<1>4. Len(stack[t]) \in DOMAIN stack[t]
  BY <1>2
<1>5. work # <<>>
  BY <1>2, <1>3, EmptySeq
<1> QED
  BY <1>1, <1>2, <1>3, <1>4, <1>5 DEF IInv, MarkersAreDepths, Top

\* What popping a block does to the stacks, to the lock and to its rows.
LEMMA Leaving ==
  ASSUME IInv, NEW t \in Thread, owner = t, stack[t] # <<>>,
         NEW ok \in BOOLEAN, Leave(t, ok)
  PROVE  /\ stack' = [stack EXCEPT ![t] = Popped(@)]
         /\ stack'[t] \in Seq(Nat \cup {Outermost})
         /\ Len(stack'[t]) = Len(work) - 1
         /\ \A i \in 1..(Len(work) - 1) : stack'[t][i] = stack[t][i]
         /\ owner' = IF Len(work) = 1 THEN NoThread ELSE t
         /\ raising' = [raising EXCEPT ![t] = IF Len(work) = 1 THEN "no" ELSE @]
         /\ work' \in Seq(SUBSET Row)
         /\ Len(work') = Len(work) - 1
         /\ \A k \in 1..(Len(work) - 2) : work'[k] = work[k]
         /\ Len(work) > 1 =>
              work'[Len(work) - 1] =
                IF ok THEN work[Len(work) - 1] \cup work[Len(work)]
                ELSE work[Len(work) - 1]
         /\ reported' = IF ok /\ Len(work) = 1 THEN reported \cup work[1] ELSE reported
<1>1. Len(work) = Len(stack[t]) /\ Len(work) \in Nat \ {0} /\ work # <<>>
  BY Depth
<1>2. stack[t] \in Seq(Nat \cup {Outermost}) /\ work \in Seq(SUBSET Row)
      /\ stack \in [Thread -> Seq(Nat \cup {Outermost})]
  BY DEF IInv, TypeOK
<1>3. /\ stack'[t] = Popped(stack[t])
      /\ Popped(stack[t]) \in Seq(Nat \cup {Outermost})
      /\ Len(Popped(stack[t])) = Len(stack[t]) - 1
      /\ \A i \in 1..(Len(stack[t]) - 1) : Popped(stack[t])[i] = stack[t][i]
  BY <1>2, Popping DEF Leave
<1>4. /\ Popped(work) \in Seq(SUBSET Row)
      /\ Len(Popped(work)) = Len(work) - 1
      /\ \A i \in 1..(Len(work) - 1) : Popped(work)[i] = work[i]
      /\ Top(work) = work[Len(work)]
      /\ Top(work) \in SUBSET Row
  BY <1>1, <1>2, Popping DEF Top
<1>5. /\ work' \in Seq(SUBSET Row)
      /\ Len(work') = Len(work) - 1
      /\ \A k \in 1..(Len(work) - 2) : work'[k] = work[k]
      /\ Len(work) > 1 =>
           work'[Len(work) - 1] =
             IF ok THEN work[Len(work) - 1] \cup work[Len(work)]
             ELSE work[Len(work) - 1]
  <2>1. CASE ok /\ Len(work) > 1
    <3> DEFINE n == Len(work) - 1
               e == Popped(work)[n] \cup Top(work)
    <3>1. work' = [Popped(work) EXCEPT ![n] = e]
      BY <2>1 DEF Leave
    <3>2. n \in 1..Len(Popped(work)) /\ Popped(work)[n] = work[n]
      BY <2>1, <1>1, <1>4
    <3>3. e \in SUBSET Row
      BY <1>4, <3>2, ElementOfSeq
    <3>4. /\ [Popped(work) EXCEPT ![n] = e] \in Seq(SUBSET Row)
          /\ Len([Popped(work) EXCEPT ![n] = e]) = Len(Popped(work))
          /\ \A j \in 1..Len(Popped(work)) :
               [Popped(work) EXCEPT ![n] = e][j] = IF j = n THEN e ELSE Popped(work)[j]
      BY <1>4, <3>2, <3>3, ExceptSeq
    <3> HIDE DEF e
    <3>5. \A k \in 1..(Len(work) - 2) : work'[k] = work[k]
      BY <3>1, <3>4, <1>1, <1>4
    <3>6. work'[n] = e
      BY <3>1, <3>2, <3>4
    <3> QED
      BY <2>1, <3>1, <3>2, <3>4, <3>5, <3>6, <1>4 DEF e
  <2>2. CASE ~(ok /\ Len(work) > 1)
    <3>1. work' = Popped(work)
      BY <2>2 DEF Leave
    <3> QED
      BY <2>2, <3>1, <1>1, <1>4
  <2> QED
    BY <2>1, <2>2
<1>6. reported' = IF ok /\ Len(work) = 1 THEN reported \cup work[1] ELSE reported
  BY <1>1, <1>4 DEF Leave
<1> QED
  BY <1>1, <1>3, <1>5, <1>6 DEF Leave

\* Whatever way out of a block is taken: the stacks, the lock and the threads'
\* ways of leaving are as the invariant wants them.
LEMMA LeavingKeeps ==
  ASSUME IInv, NEW t \in Thread, owner = t, stack[t] # <<>>,
         NEW ok \in BOOLEAN, Leave(t, ok)
  PROVE  /\ owner' \in Thread \cup {NoThread}
         /\ stack' \in [Thread -> Seq(Nat \cup {Outermost})]
         /\ raising' \in [Thread -> {"no", "error", "lost"}]
         /\ \A u \in Thread : u # owner' => stack'[u] = <<>> /\ raising'[u] = "no"
         /\ IF Len(work) = 1
              THEN owner' = NoThread /\ work' = <<>>
              ELSE /\ owner' = t /\ stack'[t] # <<>> /\ raising'[t] = raising[t]
                   /\ Len(work') = Len(stack'[t]) /\ Len(work') <= MaxDepth
         /\ MarkersAreDepths'
<1>1. /\ Len(work) = Len(stack[t]) /\ Len(work) \in Nat \ {0}
      /\ Len(work) <= MaxDepth /\ t # NoThread
  BY Depth DEF IInv, TypeOK
<1>2. /\ stack \in [Thread -> Seq(Nat \cup {Outermost})]
      /\ raising \in [Thread -> {"no", "error", "lost"}]
      /\ \A u \in Thread : u # t => stack[u] = <<>> /\ raising[u] = "no"
  BY DEF IInv, TypeOK, OwnerIsInside
<1>3. /\ stack' = [stack EXCEPT ![t] = Popped(@)]
      /\ stack'[t] \in Seq(Nat \cup {Outermost})
      /\ Len(stack'[t]) = Len(work) - 1
      /\ \A i \in 1..(Len(work) - 1) : stack'[t][i] = stack[t][i]
      /\ owner' = IF Len(work) = 1 THEN NoThread ELSE t
      /\ raising' = [raising EXCEPT ![t] = IF Len(work) = 1 THEN "no" ELSE @]
      /\ work' \in Seq(SUBSET Row)
      /\ Len(work') = Len(work) - 1
  BY Leaving
<1>4. \A u \in Thread \ {t} : stack'[u] = stack[u] /\ raising'[u] = raising[u]
  BY <1>2, <1>3
<1>5. stack' \in [Thread -> Seq(Nat \cup {Outermost})]
  <2>1. Popped(stack[t]) \in Seq(Nat \cup {Outermost})
    BY <1>2, <1>3
  <2> QED
    BY <1>2, <1>3, <2>1
<1>6. Len(work) = 1 => stack'[t] = <<>> /\ work' = <<>>
  BY <1>3, EmptySeq
<1>7. Len(work) # 1 => stack'[t] # <<>>
  <2> DEFINE n == Len(work)
  <2>1. stack'[t] = <<>> => Len(stack'[t]) = 0
    BY EmptySeq
  <2>2. n \in Nat /\ Len(stack'[t]) = n - 1
    BY <1>1, <1>3
  <2> HIDE DEF n
  <2>3. stack'[t] = <<>> => n = 1
    BY <2>1, <2>2
  <2> QED
    BY <2>3 DEF n
<1>8. MarkersAreDepths'
  <2>1. ASSUME NEW u \in Thread, NEW i \in DOMAIN stack'[u]
        PROVE  stack'[u][i] = IF i = 1 THEN Outermost ELSE i - 1
    <3>1. CASE u = t
      <4>1. DOMAIN stack'[t] = 1..(Len(work) - 1)
        BY <1>3, LenProperties
      <4>2. DOMAIN stack[t] = 1..Len(work)
        BY <1>1, <1>2, LenProperties
      <4>3. i \in DOMAIN stack[t] /\ stack'[t][i] = stack[t][i]
        BY <1>1, <1>3, <2>1, <3>1, <4>1, <4>2
      <4> QED
        BY <3>1, <4>3 DEF IInv, MarkersAreDepths
    <3>2. CASE u # t
      BY <1>4, <2>1, <3>2 DEF IInv, MarkersAreDepths
    <3> QED
      BY <3>1, <3>2
  <2> QED
    BY <2>1 DEF MarkersAreDepths
<1>9. \A u \in Thread : u # owner' => stack'[u] = <<>> /\ raising'[u] = "no"
  BY <1>2, <1>3, <1>4, <1>6
<1>10. raising' \in [Thread -> {"no", "error", "lost"}]
  BY <1>2, <1>3
<1> QED
  BY <1>1, <1>2, <1>3, <1>5, <1>6, <1>7, <1>8, <1>9, <1>10

\* A new connection has no block, no savepoint and an empty database.
LEMMA InitIInv == Init => IInv
<1> SUFFICES ASSUME Init PROVE IInv
  OBVIOUS
<1>1. TypeOK
  <2>1. <<>> \in Seq(Nat \cup {Outermost})
    BY EmptySeq
  <2>2. <<>> \in Seq([name : Nat, rows : SUBSET Row]) /\ <<>> \in Seq(SUBSET Row)
    BY EmptySeq
  <2> QED
    BY <2>1, <2>2 DEF Init, TypeOK
<1>2. MarkersAreDepths
  BY DEF Init, MarkersAreDepths
<1>3. OwnerIsInside /\ SavepointsAddUp /\ AllOrNothing
  BY DEF Init, OwnerIsInside, SavepointsAddUp, AllOrNothing
<1> QED
  BY <1>1, <1>2, <1>3 DEF IInv

\* What a thread that may enter finds.
LEMMA Entering ==
  ASSUME IInv, NEW t \in Thread, MayEnter(t)
  PROVE  /\ t # NoThread /\ stack[t] \in Seq(Nat \cup {Outermost})
         /\ Len(stack[t]) = Len(work) /\ Len(work) \in Nat /\ Len(work) + 1 <= MaxDepth
         /\ \A u \in Thread : u # t => stack[u] = <<>> /\ raising[u] = "no"
         /\ inTransaction => owner = t /\ Len(work) # 0
         /\ ~inTransaction => stack[t] = <<>> /\ work = <<>> /\ owner = NoThread
         /\ ~closed
<1>1. /\ t # NoThread /\ ~closed /\ stack[t] \in Seq(Nat \cup {Outermost})
      /\ work \in Seq(SUBSET Row) /\ raising[t] = "no"
  BY DEF IInv, TypeOK, MayEnter
<1>2. \A u \in Thread : u # t => stack[u] = <<>> /\ raising[u] = "no"
  BY <1>1 DEF IInv, OwnerIsInside, MayEnter
<1>3. CASE owner = t
  <2>1. /\ stack[t] # <<>> /\ inTransaction /\ Len(work) = Len(stack[t])
    BY <1>1, <1>3 DEF IInv, TypeOK, OwnerIsInside
  <2>2. Len(work) \in Nat \ {0}
    BY <1>3, <2>1, Depth
  <2>3. Len(work) < MaxDepth
    BY <2>1 DEF MayEnter
  <2> DEFINE n == Len(work)
  <2>4. n \in Nat /\ n < MaxDepth
    BY <2>2, <2>3
  <2> HIDE DEF n
  <2>5. n + 1 <= MaxDepth
    BY <2>4
  <2> QED
    BY <1>1, <1>2, <1>3, <2>1, <2>2, <2>5 DEF n
<1>4. CASE owner = NoThread
  <2>1. stack[t] = <<>> /\ work = <<>> /\ ~inTransaction
    BY <1>1, <1>4 DEF IInv, OwnerIsInside
  <2>2. Len(stack[t]) = 0 /\ Len(work) = 0
    BY <2>1, EmptySeq
  <2>3. 0 + 1 <= MaxDepth
    BY <2>2 DEF MayEnter
  <2> QED
    BY <1>1, <1>2, <1>4, <2>1, <2>2, <2>3
<1> QED
  BY <1>3, <1>4 DEF MayEnter

\* A block more: on a fresh transaction, or on a savepoint that holds what is there.
LEMMA EnterKeeps ==
  ASSUME IInv, NEW t \in Thread, closed' = closed, Enter(t), NEW n \in Nat, n = Len(work)
  PROVE  IInv'
<1> DEFINE marker == IF inTransaction THEN n ELSE Outermost
<1>1. /\ t # NoThread /\ stack[t] \in Seq(Nat \cup {Outermost})
      /\ Len(stack[t]) = n /\ n \in Nat /\ n + 1 <= MaxDepth
      /\ \A u \in Thread : u # t => stack[u] = <<>> /\ raising[u] = "no"
      /\ inTransaction => owner = t /\ n # 0
      /\ ~inTransaction => stack[t] = <<>> /\ work = <<>> /\ owner = NoThread
      /\ raising[t] = "no" /\ ~closed
  BY Entering DEF Enter, MayEnter
<1>2. /\ owner' = t /\ inTransaction' = TRUE
      /\ stack' = [stack EXCEPT ![t] = Append(@, marker)]
      /\ work' = Append(work, {})
      /\ durable' = durable /\ content' = content
      /\ raising' = raising /\ reported' = reported
  BY <1>1 DEF Enter
<1>3. /\ stack \in [Thread -> Seq(Nat \cup {Outermost})]
      /\ work \in Seq(SUBSET Row) /\ {} \in SUBSET Row
      /\ savepoints \in Seq([name : Nat, rows : SUBSET Row])
      /\ marker \in Nat \cup {Outermost} /\ content \in SUBSET Row
  BY <1>1 DEF IInv, TypeOK
<1>4. /\ work' \in Seq(SUBSET Row) /\ work' # <<>> /\ Len(work') = n + 1
      /\ \A k \in 1..n : work'[k] = work[k]
      /\ work'[n + 1] = {}
  BY <1>2, <1>3, AppendProperties
<1>5. /\ stack'[t] = Append(stack[t], marker)
      /\ stack'[t] \in Seq(Nat \cup {Outermost}) /\ stack'[t] # <<>>
      /\ Len(stack'[t]) = n + 1
      /\ \A i \in 1..n : stack'[t][i] = stack[t][i]
      /\ stack'[t][n + 1] = marker
  <2> DEFINE Marker == Nat \cup {Outermost}
  <2> HIDE DEF marker
  <2>1. stack'[t] = Append(stack[t], marker)
    BY <1>2, <1>3
  <2>2. stack[t] \in Seq(Marker) /\ marker \in Marker
    BY <1>1, <1>3
  <2> HIDE DEF Marker
  <2>3. /\ Append(stack[t], marker) \in Seq(Marker)
        /\ Append(stack[t], marker) # <<>>
        /\ Len(Append(stack[t], marker)) = Len(stack[t]) + 1
        /\ \A i \in 1..Len(stack[t]) : Append(stack[t], marker)[i] = stack[t][i]
        /\ Append(stack[t], marker)[Len(stack[t]) + 1] = marker
    BY <2>2, AppendProperties
  <2> QED
    BY <1>1, <2>1, <2>3 DEF Marker
<1>6. DOMAIN stack'[t] = 1..(n + 1) /\ DOMAIN stack[t] = 1..n
  BY <1>1, <1>5, LenProperties
<1>7. \A k \in 1..n : RowsBelow(k)' = RowsBelow(k)
  <2>1. ASSUME NEW k \in 1..n PROVE RowsBelow(k)' = RowsBelow(k)
    <3>1. k \in Nat /\ \A j \in 1..k : work'[j] = work[j]
      BY <1>1, <1>4
    <3> QED
      BY <1>2, <3>1, RowsKept
  <2> QED
    BY <2>1
<1>8. RowsBelow(n + 1)' = RowsBelow(n)
  <2>1. 1..(n + 1) = (1..n) \cup {n + 1}
    BY <1>1
  <2> QED
    BY <1>2, <1>4, <2>1 DEF RowsBelow
<1>9. /\ savepoints' \in Seq([name : Nat, rows : SUBSET Row])
      /\ Len(savepoints') = n
      /\ content = RowsBelow(n)
      /\ \A k \in DOMAIN savepoints' :
           savepoints'[k].name = k /\ savepoints'[k].rows = RowsBelow(k)'
  <2>1. CASE inTransaction
    <3> DEFINE e == [name |-> n, rows |-> content]  l == Len(savepoints)
    <3>1. savepoints' = Append(savepoints, e)
      BY <1>1, <2>1 DEF Enter
    <3>2. /\ l = n - 1 /\ content = RowsBelow(n)
          /\ \A k \in DOMAIN savepoints :
               savepoints[k].name = k /\ savepoints[k].rows = RowsBelow(k)
      BY <2>1 DEF IInv, SavepointsAddUp
    <3>3. e \in [name : Nat, rows : SUBSET Row] /\ e.name = n /\ e.rows = content
      BY <1>1, <1>3
    <3> HIDE DEF e
    <3>4. /\ savepoints' \in Seq([name : Nat, rows : SUBSET Row])
          /\ Len(savepoints') = l + 1
          /\ \A k \in 1..l : savepoints'[k] = savepoints[k]
          /\ savepoints'[l + 1] = e
      BY <1>3, <3>1, <3>3, AppendProperties
    <3>5. DOMAIN savepoints = 1..l /\ DOMAIN savepoints' = 1..Len(savepoints')
      BY <1>3, <3>4, LenProperties
    <3> HIDE DEF l
    <3>6. l + 1 = n /\ 1..n = (1..l) \cup {n} /\ (1..l) \subseteq 1..n /\ n \in 1..n
      BY <1>1, <2>1, <3>2
    <3>7. Len(savepoints') = n /\ DOMAIN savepoints' = (1..l) \cup {n}
      BY <3>4, <3>5, <3>6
    <3>8. ASSUME NEW k \in (1..l) \cup {n}
          PROVE  savepoints'[k].name = k /\ savepoints'[k].rows = RowsBelow(k)'
      <4>1. CASE k \in 1..l
        <5>1. savepoints'[k] = savepoints[k] /\ RowsBelow(k)' = RowsBelow(k)
          BY <1>7, <3>4, <3>6, <4>1
        <5> QED
          BY <3>2, <3>5, <4>1, <5>1
      <4>2. CASE k = n
        <5>1. savepoints'[k] = e /\ RowsBelow(k)' = RowsBelow(k)
          BY <1>7, <3>4, <3>6, <4>2
        <5> QED
          BY <3>2, <3>3, <4>2, <5>1
      <4> QED
        BY <4>1, <4>2
    <3> QED
      BY <3>2, <3>4, <3>7, <3>8
  <2>2. CASE ~inTransaction
    <3>1. savepoints' = <<>> /\ n = 0 /\ content = durable
      BY <1>1, <2>2, EmptySeq DEF IInv, SavepointsAddUp, Enter
    <3>2. RowsBelow(0) = durable
      BY DEF RowsBelow
    <3>3. <<>> \in Seq([name : Nat, rows : SUBSET Row]) /\ Len(<<>>) = 0
      BY EmptySeq
    <3>4. DOMAIN <<>> = {}
      OBVIOUS
    <3> QED
      BY <3>1, <3>2, <3>3, <3>4
  <2> QED
    BY <2>1, <2>2
<1>10. TypeOK'
  <2>1. stack' \in [Thread -> Seq(Nat \cup {Outermost})]
    BY <1>2, <1>3, <1>5
  <2> HIDE DEF marker
  <2> QED
    BY <1>1, <1>2, <1>4, <1>5, <1>9, <2>1 DEF IInv, TypeOK
<1>11. OwnerIsInside'
  BY <1>1, <1>2, <1>3, <1>5 DEF OwnerIsInside
<1>12. MarkersAreDepths'
  <2>1. ASSUME NEW u \in Thread, NEW i \in DOMAIN stack'[u]
        PROVE  stack'[u][i] = IF i = 1 THEN Outermost ELSE i - 1
    <3>1. CASE u = t /\ i \in 1..n
      BY <1>5, <1>6, <3>1 DEF IInv, MarkersAreDepths
    <3>2. CASE u = t /\ i \notin 1..n
      <4>1. (n = 0) <=> ~inTransaction
        BY <1>1, EmptySeq
      <4>2. i \in 1..(n + 1) /\ stack'[u][n + 1] = marker
        BY <1>5, <1>6, <2>1, <3>2
      <4>3. i = n + 1
        BY <1>1, <3>2, <4>2
      <4> QED
        BY <1>1, <4>1, <4>2, <4>3
    <3>3. CASE u # t
      <4>1. stack'[u] = stack[u]
        BY <1>2, <1>3, <3>3
      <4> QED
        BY <2>1, <4>1 DEF IInv, MarkersAreDepths
    <3> QED
      BY <3>1, <3>2, <3>3
  <2> QED
    BY <2>1 DEF MarkersAreDepths
<1>13. SavepointsAddUp'
  <2>1. Len(savepoints') = Len(work') - 1
    <3>1. n = n + 1 - 1
      BY <1>1
    <3> QED
      BY <1>4, <1>9, <3>1
  <2>2. RowsBelow(Len(work))' = RowsBelow(n + 1)'
    BY <1>4 DEF RowsBelow
  <2> QED
    BY <1>2, <1>8, <1>9, <2>1, <2>2 DEF SavepointsAddUp
<1>14. AllOrNothing'
  BY <1>2 DEF IInv, AllOrNothing
<1> QED
  BY <1>10, <1>11, <1>12, <1>13, <1>14 DEF IInv

\* A row more in the innermost block: no savepoint holds that block's rows.
LEMMA WriteKeeps ==
  ASSUME IInv, NEW t \in Thread, closed' = closed, Write(t), NEW n \in Nat, n = Len(work)
  PROVE  IInv'
<1>1. PICK r \in Row : /\ content' = content \cup {r}
                       /\ work' = [work EXCEPT ![n] = @ \cup {r}]
  BY DEF Write
<1>2. UNCHANGED <<owner, stack, inTransaction, savepoints, durable, raising, reported>>
  BY DEF Write
<1>3. /\ owner = t /\ stack[t] # <<>> /\ owner # NoThread
      /\ work \in Seq(SUBSET Row) /\ n # 0 /\ inTransaction
      /\ savepoints \in Seq([name : Nat, rows : SUBSET Row])
  BY Depth DEF Write, Inside, IInv, TypeOK
<1>4. n \in 1..Len(work) /\ work[n] \cup {r} \in SUBSET Row
  BY <1>3, ElementOfSeq
<1>5. /\ work' \in Seq(SUBSET Row) /\ Len(work') = n
      /\ \A k \in 1..n : work'[k] = IF k = n THEN work[n] \cup {r} ELSE work[k]
  <2> DEFINE e == work[n] \cup {r}
  <2>1. work' = [work EXCEPT ![n] = e] /\ e \in SUBSET Row
    BY <1>1, <1>4
  <2> HIDE DEF e
  <2>2. /\ work' \in Seq(SUBSET Row) /\ Len(work') = Len(work)
        /\ \A k \in 1..Len(work) : work'[k] = IF k = n THEN e ELSE work[k]
    BY <1>3, <1>4, <2>1, ExceptSeq
  <2> QED
    BY <2>2 DEF e
<1>6. \A k \in 1..(n - 1) : RowsBelow(k)' = RowsBelow(k)
  <2>1. ASSUME NEW k \in 1..(n - 1) PROVE RowsBelow(k)' = RowsBelow(k)
    <3>1. k \in Nat /\ \A j \in 1..k : work'[j] = work[j]
      BY <1>3, <1>5
    <3> QED
      BY <1>2, <3>1, RowsKept
  <2> QED
    BY <2>1
<1>7. RowsBelow(n)' = RowsBelow(n) \cup {r}
  <2>1. n \in 1..n /\ \A k \in 1..n : k # n => work'[k] = work[k]
    BY <1>3, <1>5
  <2>2. work'[n] = work[n] \cup {r}
    BY <1>5, <2>1
  <2> QED
    BY <1>2, <2>1, <2>2 DEF RowsBelow
<1>8. /\ Len(savepoints) = n - 1 /\ content = RowsBelow(n)
      /\ \A k \in DOMAIN savepoints :
           savepoints[k].name = k /\ savepoints[k].rows = RowsBelow(k)
  BY <1>3 DEF IInv, SavepointsAddUp
<1>9. SavepointsAddUp'
  <2>1. DOMAIN savepoints = 1..(n - 1)
    BY <1>3, <1>8, LenProperties
  <2>2. RowsBelow(Len(work))' = RowsBelow(n)'
    BY <1>5 DEF RowsBelow
  <2>3. Len(savepoints') = Len(work') - 1
    BY <1>2, <1>5, <1>8
  <2>4. \A k \in DOMAIN savepoints' :
          savepoints'[k].name = k /\ savepoints'[k].rows = RowsBelow(k)'
    BY <1>2, <1>6, <1>8, <2>1
  <2> QED
    BY <1>1, <1>2, <1>3, <1>7, <1>8, <2>2, <2>3, <2>4 DEF SavepointsAddUp
<1>10. TypeOK'
  <2>1. content' \subseteq Row
    BY <1>1 DEF IInv, TypeOK
  <2>2. Len(work') = Len(work)
    BY <1>5
  <2> QED
    BY <1>2, <1>5, <2>1, <2>2 DEF IInv, TypeOK
<1>11. OwnerIsInside' /\ MarkersAreDepths' /\ AllOrNothing'
  BY <1>2, <1>3 DEF IInv, OwnerIsInside, MarkersAreDepths, AllOrNothing
<1> QED
  BY <1>9, <1>10, <1>11 DEF IInv

\* Only what one thread does about an error changes.
LEMMA RaisingKeeps ==
  ASSUME IInv, NEW t \in Thread, NEW how \in {"no", "error"},
         ~closed, closed' = closed, UNCHANGED <<owner, stack, sqlite, work, reported>>,
         raising' = [raising EXCEPT ![t] = how],
         \/ owner = t /\ raising[t] # "lost"
         \/ owner # t /\ how = "no"
  PROVE  IInv'
<1>1. raising' \in [Thread -> {"no", "error", "lost"}]
  BY DEF IInv, TypeOK
<1>2. TypeOK'
  BY <1>1 DEF IInv, TypeOK, sqlite
<1>3. OwnerIsInside'
  BY DEF IInv, TypeOK, OwnerIsInside, sqlite
<1>4. MarkersAreDepths' /\ AllOrNothing'
  BY DEF IInv, MarkersAreDepths, AllOrNothing, sqlite
<1>5. SavepointsAddUp'
  BY DEF IInv, SavepointsAddUp, RowsBelow, sqlite
<1> QED
  BY <1>2, <1>3, <1>4, <1>5 DEF IInv

\* An error for which SQLite rolls back by itself takes the rows of all open blocks.
LEMMA LoseKeeps ==
  ASSUME IInv, NEW t \in Thread, closed' = closed, LoseTransaction(t)
  PROVE  IInv'
<1>1. /\ owner = t /\ owner # NoThread
      /\ inTransaction' = FALSE /\ savepoints' = <<>> /\ content' = durable
      /\ raising' = [raising EXCEPT ![t] = "lost"]
      /\ UNCHANGED <<owner, stack, durable, work, reported>>
  BY DEF LoseTransaction, Inside, IInv, TypeOK
<1>2. TypeOK'
  <2>1. savepoints' \in Seq([name : Nat, rows : SUBSET Row])
    BY <1>1, EmptySeq
  <2> QED
    BY <1>1, <2>1 DEF IInv, TypeOK
<1>3. OwnerIsInside'
  <2>1. stack[t] # <<>> /\ ~closed'
    BY Depth DEF LoseTransaction, Inside
  <2>2. raising'[t] = "lost" /\ \A u \in Thread : u # t => stack[u] = <<>> /\ raising'[u] = "no"
    BY <1>1 DEF IInv, TypeOK, OwnerIsInside
  <2> QED
    BY <1>1, <2>1, <2>2 DEF OwnerIsInside
<1>4. MarkersAreDepths' /\ AllOrNothing' /\ SavepointsAddUp'
  BY <1>1 DEF IInv, MarkersAreDepths, AllOrNothing, SavepointsAddUp
<1> QED
  BY <1>2, <1>3, <1>4 DEF IInv

\* A crash leaves what is durable, and no block.
LEMMA CrashKeeps == IInv /\ Crash => IInv'
<1> SUFFICES ASSUME IInv, Crash PROVE IInv'
  OBVIOUS
<1>1. TypeOK'
  <2>1. <<>> \in Seq(Nat \cup {Outermost})
    BY EmptySeq
  <2>2. <<>> \in Seq([name : Nat, rows : SUBSET Row]) /\ <<>> \in Seq(SUBSET Row)
    BY EmptySeq
  <2> QED
    BY <2>1, <2>2 DEF Crash, IInv, TypeOK
<1>2. MarkersAreDepths'
  BY DEF Crash, MarkersAreDepths
<1>3. OwnerIsInside' /\ SavepointsAddUp' /\ AllOrNothing'
  BY DEF Crash, IInv, OwnerIsInside, SavepointsAddUp, AllOrNothing
<1> QED
  BY <1>1, <1>2, <1>3 DEF IInv

\* The outermost block ends, and with it the transaction: either all of it has
\* become durable, or nothing.
LEMMA EndKeeps ==
  ASSUME IInv, NEW t \in Thread, closed' = closed, EndsOutermost(t), NEW ok \in BOOLEAN, Leave(t, ok),
         raising[t] # "lost",
         IF ok THEN durable' = content /\ content' = content
               ELSE durable' = durable /\ content' = durable
  PROVE  IInv'
<1>1. /\ owner = t /\ stack[t] # <<>> /\ Top(stack[t]) = Outermost
      /\ inTransaction' = FALSE /\ savepoints' = <<>>
  BY DEF EndsOutermost
<1>2. Len(work) = 1 /\ Len(stack[t]) = 1 /\ inTransaction
  <2>1. PICK n \in Nat \ {0} : n = Len(work)
    BY <1>1, Depth
  <2>2. Outermost = IF n = 1 THEN Outermost ELSE n - 1
    BY <1>1, <2>1, Depth
  <2>3. n # 1 => n - 1 \in Nat
    BY <2>1
  <2>4. n = 1
    BY <2>2, <2>3
  <2> QED
    BY <1>1, <2>1, <2>4, Depth
<1>3. /\ owner' = NoThread /\ work' = <<>>
      /\ stack' \in [Thread -> Seq(Nat \cup {Outermost})]
      /\ raising' \in [Thread -> {"no", "error", "lost"}]
      /\ \A u \in Thread : u # owner' => stack'[u] = <<>> /\ raising'[u] = "no"
      /\ MarkersAreDepths'
  BY <1>1, <1>2, LeavingKeeps
<1>4. reported' = IF ok THEN reported \cup work[1] ELSE reported
  BY <1>1, <1>2, Leaving
<1>5. content = durable \cup work[1]
  <2>1. content = RowsBelow(1)
    BY <1>2 DEF IInv, SavepointsAddUp
  <2>2. 1..1 = {1}
    OBVIOUS
  <2> QED
    BY <2>1, <2>2 DEF RowsBelow
<1>6. stack[t] = <<Outermost>>
  <2>1. stack[t] \in Seq(Nat \cup {Outermost})
    BY DEF IInv, TypeOK
  <2>2. <<Outermost>> \in Seq(Nat \cup {Outermost}) /\ Len(<<Outermost>>) = 1
        /\ <<Outermost>>[1] = Outermost
    OBVIOUS
  <2>3. stack[t][1] = Outermost
    BY <1>1, <1>2 DEF Top
  <2>4. \A i \in 1..1 : i = 1
    OBVIOUS
  <2> QED
    BY <1>2, <2>1, <2>2, <2>3, <2>4, SeqEqual
<1>7. TypeOK'
  <2>1. work[1] \in SUBSET Row
    <3>1. work \in Seq(SUBSET Row) /\ 1 \in 1..Len(work)
      BY <1>2 DEF IInv, TypeOK
    <3> QED
      BY <3>1, ElementOfSeq
  <2>2. content' \subseteq Row /\ durable' \subseteq Row /\ reported' \subseteq Row
    BY <1>4, <2>1 DEF IInv, TypeOK
  <2>3. savepoints' \in Seq([name : Nat, rows : SUBSET Row]) /\ work' \in Seq(SUBSET Row)
    BY <1>1, <1>3, EmptySeq
  <2> QED
    BY <1>1, <1>3, <2>2, <2>3 DEF IInv, TypeOK
<1>8. OwnerIsInside'
  <2>1. ~closed'
    BY <1>1, Depth
  <2> QED
    BY <1>1, <1>3, <2>1 DEF OwnerIsInside
<1>9. SavepointsAddUp' /\ AllOrNothing'
  BY <1>1, <1>3, <1>4, <1>5 DEF IInv, SavepointsAddUp, AllOrNothing
<1> QED
  BY <1>3, <1>7, <1>8, <1>9 DEF IInv

\* Without its transaction a block is only popped.
LEMMA ExitLostKeeps ==
  ASSUME IInv, NEW t \in Thread, closed' = closed, ExitLost(t)
  PROVE  IInv'
<1>1. /\ owner = t /\ stack[t] # <<>> /\ raising[t] = "lost" /\ Leave(t, FALSE)
      /\ UNCHANGED <<inTransaction, savepoints, content, durable>>
  BY DEF ExitLost, sqlite
<1>2. /\ ~inTransaction /\ savepoints = <<>> /\ content = durable
  BY <1>1, Depth DEF IInv, SavepointsAddUp
<1>3. /\ reported' = reported /\ work' \in Seq(SUBSET Row)
  BY <1>1, Leaving
<1>4. /\ owner' \in Thread \cup {NoThread}
      /\ stack' \in [Thread -> Seq(Nat \cup {Outermost})]
      /\ raising' \in [Thread -> {"no", "error", "lost"}]
      /\ \A u \in Thread : u # owner' => stack'[u] = <<>> /\ raising'[u] = "no"
      /\ IF Len(work) = 1
           THEN owner' = NoThread /\ work' = <<>>
           ELSE /\ owner' = t /\ stack'[t] # <<>> /\ raising'[t] = raising[t]
                /\ Len(work') = Len(stack'[t]) /\ Len(work') <= MaxDepth
      /\ MarkersAreDepths'
  BY <1>1, LeavingKeeps
<1>5. t # NoThread
  OBVIOUS
<1>6. TypeOK'
  BY <1>1, <1>3, <1>4, <1>5 DEF IInv, TypeOK
<1>7. OwnerIsInside'
  <2>1. ~closed'
    BY <1>1, Depth
  <2> QED
    BY <1>1, <1>2, <1>4, <1>5, <2>1 DEF OwnerIsInside
<1>8. SavepointsAddUp' /\ AllOrNothing'
  BY <1>1, <1>2, <1>3 DEF IInv, SavepointsAddUp, AllOrNothing
<1> QED
  BY <1>4, <1>6, <1>7, <1>8 DEF IInv

\* An inner block ends: its rows go to the block around it, or are rolled back
\* to the savepoint, which holds the rows of the blocks around it.
LEMMA ExitInnerKeeps ==
  ASSUME IInv, NEW t \in Thread, closed' = closed, ExitInner(t), NEW n \in Nat, n = Len(work)
  PROVE  IInv'
<1> DEFINE failed == raising[t] = "error"
           S == [name : Nat, rows : SUBSET Row]
<1>1. /\ owner = t /\ stack[t] # <<>> /\ raising[t] # "lost" /\ t # NoThread
      /\ Leave(t, ~failed) /\ (~failed) \in BOOLEAN
      /\ inTransaction' = inTransaction /\ durable' = durable
  <2>1. t # NoThread /\ (~failed) \in BOOLEAN
    OBVIOUS
  <2>2. owner = t /\ stack[t] # <<>> /\ raising[t] # "lost" /\ Leave(t, ~failed)
    BY Zenon DEF ExitInner
  <2>3. inTransaction' = inTransaction /\ durable' = durable
    BY DEF ExitInner
  <2> QED
    BY <2>1, <2>2, <2>3
<1>2. n > 1 /\ Top(stack[t]) = n - 1 /\ inTransaction
  BY <1>1, Depth DEF ExitInner
<1>3. /\ Len(savepoints) = n - 1 /\ content = RowsBelow(n)
      /\ savepoints \in Seq(S)
      /\ \A k \in DOMAIN savepoints :
           savepoints[k].name = k /\ savepoints[k].rows = RowsBelow(k)
  BY <1>2 DEF IInv, SavepointsAddUp, TypeOK
<1>4. DOMAIN savepoints = 1..(n - 1) /\ n - 1 \in 1..(n - 1)
  BY <1>2, <1>3, LenProperties
<1>5. Savepoint(n - 1) = n - 1
  <2>1. /\ savepoints[n - 1].name = n - 1
        /\ \A j \in DOMAIN savepoints : savepoints[j].name = n - 1 => j <= n - 1
    BY <1>3, <1>4
  <2>2. \A i \in DOMAIN savepoints : savepoints[i].name = n - 1 => i = n - 1
    BY <1>3
  <2> QED
    BY <1>4, <2>1, <2>2 DEF Savepoint
<1>6. /\ content' = IF failed THEN RowsBelow(n - 1) ELSE content
      /\ savepoints' = SubSeq(savepoints, 1, n - 1 - 1)
  BY <1>2, <1>3, <1>4, <1>5 DEF ExitInner, RollBackTo
<1>7. /\ savepoints' \in Seq(S) /\ Len(savepoints') = n - 2
      /\ \A k \in 1..(n - 2) : savepoints'[k] = savepoints[k]
  <2>1. n - 1 \in Nat \ {0} /\ n - 1 - 1 = n - 2
    BY <1>2
  <2>2. \A i \in 1..(n - 1) : savepoints[i] \in S
    BY <1>3, ElementOfSeq
  <2> HIDE DEF S
  <2> QED
    BY <1>6, <2>1, <2>2, Front
<1>8. /\ work' \in Seq(SUBSET Row) /\ Len(work') = n - 1
      /\ \A k \in 1..(n - 2) : work'[k] = work[k]
      /\ work'[n - 1] = IF failed THEN work[n - 1] ELSE work[n - 1] \cup work[n]
      /\ reported' = reported
  <2> DEFINE ok == ~failed
  <2>1. ok \in BOOLEAN /\ Leave(t, ok) /\ (ok <=> ~failed)
    BY <1>1
  <2> HIDE DEF ok
  <2>2. /\ work' \in Seq(SUBSET Row) /\ Len(work') = Len(work) - 1
        /\ \A k \in 1..(Len(work) - 2) : work'[k] = work[k]
        /\ Len(work) > 1 =>
              work'[Len(work) - 1] =
                IF ok THEN work[Len(work) - 1] \cup work[Len(work)]
                ELSE work[Len(work) - 1]
        /\ reported' = IF ok /\ Len(work) = 1 THEN reported \cup work[1] ELSE reported
    BY <1>1, <2>1, Leaving
  <2>3. /\ work' \in Seq(SUBSET Row) /\ Len(work') = n - 1
        /\ \A k \in 1..(n - 2) : work'[k] = work[k]
        /\ n > 1 => work'[n - 1] = IF ok THEN work[n - 1] \cup work[n] ELSE work[n - 1]
        /\ reported' = IF ok /\ n = 1 THEN reported \cup work[1] ELSE reported
    BY <2>2
  <2>4. n # 1
    BY <1>2
  <2> HIDE DEF failed
  <2>5. CASE failed
    BY <1>2, <2>1, <2>3, <2>4, <2>5
  <2>6. CASE ~failed
    BY <1>2, <2>1, <2>3, <2>4, <2>6
  <2> QED
    BY <2>5, <2>6
<1>9. /\ stack' \in [Thread -> Seq(Nat \cup {Outermost})]
      /\ raising' \in [Thread -> {"no", "error", "lost"}]
      /\ \A u \in Thread : u # owner' => stack'[u] = <<>> /\ raising'[u] = "no"
      /\ owner' = t /\ stack'[t] # <<>> /\ raising'[t] = raising[t]
      /\ Len(work') = Len(stack'[t]) /\ Len(work') <= MaxDepth
      /\ MarkersAreDepths'
  <2>1. Len(work) # 1
    BY <1>2
  <2> QED
    BY <1>1, <2>1, LeavingKeeps
<1>10. \A k \in 0..(n - 2) : RowsBelow(k)' = RowsBelow(k)
  <2>1. ASSUME NEW k \in 0..(n - 2) PROVE RowsBelow(k)' = RowsBelow(k)
    <3>1. k \in Nat /\ \A j \in 1..k : work'[j] = work[j]
      BY <1>8
    <3> QED
      BY <1>1, <3>1, RowsKept
  <2> QED
    BY <2>1
<1>11. content' = RowsBelow(n - 1)'
  <2>1. 1..(n - 1) = (1..(n - 2)) \cup {n - 1} /\ n - 2 \in 0..(n - 2)
    BY <1>2
  <2>2. /\ RowsBelow(n - 1) = RowsBelow(n - 2) \cup work[n - 1]
        /\ RowsBelow(n - 1)' = RowsBelow(n - 2)' \cup work'[n - 1]
    BY <2>1 DEF RowsBelow
  <2>3. RowsBelow(n) = RowsBelow(n - 1) \cup work[n]
    BY <1>2, RowsSplit
  <2>4. RowsBelow(n - 2)' = RowsBelow(n - 2)
    BY <1>10, <2>1
  <2>5. CASE failed
    BY <1>6, <1>8, <2>2, <2>4, <2>5
  <2>6. CASE ~failed
    BY <1>3, <1>6, <1>8, <2>2, <2>3, <2>4, <2>6
  <2> QED
    BY <2>5, <2>6
<1>12. SavepointsAddUp'
  <2>1. DOMAIN savepoints' = 1..(n - 2)
    BY <1>7, LenProperties
  <2>2. \A k \in 1..(n - 2) : k \in 1..(n - 1) /\ k \in 0..(n - 2)
    BY <1>2
  <2>3. \A k \in DOMAIN savepoints' :
          savepoints'[k].name = k /\ savepoints'[k].rows = RowsBelow(k)'
    BY <1>3, <1>4, <1>7, <1>10, <2>1, <2>2
  <2>4. RowsBelow(Len(work))' = RowsBelow(n - 1)'
    BY <1>8 DEF RowsBelow
  <2>5. Len(savepoints') = Len(work') - 1
    BY <1>7, <1>8, <1>2
  <2> QED
    BY <1>1, <1>2, <1>11, <2>3, <2>4, <2>5 DEF SavepointsAddUp
<1>13. TypeOK'
  <2>1. content' \subseteq Row
    <3>1. savepoints[n - 1] \in S /\ savepoints[n - 1].rows = RowsBelow(n - 1)
      BY <1>3, <1>4, ElementOfSeq
    <3>2. RowsBelow(n - 1) \subseteq Row
      BY <3>1
    <3> QED
      BY <1>6, <3>2 DEF IInv, TypeOK
  <2> QED
    BY <1>1, <1>7, <1>8, <1>9, <2>1 DEF IInv, TypeOK
<1>14. OwnerIsInside'
  <2>1. ~closed'
    BY <1>1, Depth
  <2> QED
    BY <1>1, <1>2, <1>9, <2>1 DEF OwnerIsInside
<1>15. AllOrNothing'
  BY <1>1, <1>8 DEF IInv, AllOrNothing
<1> QED
  BY <1>9, <1>12, <1>13, <1>14, <1>15 DEF IInv

\* Closing needs the lock, so no block is open; on a closed connection a thread
\* takes the lock and does nothing with it.
LEMMA ClosedKeeps ==
  ASSUME IInv,
         \/ Close
         \/ closed' = closed /\ \E t \in Thread : EnterClosed(t)
  PROVE  IInv'
<1>1. /\ UNCHANGED <<stack, sqlite, raising, work, reported>>
      /\ closed' = TRUE /\ owner' \in Thread \cup {NoThread}
      /\ closed \/ owner = NoThread
  BY DEF Close, EnterClosed, IInv, TypeOK
<1>2. /\ work = <<>> /\ ~inTransaction
      /\ \A t \in Thread : stack[t] = <<>> /\ raising[t] = "no"
  BY <1>1 DEF IInv, TypeOK, OwnerIsInside
<1>3. TypeOK'
  <2>1. Len(work) = 0 /\ \A t \in Thread : Len(stack[t]) = 0
    BY <1>2, EmptySeq
  <2>2. 0 <= MaxDepth
    OBVIOUS
  <2>3. owner' # NoThread => Len(work') = Len(stack'[owner']) /\ Len(work') <= MaxDepth
    BY <1>1, <2>1, <2>2
  <2> QED
    BY <1>1, <2>3 DEF IInv, TypeOK, sqlite
<1>4. OwnerIsInside'
  BY <1>1, <1>2 DEF OwnerIsInside, sqlite
<1>5. MarkersAreDepths' /\ SavepointsAddUp' /\ AllOrNothing'
  BY <1>1 DEF IInv, MarkersAreDepths, SavepointsAddUp, RowsBelow, AllOrNothing, sqlite
<1> QED
  BY <1>3, <1>4, <1>5 DEF IInv

\* No step breaks the invariant.
LEMMA Step == IInv /\ [Next]_vars => IInv'
<1> SUFFICES ASSUME IInv, [Next]_vars PROVE IInv'
  OBVIOUS
<1>1. PICK n \in Nat : n = Len(work)
  <2>1. work \in Seq(SUBSET Row)
    BY DEF IInv, TypeOK
  <2> QED
    BY <2>1, LenProperties
<1>2. ASSUME NEW t \in Thread,
             \/ Enter(t) \/ EnterFails(t) \/ EnterClosed(t)
             \/ Write(t) \/ Raise(t) \/ LoseTransaction(t) \/ Handle(t)
             \/ ExitInner(t) \/ Commit(t) \/ CommitFails(t) \/ Rollback(t) \/ ExitLost(t),
             closed' = closed
      PROVE  IInv'
  <2>1. CASE Enter(t)
    BY <1>2, <1>1, <2>1, EnterKeeps
  <2>2. CASE EnterFails(t)
    <3> DEFINE how == IF stack[t] = <<>> THEN "no" ELSE "error"
    <3>1. /\ raising' = [raising EXCEPT ![t] = how] /\ how \in {"no", "error"}
          /\ UNCHANGED <<owner, stack, sqlite, work, reported>>
      BY <2>2 DEF EnterFails
    <3>2. owner # t => how = "no"
      BY DEF IInv, OwnerIsInside
    <3>3. raising[t] # "lost" /\ ~closed
      BY <2>2 DEF EnterFails, MayEnter
    <3> HIDE DEF how
    <3> QED
      BY <1>2, <3>1, <3>2, <3>3, RaisingKeeps
  <2>3. CASE Write(t)
    BY <1>2, <1>1, <2>3, WriteKeeps
  <2>4. CASE Raise(t)
    <3>1. /\ raising' = [raising EXCEPT ![t] = "error"]
          /\ UNCHANGED <<owner, stack, sqlite, work, reported>>
          /\ owner = t /\ raising[t] # "lost" /\ ~closed
      BY <2>4, Depth DEF Raise, Inside
    <3> QED
      BY <1>2, <3>1, RaisingKeeps
  <2>5. CASE LoseTransaction(t)
    BY <1>2, <2>5, LoseKeeps
  <2>6. CASE Handle(t)
    <3>1. /\ raising' = [raising EXCEPT ![t] = "no"]
          /\ UNCHANGED <<owner, stack, sqlite, work, reported>>
          /\ owner = t /\ raising[t] # "lost" /\ ~closed
      BY <2>6, Depth DEF Handle
    <3> QED
      BY <1>2, <3>1, RaisingKeeps
  <2>7. CASE ExitInner(t)
    BY <1>2, <1>1, <2>7, ExitInnerKeeps
  <2>8. CASE Commit(t)
    BY <1>2, <2>8, EndKeeps DEF Commit
  <2>9. CASE CommitFails(t)
    BY <1>2, <2>9, EndKeeps DEF CommitFails
  <2>10. CASE Rollback(t)
    BY <1>2, <2>10, EndKeeps DEF Rollback
  <2>11. CASE ExitLost(t)
    BY <1>2, <2>11, ExitLostKeeps
  <2>12. CASE EnterClosed(t)
    BY <1>2, <2>12, ClosedKeeps
  <2> QED
    BY <1>2, <2>1, <2>2, <2>3, <2>4, <2>5, <2>6, <2>7, <2>8, <2>9, <2>10, <2>11, <2>12
<1>3. CASE Crash
  BY <1>3, CrashKeeps
<1>4. CASE Close
  BY <1>4, ClosedKeeps
<1>5. CASE UNCHANGED vars
  <2>1. UNCHANGED <<closed, owner, stack, inTransaction, savepoints, content, durable>>
        /\ UNCHANGED <<raising, work, reported>>
    BY <1>5 DEF vars, sqlite
  <2> QED
    BY <2>1 DEF IInv, TypeOK, OwnerIsInside, MarkersAreDepths, SavepointsAddUp,
                RowsBelow, AllOrNothing
<1> QED
  BY <1>2, <1>3, <1>4, <1>5 DEF Next

-----------------------------------------------------------------------------
\* The savepoints of the one connection hold, one below the other, what was
\* there when each inner block was entered, and only the owner of the lock has
\* blocks open: storage/db.py's markers and lock keep this on every way out.
THEOREM Invariant == Spec => []IInv
<1> QED
  BY InitIInv, Step, PTL DEF Spec

\* Every variable keeps its type, and no thread is deeper than the bound.
THEOREM Typed == Spec => []TypeOK
<1>1. IInv => TypeOK
  BY DEF IInv
<1> QED
  BY <1>1, Invariant, PTL

\* What is durable is what the outermost blocks that ended normally were
\* reported to contain: LockedConnection.__exit__ commits or rolls back all.
THEOREM Stored == Spec => []AllOrNothing
<1>1. IInv => AllOrNothing
  BY DEF IInv
<1> QED
  BY <1>1, Invariant, PTL

\* In a transaction the connection sees what is durable and what the open
\* blocks have put in: ROLLBACK TO takes back one block and no other.
THEOREM Adding == Spec => []BlocksAddUp
<1>1. IInv => BlocksAddUp
  <2> SUFFICES ASSUME IInv, inTransaction
               PROVE  content = durable \cup UNION {work[i] : i \in DOMAIN work}
    BY DEF BlocksAddUp
  <2>1. DOMAIN work = 1..Len(work)
    BY LenProperties DEF IInv, TypeOK
  <2> QED
    BY <2>1 DEF IInv, SavepointsAddUp, RowsBelow
<1> QED
  BY <1>1, Invariant, PTL

\* On an open connection the lock is held, and a transaction open, only while its
\* owner has a block open: __enter__ and __exit__ give the lock back on every way
\* out; and JournalSystem.close, which takes the lock, finds no block open.
THEOREM Held == Spec => []HeldWhileOpen
<1>1. IInv => HeldWhileOpen
  BY DEF IInv, TypeOK, OwnerIsInside, HeldWhileOpen
<1> QED
  BY <1>1, Invariant, PTL
=============================================================================
