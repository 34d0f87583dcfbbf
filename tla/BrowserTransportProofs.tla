------------------------ MODULE BrowserTransportProofs ------------------------
(***************************************************************************)
(* Proofs about BrowserTransport, for any callers and profile files: the   *)
(* page has one user, a text is the text of the last start, a second start *)
(* follows a first one answered "unknown", and a request that comes after  *)
(* the beginning of close() sends nothing.                                 *)
(***************************************************************************)
EXTENDS BrowserTransport, TLAPS

USE BrowserAssumption

\* The caller at the head that is answered leaves the queue, and the order of
\* the others stays.
LEMMA QueueLeft ==
  ASSUME TypeOK, LockInv, NEW c \in Callers, pc[c] \in Waiting,
         Len(lock) > 0, lock[1] = c,
         pc' = [pc EXCEPT ![c] = "done"], lock' = Tail(lock)
  PROVE  lock' \in Seq(Callers) /\ LockInv'
<1> DEFINE n == Len(lock)
<1>1. /\ lock \in Seq(Callers) /\ n \in Nat /\ n > 0 /\ DOMAIN lock = 1..n
      /\ pc \in [Callers -> Waiting \cup {"idle", "done"}]
  BY DEF TypeOK
<1>2. /\ lock' \in Seq(Callers) /\ DOMAIN lock' = 1..(n - 1)
      /\ \A i \in 1..(n - 1) : lock'[i] = lock[i + 1]
  BY <1>1
<1> HIDE DEF n
<1>3. ASSUME NEW i \in 1..(n - 1)
      PROVE  i + 1 \in 1..n /\ i + 1 # 1 /\ 1 \in 1..n
  BY <1>1
<1>4. ASSUME NEW i \in 1..(n - 1) PROVE lock'[i] # c /\ pc'[lock'[i]] \in Waiting
  <2>1. lock'[i] # c /\ lock[i + 1] \in Callers /\ pc[lock[i + 1]] \in Waiting
    BY <1>1, <1>2, <1>3 DEF LockInv
  <2> QED BY <1>1, <1>2, <2>1
<1>5. ASSUME NEW i \in 1..(n - 1), NEW j \in 1..(n - 1), lock'[i] = lock'[j] PROVE i = j
  <2>1. i + 1 = j + 1
    BY <1>1, <1>2, <1>3, <1>5 DEF LockInv
  <2> QED BY <2>1
<1>6. ASSUME NEW d \in Callers, pc'[d] \in Waiting
      PROVE  (\E i \in 1..(n - 1) : lock'[i] = d) /\ pc[d] \notin InCall
  <2>1. d # c /\ pc[d] \in Waiting
    BY <1>1, <1>6 DEF Waiting, InCall, Exchange
  <2>2. PICK i \in 1..n : lock[i] = d
    BY <1>1, <2>1 DEF LockInv
  <2>3. i # 1
    BY <2>1, <2>2
  <2>4. i - 1 \in 1..(n - 1) /\ i - 1 + 1 = i
    BY <1>1, <2>2, <2>3
  <2>5. lock'[i - 1] = d
    BY <1>2, <2>2, <2>4
  <2>6. pc[d] \notin InCall
    BY <2>1 DEF LockInv, HoldsLock
  <2> QED BY <2>4, <2>5, <2>6
<1>7. \A d \in Callers : pc'[d] \in InCall => pc'[d] \in Waiting /\ pc[d] = pc'[d]
  BY <1>1 DEF InCall, Waiting, Exchange
<1>8. lock' \in Seq(Callers)
  BY <1>2
<1>9. LockInv'
  BY <1>2, <1>4, <1>5, <1>6, <1>7 DEF LockInv
<1> QED BY <1>8, <1>9

\* A caller that joins the queue joins at its end.
LEMMA QueueJoined ==
  ASSUME TypeOK, LockInv, NEW c \in Callers, pc[c] = "idle",
         pc' = [pc EXCEPT ![c] = "queued"], lock' = Append(lock, c)
  PROVE  lock' \in Seq(Callers) /\ LockInv'
<1> DEFINE n == Len(lock)
<1>1. /\ lock \in Seq(Callers) /\ n \in Nat /\ DOMAIN lock = 1..n
      /\ pc \in [Callers -> Waiting \cup {"idle", "done"}]
  BY DEF TypeOK
<1>2. /\ lock' \in Seq(Callers) /\ DOMAIN lock' = 1..(n + 1)
      /\ \A i \in 1..n : lock'[i] = lock[i] /\ i \in 1..(n + 1)
      /\ lock'[n + 1] = c /\ n + 1 \in 1..(n + 1)
      /\ \A i \in 1..(n + 1) : i \in 1..n \/ i = n + 1
  BY <1>1
<1>3. lock # <<>> => lock' # <<>> /\ Head(lock') = Head(lock)
  BY <1>1
<1> HIDE DEF n
<1>4. \A i \in 1..n : lock[i] # c /\ lock[i] \in Callers
  BY <1>1 DEF LockInv, Waiting, InCall, Exchange
<1>5. \A i \in 1..(n + 1) : pc'[lock'[i]] \in Waiting
  BY <1>1, <1>2, <1>4 DEF LockInv, Waiting, InCall, Exchange
<1>6. \A i, j \in 1..(n + 1) : lock'[i] = lock'[j] => i = j
  BY <1>1, <1>2, <1>4 DEF LockInv
<1>7. \A d \in Callers : pc'[d] \in Waiting => \E i \in 1..(n + 1) : lock'[i] = d
  BY <1>1, <1>2 DEF LockInv
<1>8. \A d \in Callers : pc'[d] \in InCall => lock' # <<>> /\ Head(lock') = d
  BY <1>1, <1>3 DEF LockInv, InCall, Exchange, HoldsLock
<1>9. LockInv'
  BY <1>2, <1>5, <1>6, <1>7, <1>8 DEF LockInv, HoldsLock
<1> QED BY <1>2, <1>9

\* Moving on inside the call keeps the queue.
LEMMA QueueKept ==
  ASSUME TypeOK, LockInv, NEW c \in Callers, pc[c] \in Waiting,
         lock # <<>>, HoldsLock(c),
         NEW p \in InCall, pc' = [pc EXCEPT ![c] = p], lock' = lock
  PROVE  LockInv'
  BY DEF TypeOK, LockInv, Waiting, InCall, Exchange, HoldsLock

\* A step of a call is taken by the head of the queue; it ends the call or
\* takes it on.
LEMMA Serving ==
  ASSUME TypeOK, LockInv, NEW c \in Callers, Serve(c)
  PROVE  /\ pc[c] \in Waiting
         /\ Len(lock) > 0 /\ lock[1] = c /\ lock # <<>> /\ HoldsLock(c)
         /\ \/ \E status \in Statuses \ {"none", "400", "503"} : Leave(c, status)
            \/ \E p \in InCall : GoTo(c, p)
<1>1. pc[c] \in Waiting /\ lock # <<>> /\ HoldsLock(c)
  <2>1. CASE Start(c)
    <3>1. pc[c] = "queued" /\ HoldsLock(c)
      BY <2>1 DEF Start
    <3>2. \E i \in DOMAIN lock : lock[i] = c
      BY <3>1 DEF LockInv, Waiting
    <3>3. lock # <<>>
      BY <3>2
    <3> QED BY <3>1, <3>3 DEF Waiting
  <2>2. CASE ~Start(c)
    BY <2>2, Serve(c)
      DEF Serve, StartAnswered, ProvisionAnswered, RestartAnswered, StatusAnswered, Wake,
          LockInv, InCall, Exchange, Waiting
  <2> QED BY <2>1, <2>2
<1>2. Len(lock) > 0 /\ lock[1] = c
  BY <1>1 DEF TypeOK, HoldsLock
<1>3. \/ \E status \in Statuses \ {"none", "400", "503"} : Leave(c, status)
      \/ \E p \in InCall : GoTo(c, p)
  <2>1. \A a : Settle(c, a) => Leave(c, "500") \/ Leave(c, "502") \/ GoTo(c, "polling")
    BY DEF Settle
  <2>2. \/ Leave(c, "200") \/ Leave(c, "500") \/ Leave(c, "502") \/ Leave(c, "504")
        \/ GoTo(c, "starting") \/ GoTo(c, "provision") \/ GoTo(c, "restarting")
        \/ GoTo(c, "polling") \/ GoTo(c, "sleeping")
    BY <2>1, Serve(c), Zenon
      DEF Serve, Start, CannotSend, StartAnswered, ProvisionAnswered, RestartAnswered,
          StatusAnswered, Wake
  <2> QED BY <2>2 DEF Statuses, InCall, Exchange
<1> QED BY <1>1, <1>2, <1>3

\* Every step keeps LockInv: only an idle caller joins, only the head leaves or
\* moves on inside the call.
LEMMA LockStep ==
  ASSUME TypeOK, LockInv, [Next]_vars
  PROVE  lock' \in Seq(Callers) /\ LockInv'
<1>1. ASSUME NEW c \in Callers, Serve(c) PROVE lock' \in Seq(Callers) /\ LockInv'
  <2>1. CASE \E status \in Statuses : Leave(c, status)
    BY <1>1, <2>1, Serving, QueueLeft DEF Leave, AfterRelease
  <2>2. ASSUME NEW p \in InCall, GoTo(c, p) PROVE lock' \in Seq(Callers) /\ LockInv'
    BY <1>1, <2>2, Serving, QueueKept DEF GoTo, TypeOK
  <2> QED BY <1>1, <2>1, <2>2, Serving
<1>2. ASSUME NEW c \in Callers, Receive(c) PROVE lock' \in Seq(Callers) /\ LockInv'
  <2>1. CASE pc' = [pc EXCEPT ![c] = "queued"] /\ lock' = Append(lock, c)
    BY <1>2, <2>1, QueueJoined DEF Receive
  <2>2. CASE pc' = [pc EXCEPT ![c] = "done"] /\ lock' = lock
    <3>1. pc[c] = "idle"
      BY <1>2 DEF Receive
    <3>2. \A d \in Callers : pc'[d] = IF d = c THEN "done" ELSE pc[d]
      BY <2>2 DEF TypeOK
    <3>3. \A i \in DOMAIN lock : lock[i] \in Callers
      BY DEF TypeOK
    <3> QED BY <2>2, <3>1, <3>2, <3>3 DEF TypeOK, LockInv, Waiting, InCall, Exchange, HoldsLock
  <2> QED BY <1>2, <2>1, <2>2 DEF Receive
<1>3. CASE UNCHANGED <<lock, pc>>
  BY <1>3 DEF TypeOK, LockInv, HoldsLock
<1> QED BY <1>1, <1>2, <1>3
          DEF Next, Initialize, PageLost, BeginClose, FinishClose, TimePasses,
              UpstreamBegins, UpstreamEnds, vars

\* Types of everything but the profile's file and the queue of the lock.
Typed ==
  /\ server \in {"down", "failed", "serving", "closing", "closed"}
  /\ browser \in {"none", "driver", "context", "page"}
  /\ is_ready \in BOOLEAN
  /\ pc \in [Callers -> Waiting \cup {"idle", "done"}]
  /\ late \in [Callers -> BOOLEAN]
  /\ starts \in [Callers -> 0..2]
  /\ answer \in [Callers -> [of: 0..2, is: StartAnswers]]
  /\ reply \in [Callers -> Statuses]
  /\ upstream \in [Generations -> {"none", "sent", "running", "success", "failed"}]

\* A start request counts once for its caller, and the one generation it may
\* begin is that start's.
LEMMA Sent ==
  ASSUME Typed, NEW c \in Callers, starts[c] \in 0..1, Send(c)
  PROVE  /\ starts' = [starts EXCEPT ![c] = @ + 1] /\ starts'[c] = starts[c] + 1
         /\ starts' \in [Callers -> 0..2]
         /\ upstream' \in [Generations -> {"none", "sent", "running", "success", "failed"}]
         /\ \A d \in Callers, k \in 1..2 :
              upstream'[<<d, k>>] # upstream[<<d, k>>] => d = c /\ k = starts[c] + 1
<1>1. starts' = [starts EXCEPT ![c] = @ + 1] /\ starts'[c] = starts[c] + 1
  BY DEF Send, Typed
<1>2. starts' \in [Callers -> 0..2]
  BY <1>1 DEF Typed
<1> DEFINE g == <<c, starts[c] + 1>>
<1>3. g \in Generations /\ \A d \in Callers, k \in 1..2 : <<d, k>> \in Generations
  BY DEF Generations
<1>4. upstream \in [Generations -> {"none", "sent", "running", "success", "failed"}]
  BY DEF Typed
<1>5. upstream' = [upstream EXCEPT ![g] = "sent"]
  BY <1>1 DEF Send
<1>6. \A d \in Callers, k \in 1..2 : <<d, k>> = g => d = c /\ k = starts[c] + 1
  OBVIOUS
<1> HIDE DEF g
<1>7. upstream' \in [Generations -> {"none", "sent", "running", "success", "failed"}]
  BY <1>3, <1>4, <1>5
<1>8. \A d \in Callers, k \in 1..2 :
        upstream'[<<d, k>>] # upstream[<<d, k>>] => d = c /\ k = starts[c] + 1
  BY <1>3, <1>4, <1>5, <1>6
<1> QED BY <1>1, <1>2, <1>7, <1>8

\* What is said of a caller stays true while nothing of that caller changes.
LEMMA OthersKept ==
  ASSUME NEW d \in Callers, CallOf(d), ReplyOf(d),
         UNCHANGED <<pc[d], starts[d], answer[d], reply[d]>>,
         \A k \in 1..2 : upstream'[<<d, k>>] = upstream[<<d, k>>], starts[d] \in 0..2
  PROVE  CallOf(d)' /\ ReplyOf(d)'
BY DEF CallOf, ReplyOf

\* A step of a caller's own call keeps what is said of that caller, and changes
\* nothing of any other.
LEMMA OwnStep ==
  ASSUME Typed, NEW c \in Callers,
         CallOf(c), ReplyOf(c), pc[c] \in Waiting, Serve(c)
  PROVE  /\ Typed' /\ CallOf(c)' /\ ReplyOf(c)' /\ UNCHANGED service
         /\ \A d \in Callers \ {c} :
              /\ UNCHANGED <<pc[d], starts[d], answer[d], reply[d]>>
              /\ \A k \in 1..2 : upstream'[<<d, k>>] = upstream[<<d, k>>]
<1> USE DEF Waiting, InCall, Exchange
<1> DEFINE Goal == /\ Typed' /\ CallOf(c)' /\ ReplyOf(c)' /\ UNCHANGED service
                   /\ \A d \in Callers \ {c} :
                        /\ UNCHANGED <<pc[d], starts[d], answer[d], reply[d]>>
                        /\ \A k \in 1..2 : upstream'[<<d, k>>] = upstream[<<d, k>>]
<1>1. /\ starts[c] \in 0..2 /\ starts[c] < 3 /\ answer[c].is \in StartAnswers
      /\ \A d \in Callers, k \in 1..2 : <<d, k>> \in Generations
      /\ reply[c] = "none"
  BY DEF Typed, Generations, ReplyOf
<1>2. ASSUME NEW status \in Statuses, Leave(c, status)
      PROVE  /\ pc' \in [Callers -> Waiting \cup {"idle", "done"}]
             /\ reply' \in [Callers -> Statuses] /\ late' \in [Callers -> BOOLEAN]
             /\ pc'[c] = "done" /\ reply'[c] = status
             /\ \A d \in Callers \ {c} : UNCHANGED <<pc[d], reply[d]>>
  BY <1>2 DEF Leave, Typed
<1>3. ASSUME NEW p \in InCall, GoTo(c, p)
      PROVE  /\ pc' \in [Callers -> Waiting \cup {"idle", "done"}]
             /\ reply' \in [Callers -> Statuses] /\ late' \in [Callers -> BOOLEAN]
             /\ pc'[c] = p /\ reply'[c] = "none"
             /\ \A d \in Callers \ {c} : UNCHANGED <<pc[d], reply[d]>>
  BY <1>1, <1>3 DEF GoTo, Typed
<1>4. ASSUME NEW a, Settle(c, a)
      PROVE  \/ \E st \in {"500", "502"} : Leave(c, st)
             \/ HasIds(a) /\ GoTo(c, "polling")
  BY <1>4 DEF Settle
<1>5. {"200", "500", "502", "504"} \subseteq Statuses
  BY DEF Statuses
<1>6. ASSUME Send(c), UNCHANGED <<service, answer>>,
             \/ pc[c] = "queued" /\ GoTo(c, "starting")
             \/ pc[c] = "provision" /\ GoTo(c, "restarting")
      PROVE  Goal
  <2>1. starts[c] \in 0..1 /\ (pc[c] = "queued" => starts[c] = 0)
                          /\ (pc[c] = "provision" => starts[c] = 1)
    BY <1>6 DEF CallOf
  <2> DEFINE n == starts[c] + 1
  <2>2. /\ starts'[c] = n /\ starts' \in [Callers -> 0..2]
        /\ upstream' \in [Generations -> {"none", "sent", "running", "success", "failed"}]
        /\ \A d \in Callers, k \in 1..2 :
              upstream'[<<d, k>>] # upstream[<<d, k>>] => d = c /\ k = n
        /\ \A d \in Callers \ {c} : UNCHANGED <<starts[d], answer[d]>>
    BY <1>6, <2>1, Sent DEF Typed
  <2>3. \A k \in 1..2 : upstream'[<<c, k>>] # "none" => k <= n
    BY <2>1, <2>2 DEF CallOf
  <2>4. (pc[c] = "queued" => n = 1) /\ (pc[c] = "provision" => n = 2)
    BY <2>1
  <2> HIDE DEF n
  <2> QED BY <1>3, <1>6, <2>2, <2>3, <2>4 DEF Typed, CallOf, ReplyOf, service
<1>7. ASSUME NEW st \in {"500", "502", "504"}, Leave(c, st),
             UNCHANGED <<service, starts, answer, upstream>>
      PROVE  Goal
  BY <1>1, <1>2, <1>5, <1>7 DEF Typed, CallOf, ReplyOf, service
<1>8. ASSUME NEW a, Answered(c, a)
      PROVE  /\ answer' \in [Callers -> [of: 0..2, is: StartAnswers]]
             /\ answer'[c] = [of |-> starts[c], is |-> a]
             /\ answer'[c].of = starts[c] /\ answer'[c].is = a
             /\ UNCHANGED <<service, starts, upstream>>
             /\ \A d \in Callers \ {c} : UNCHANGED <<starts[d], answer[d]>>
  <2>1. a \in StartAnswers
    BY <1>8 DEF Answered, FromPage, StartAnswers
  <2> QED BY <1>1, <1>8, <2>1 DEF Answered, Typed
<1>9. ASSUME NEW a, Answered(c, a), pc[c] \in {"starting", "restarting"},
             \/ HasReason(a) /\ pc[c] = "starting" /\ GoTo(c, "provision")
             \/ Settle(c, a)
      PROVE  Goal
  <2>1. starts[c] > 0 /\ (pc[c] = "starting" => starts[c] = 1)
    BY <1>9 DEF CallOf
  <2>2. ASSUME NEW st \in {"500", "502"}, Leave(c, st) PROVE Goal
    BY <1>1, <1>2, <1>5, <1>8, <1>9, <2>1, <2>2 DEF Typed, CallOf, ReplyOf, service
  <2>3. ASSUME NEW p \in {"provision", "polling"}, GoTo(c, p),
               \/ HasReason(a) /\ p = "provision" /\ starts[c] = 1
               \/ HasIds(a) /\ p = "polling"
        PROVE  Goal
    <3>1. Typed' /\ UNCHANGED service
      BY <1>3, <1>8, <1>9, <2>3 DEF Typed, service
    <3>2. CallOf(c)'
      BY <1>1, <1>3, <1>8, <1>9, <2>1, <2>3 DEF CallOf
    <3>3. ReplyOf(c)'
      BY <1>3, <2>3 DEF ReplyOf
    <3> QED BY <1>3, <1>8, <1>9, <2>3, <3>1, <3>2, <3>3
  <2> QED BY <1>4, <1>9, <2>1, <2>2, <2>3
<1>10. CASE Start(c)
  BY <1>6, <1>7, <1>10 DEF Start, CannotSend
<1>11. CASE StartAnswered(c) \/ RestartAnswered(c)
  BY <1>9, <1>11 DEF StartAnswered, RestartAnswered
<1>12. CASE ProvisionAnswered(c)
  <2>1. pc[c] = "provision" /\ UNCHANGED <<service, answer>>
    BY <1>12 DEF ProvisionAnswered
  <2>2. CASE Send(c) /\ GoTo(c, "restarting")
    BY <1>6, <2>1, <2>2
  <2>3. CASE HasIds(answer[c].is) /\ GoTo(c, "polling") /\ UNCHANGED <<starts, upstream>>
    BY <1>1, <1>3, <2>1, <2>3 DEF Typed, CallOf, ReplyOf, service
  <2>4. ASSUME NEW st \in {"500", "502"}, Leave(c, st), UNCHANGED <<starts, upstream>>
        PROVE  Goal
    BY <1>7, <2>1, <2>4
  <2> QED BY <1>4, <1>12, <2>2, <2>3, <2>4 DEF ProvisionAnswered
<1>13. CASE StatusAnswered(c)
  <2>1. pc[c] = "polling" /\ UNCHANGED <<service, starts, answer, upstream>>
    BY <1>13 DEF StatusAnswered
  <2>2. CASE Leave(c, "200") /\ upstream[<<c, answer[c].of>>] = "success"
    BY <1>1, <1>2, <1>5, <2>1, <2>2 DEF Typed, CallOf, ReplyOf, service
  <2>3. CASE GoTo(c, "sleeping")
    BY <1>1, <1>3, <2>1, <2>3 DEF Typed, CallOf, ReplyOf, service
  <2>4. \/ Leave(c, "500") \/ Leave(c, "502") \/ GoTo(c, "sleeping")
        \/ Leave(c, "200") /\ upstream[<<c, answer[c].of>>] = "success"
    BY <1>13 DEF StatusAnswered, StatusOf
  <2> QED BY <1>7, <2>1, <2>2, <2>3, <2>4
<1>14. CASE Wake(c)
  <2>1. pc[c] = "sleeping" /\ UNCHANGED <<service, starts, answer, upstream>>
    BY <1>14 DEF Wake
  <2>2. CASE GoTo(c, "polling")
    BY <1>1, <1>3, <2>1, <2>2 DEF Typed, CallOf, ReplyOf, service
  <2>3. Leave(c, "500") \/ Leave(c, "504") \/ GoTo(c, "polling")
    BY <1>14 DEF Wake
  <2> QED BY <1>7, <2>1, <2>2, <2>3
<1> QED BY <1>10, <1>11, <1>12, <1>13, <1>14, Serve(c) DEF Serve

\* The first state has no caller in the queue, no start and no generation.
LEMMA Initially == Init => IInv
<1> SUFFICES ASSUME Init PROVE IInv
  OBVIOUS
<1>1. TypeOK
  <2>1. file \in ProfileFile /\ lock \in Seq(Callers)
    BY DEF Init
  <2>2. /\ answer \in [Callers -> [of: 0..2, is: StartAnswers]]
        /\ reply \in [Callers -> Statuses] /\ starts \in [Callers -> 0..2]
    BY DEF Init, Statuses, StartAnswers
  <2>3. upstream \in [Generations -> {"none", "sent", "running", "success", "failed"}]
    BY DEF Init
  <2>4. /\ pc \in [Callers -> Waiting \cup {"idle", "done"}]
        /\ is_ready \in BOOLEAN /\ late \in [Callers -> BOOLEAN]
    BY DEF Init
  <2> QED BY <2>1, <2>2, <2>3, <2>4 DEF Init, TypeOK
<1>2. LockInv
  BY DEF Init, LockInv, Waiting, InCall, Exchange
<1>3. CallInv
  <2>1. \A c \in Callers, k \in 1..2 : <<c, k>> \in Generations
    BY DEF Generations
  <2>2. ASSUME NEW c \in Callers
        PROVE  /\ pc[c] = "idle" /\ starts[c] = 0 /\ reply[c] = "none"
               /\ \A k \in 1..2 : upstream[<<c, k>>] = "none"
    BY <2>1 DEF Init
  <2>3. ASSUME NEW c \in Callers PROVE CallOf(c) /\ ReplyOf(c)
    <3>1. CallOf(c)
      BY <2>2 DEF CallOf
    <3>2. ReplyOf(c)
      BY <2>2 DEF ReplyOf
    <3> QED BY <3>1, <3>2
  <2> QED BY <2>3 DEF CallInv
<1>4. CloseInv
  BY DEF Init, CloseInv, Closing
<1> QED BY <1>1, <1>2, <1>3, <1>4 DEF IInv

\* Every step keeps the invariant: the callers' own steps by OwnStep, an end
\* upstream because it only turns "running" into an end, the life of the browser
\* because it touches no caller.
LEMMA Step == IInv /\ [Next]_vars => IInv'
<1> SUFFICES ASSUME IInv, [Next]_vars PROVE IInv'
  OBVIOUS
<1>0. /\ TypeOK /\ LockInv /\ CallInv /\ CloseInv /\ Typed
      /\ lock' \in Seq(Callers) /\ LockInv'
      /\ \A c \in Callers, k \in 1..2 : <<c, k>> \in Generations
  BY LockStep DEF IInv, TypeOK, Typed, Generations
<1>1. ASSUME file' = file \/ file' = Tightened(file), Typed' PROVE TypeOK'
  <2>1. file' \in ProfileFile
    BY <1>0, <1>1 DEF TypeOK, ProfileFile, Tightened
  <2> QED BY <1>0, <1>1, <2>1 DEF TypeOK, Typed
<1>2. ASSUME NEW c \in Callers, Serve(c) PROVE IInv'
  <2>1. pc[c] \in Waiting /\ CallOf(c) /\ ReplyOf(c)
    BY <1>0, <1>2, Serving DEF CallInv
  <2>2. /\ Typed' /\ CallOf(c)' /\ ReplyOf(c)' /\ UNCHANGED service
        /\ \A d \in Callers \ {c} :
              /\ UNCHANGED <<pc[d], starts[d], answer[d], reply[d]>>
              /\ \A k \in 1..2 : upstream'[<<d, k>>] = upstream[<<d, k>>]
    BY <1>0, <1>2, <2>1, OwnStep
  <2>3. ASSUME NEW d \in Callers PROVE CallOf(d)' /\ ReplyOf(d)'
    BY <1>0, <2>2, <2>3, OthersKept DEF CallInv, Typed
  <2> QED BY <1>0, <1>1, <2>2, <2>3 DEF IInv, CallInv, CloseInv, Closing, service
<1>3. ASSUME NEW c \in Callers, Receive(c) PROVE IInv'
  <2>1. /\ UNCHANGED <<service, late, starts, answer, upstream>> /\ pc[c] = "idle"
        /\ \/ pc' = [pc EXCEPT ![c] = "queued"] /\ reply' = reply
           \/ \E s \in {"400", "503"} :
                pc' = [pc EXCEPT ![c] = "done"] /\ reply' = [reply EXCEPT ![c] = s]
    BY <1>3 DEF Receive
  <2>2. Typed'
    BY <1>0, <2>1 DEF Typed, Statuses, Waiting, InCall, Exchange, service
  <2>3. CallOf(c)' /\ ReplyOf(c)'
    BY <1>0, <2>1 DEF Typed, CallInv, CallOf, ReplyOf
  <2>4. ASSUME NEW d \in Callers \ {c} PROVE CallOf(d)' /\ ReplyOf(d)'
    BY <1>0, <2>1, OthersKept DEF CallInv, Typed
  <2> QED BY <1>0, <1>1, <2>1, <2>2, <2>3, <2>4 DEF IInv, CallInv, CloseInv, Closing, service
<1>4. ASSUME NEW g \in Generations, UpstreamBegins(g) \/ UpstreamEnds(g) PROVE IInv'
  <2>1. PICK c \in Callers, k \in 1..2 : g = <<c, k>>
    BY DEF Generations
  <2>2. /\ UNCHANGED <<service, lock, pc, late, starts, answer, reply>>
        /\ upstream[g] \in {"sent", "running"} /\ g \in Generations
        /\ \E to \in {"running", "success", "failed"} : upstream' = [upstream EXCEPT ![g] = to]
    BY <1>4 DEF UpstreamBegins, UpstreamEnds
  <2>3. Typed'
    BY <1>0, <2>2 DEF Typed, service
  <2>4. \A h \in Generations : /\ upstream'[h] = "none" <=> upstream[h] = "none"
                               /\ upstream[h] = "success" => upstream'[h] = "success"
    BY <1>0, <2>2 DEF Typed
  <2>5. ASSUME NEW d \in Callers PROVE CallOf(d)' /\ ReplyOf(d)'
    <3>1. starts[d] \in 0..2 /\ CallOf(d) /\ ReplyOf(d)
      BY <1>0 DEF Typed, CallInv
    <3>2. \A j \in 1..2 : /\ upstream'[<<d, j>>] = "none" <=> upstream[<<d, j>>] = "none"
                          /\ upstream[<<d, j>>] = "success" => upstream'[<<d, j>>] = "success"
      BY <1>0, <2>4
    <3>3. starts[d] > 0 => starts[d] \in 1..2
      BY <3>1
    <3> QED BY <2>2, <3>1, <3>2, <3>3 DEF CallOf, ReplyOf
  <2> QED BY <1>0, <1>1, <2>2, <2>3, <2>5 DEF IInv, CallInv, CloseInv, Closing, service
<1>5. CASE \/ Initialize \/ PageLost \/ BeginClose \/ FinishClose \/ UNCHANGED vars
           \/ \E c \in Callers : TimePasses(c)
  <2>1. UNCHANGED <<lock, pc, starts, answer, reply, upstream>>
    BY <1>5 DEF Initialize, PageLost, BeginClose, FinishClose, TimePasses, vars
  <2>2. Typed' /\ CloseInv' /\ (file' = file \/ file' = Tightened(file))
    <3> USE DEF Typed, CloseInv, Closing
    <3>1. CASE UNCHANGED <<service, late>>
      BY <1>0, <2>1, <3>1 DEF service
    <3>2. CASE Initialize
      BY <1>0, <2>1, <3>2 DEF Initialize
    <3>3. CASE PageLost
      BY <1>0, <2>1, <3>3 DEF PageLost
    <3>4. CASE BeginClose
      BY <1>0, <2>1, <3>4 DEF BeginClose, ReadyInClose
    <3>5. CASE FinishClose
      BY <1>0, <2>1, <3>5 DEF FinishClose
    <3>6. ASSUME NEW c \in Callers, TimePasses(c)
          PROVE  Typed' /\ CloseInv' /\ file' = file
      <4>1. late' \in [Callers -> BOOLEAN] /\ UNCHANGED service
        BY <1>0, <3>6 DEF TimePasses
      <4> QED BY <1>0, <2>1, <4>1 DEF service
    <3> QED BY <1>5, <3>1, <3>2, <3>3, <3>4, <3>5, <3>6 DEF vars
  <2>3. CallInv'
    <3>1. ASSUME NEW c \in Callers PROVE CallOf(c)' /\ ReplyOf(c)'
      BY <1>0, <2>1, OthersKept DEF CallInv, Typed
    <3> QED BY <3>1 DEF CallInv
  <2> QED BY <1>0, <1>1, <2>2, <2>3 DEF IInv
<1> QED BY <1>2, <1>3, <1>4, <1>5 DEF Next

\* The inductive invariant of submit_and_poll and of the server that calls it.
THEOREM Correct == Spec => []IInv
BY Initially, Step, PTL DEF Spec

\* Every variable of the browser transport has its type.
THEOREM WellTyped == Spec => []TypeOK
<1>1. IInv => TypeOK
  BY DEF IInv
<1> QED BY <1>1, Correct, PTL

\* async with self._lock: one caller at a time is inside submit_and_poll.
THEOREM OneUserOfThePage ==
  Spec => [](\A c, d \in Callers : pc[c] \in InCall /\ pc[d] \in InCall => c = d)
<1>1. IInv => \A c, d \in Callers : pc[c] \in InCall /\ pc[d] \in InCall => c = d
  BY DEF IInv, LockInv, HoldsLock
<1> QED BY <1>1, Correct, PTL

\* A text that submit_and_poll returns is the text of the generation its last
\* start began, and that generation had succeeded.
THEOREM TextsOfLastStart == Spec => []TextIsOfLastStart
<1>1. IInv => TextIsOfLastStart
  BY DEF IInv, TypeOK, CallInv, CallOf, ReplyOf, TextIsOfLastStart
<1> QED BY <1>1, Correct, PTL

\* submit_and_poll sends a second start only after an answer "unknown" to the
\* first, and never a third.
THEOREM SecondStarts == Spec => SecondStartAnswersUnknown
<1>1. IInv /\ [Next]_vars =>
        [\A c \in Callers : starts'[c] # starts[c] =>
           /\ starts[c] < 2
           /\ starts[c] = 1 => answer[c].of = 1 /\ HasReason(answer[c].is)]_vars
  <2> SUFFICES ASSUME IInv, [Next]_vars, NEW c \in Callers, starts'[c] # starts[c]
               PROVE  /\ starts[c] < 2
                      /\ starts[c] = 1 => answer[c].of = 1 /\ HasReason(answer[c].is)
    OBVIOUS
  <2>1. PICK d \in Callers : /\ Send(d)
                             /\ pc[d] = "queued" \/ pc[d] = "provision"
    BY DEF Next, Initialize, PageLost, BeginClose, FinishClose, Receive, Serve, TimePasses,
           Start, CannotSend, StartAnswered, ProvisionAnswered, RestartAnswered, Answered,
           StatusAnswered, Wake, UpstreamBegins, UpstreamEnds, vars
  <2>2. c = d
    BY <2>1 DEF Send, IInv, TypeOK
  <2>3. CallOf(c)
    BY DEF IInv, CallInv
  <2> QED BY <2>1, <2>2, <2>3 DEF CallOf
<1> QED BY <1>1, Correct, PTL DEF Spec, SecondStartAnswersUnknown

\* A request that comes once close() has begun is refused for good: close()
\* clears the flag before it tries to close anything, and nothing sets it again.
THEOREM LateOnesRefused == Spec => LateCallersSendNothing
<1> SUFFICES ASSUME NEW c \in Callers
             PROVE  Spec => [](Closing /\ pc[c] = "idle" => [](starts[c] = 0))
  BY DEF LateCallersSendNothing
<1> DEFINE Refused == Closing /\ pc[c] \in {"idle", "done"} /\ starts[c] = 0
<1>1. IInv => (Closing /\ pc[c] = "idle" => Refused)
  BY DEF IInv, CallInv, CallOf
<1>2. IInv /\ Refused /\ [Next]_vars => Refused'
  <2> SUFFICES ASSUME IInv, Refused, [Next]_vars PROVE Refused'
    OBVIOUS
  <2>0. TypeOK /\ LockInv /\ ~is_ready
    BY DEF IInv, CloseInv
  <2>1. ASSUME NEW d \in Callers, Serve(d) PROVE Refused'
    <3>1. Typed /\ CallOf(d) /\ ReplyOf(d) /\ pc[d] \in Waiting
      BY <2>0, <2>1, Serving DEF IInv, TypeOK, Typed, CallInv
    <3>2. d # c
      BY <3>1 DEF Waiting, InCall, Exchange
    <3>3. UNCHANGED <<service, pc[c], starts[c]>>
      BY <2>1, <3>1, <3>2, OwnStep
    <3> QED BY <3>3 DEF service, Closing
  <2>2. ASSUME NEW d \in Callers, Receive(d) PROVE Refused'
    BY <2>0, <2>2 DEF Receive, ReadyNow, service, Closing, TypeOK
  <2>3. CASE \/ Initialize \/ PageLost \/ BeginClose \/ FinishClose \/ UNCHANGED vars
             \/ \E d \in Callers : TimePasses(d)
             \/ \E g \in Generations : UpstreamBegins(g) \/ UpstreamEnds(g)
    BY <2>3 DEF Initialize, PageLost, BeginClose, FinishClose, TimePasses, UpstreamBegins,
                UpstreamEnds, vars, service, Closing
  <2> QED BY <2>1, <2>2, <2>3 DEF Next
<1>3. Refused => starts[c] = 0
  OBVIOUS
<1> QED BY <1>1, <1>2, <1>3, Correct, PTL DEF Spec
=============================================================================
