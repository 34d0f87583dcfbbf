-------------------------- MODULE PrismHttpProofs --------------------------
(***************************************************************************)
(* Proofs about PrismHttp, for any runs, conversations and accounts: what  *)
(* an observation reports is the end of its own run's turn, a refusal is   *)
(* never followed by a turn, and a start no change of the profile ran into *)
(* goes out under the account it names.                                    *)
(***************************************************************************)
EXTENDS PrismHttp, TLAPS

USE HttpAssumption

\* The kinds of a list of events, spelled out.
LEMMA KindsOfLists ==
  /\ Kinds(<<>>) = {}
  /\ \A e : Kinds(<<e>>) = {e}
  /\ \A e, f : Kinds(<<e, f>>) = {e, f}
<1>1. Kinds(<<>>) = {}
  BY DEF Kinds
<1>2. ASSUME NEW e PROVE Kinds(<<e>>) = {e}
  <2>1. DOMAIN <<e>> = {1} /\ <<e>>[1] = e
    OBVIOUS
  <2> QED
    BY <2>1 DEF Kinds
<1>3. ASSUME NEW e, NEW f PROVE Kinds(<<e, f>>) = {e, f}
  <2>1. DOMAIN <<e, f>> = {1, 2} /\ <<e, f>>[1] = e /\ <<e, f>>[2] = f
    OBVIOUS
  <2> QED
    BY <2>1 DEF Kinds
<1> QED
  BY <1>1, <1>2, <1>3

\* What the parser may return.
LEMMA EventLists ==
  /\ <<>> \in Seq(Event)
  /\ \A e \in Event : <<e>> \in Seq(Event)
  /\ \A e, f \in Event : <<e, f>> \in Seq(Event)
OBVIOUS

\* What an answer about a turn may look like.
LEMMA Bodies ==
  ASSUME NEW state, NEW b \in BodiesOf(state)
  PROVE  /\ b \in Body
         /\ b.root = "failed" \/ b.res = "error" => state = "failed"
         /\ b.root = "cancelled" => state = "cancelled"
         /\ b.root = "completed" /\ b.res = "success" => state = "success"
         /\ b.root = "completed" => state \in Ended
BY DEF BodiesOf, Says, Body, Ended

\* The parser's events have their types, and it reports an end only when the
\* answer says so: the four lines of parse_status_event that yield one.
LEMMA Parsing ==
  ASSUME NEW state, NEW b \in BodiesOf(state)
  PROVE  /\ Parse(b) \in Seq(Event)
         /\ "RunCompleted" \in Kinds(Parse(b)) => state = "success"
         /\ "RunFailed" \in Kinds(Parse(b)) => state = "failed"
         /\ "CancellationConfirmed" \in Kinds(Parse(b)) => state = "cancelled"
<1>1. CASE b.res = "error" \/ b.root = "failed"
  <2>1. Parse(b) = <<"RunFailed">> /\ Kinds(<<"RunFailed">>) = {"RunFailed"}
    BY <1>1, KindsOfLists DEF Parse
  <2> QED
    BY <1>1, <2>1, Bodies, EventLists DEF Event, Terminal
<1>2. CASE ~(b.res = "error" \/ b.root = "failed") /\ b.root = "cancelled"
  <2>1. /\ Parse(b) = <<"CancellationConfirmed">>
        /\ Kinds(<<"CancellationConfirmed">>) = {"CancellationConfirmed"}
    BY <1>2, KindsOfLists DEF Parse
  <2> QED
    BY <1>2, <2>1, Bodies, EventLists DEF Event, Terminal
<1>3. CASE b.res = "success" /\ b.root = "completed"
  <2>1. state = "success"
    BY <1>3, Bodies
  <2>2. Parse(b) \in {<<"TextDelta", "RunCompleted">>, <<"RunCompleted">>,
                      <<"ProtocolUnknown">>}
    BY <1>3 DEF Parse
  <2>3. /\ Kinds(<<"TextDelta", "RunCompleted">>) = {"TextDelta", "RunCompleted"}
        /\ Kinds(<<"RunCompleted">>) = {"RunCompleted"}
        /\ Kinds(<<"ProtocolUnknown">>) = {"ProtocolUnknown"}
    BY KindsOfLists
  <2>4. Parse(b) \in Seq(Event)
    BY <2>2, EventLists DEF Event, Terminal
  <2> QED
    BY <2>1, <2>2, <2>3, <2>4
<1>4. CASE /\ ~(b.res = "error" \/ b.root = "failed") /\ b.root # "cancelled"
           /\ ~(b.res = "success" /\ b.root = "completed")
  <2>1. Parse(b) \in {<<>>, <<"ProtocolUnknown">>}
    BY <1>4 DEF Parse
  <2>2. Kinds(<<>>) = {} /\ Kinds(<<"ProtocolUnknown">>) = {"ProtocolUnknown"}
    BY KindsOfLists
  <2>3. Parse(b) \in Seq(Event)
    BY <2>1, EventLists DEF Event, Terminal
  <2> QED
    BY <2>1, <2>2, <2>3
<1> QED
  BY <1>1, <1>2, <1>3, <1>4

\* The events say no more than what became of a turn in this state.
TrueOf(events, state) ==
  /\ events \in Seq(Event)
  /\ "RunCompleted" \in Kinds(events) => state = "success"
  /\ "RunFailed" \in Kinds(events) => state = "failed"
  /\ "CancellationConfirmed" \in Kinds(events) => state = "cancelled"

\* Before the first request no run has a handle or an answer.
LEMMA InitIInv == Init => IInv
<1> SUFFICES ASSUME Init PROVE IInv
  OBVIOUS
<1>1. TypeOK
  <2>1. batch \in [Runs -> Seq(Event)]
    BY EventLists DEF Init
  <2>2. handle \in [Runs -> [state: {"none", "present"}, async_job_id: BOOLEAN,
                            initial: Body \cup {NoAnswer}]]
    BY DEF Init
  <2>3. observes \in [Runs -> 0..MaxObserves]
    BY DEF Init
  <2> QED
    BY <2>1, <2>2, <2>3 DEF Init, TypeOK, Phase
<1>2. CookieIsProfiles /\ ReadsAgree /\ UnsentHasNothing /\ AnswerIsOfTurn
  BY DEF Init, CookieIsProfiles, ReadsAgree, UnsentHasNothing, AnswerIsOfTurn
<1>3. EndIsOwnTurns
  BY KindsOfLists DEF Init, EndIsOwnTurns
<1> QED
  BY <1>1, <1>2, <1>3 DEF IInv

\* The setter writes the profile, then the cookie it has, then whether it is ready.
LEMMA Setting ==
  ASSUME IInv, SetProfile \/ SetCookie \/ SetStatus
  PROVE  /\ profile' \in Profile \cup {NoProfile}
         /\ cookie' \in Accounts \cup {NoAccount}
         /\ ready' \in BOOLEAN /\ setting' \in {"nothing", "cookie", "status"}
         /\ CookieIsProfiles'
<1>1. /\ profile \in Profile \cup {NoProfile} /\ cookie \in Accounts \cup {NoAccount}
      /\ ready \in BOOLEAN /\ CookieIsProfiles
  BY DEF IInv, TypeOK
<1>2. CASE SetProfile
  <2>1. PICK p \in Profile \cup {NoProfile} :
          /\ profile' = p
          /\ setting' = IF p # NoProfile /\ ~p.cookie THEN "status" ELSE "cookie"
    BY <1>2 DEF SetProfile
  <2>2. UNCHANGED <<cookie, ready>>
    BY <1>2 DEF SetProfile
  <2>3. CookieIsProfiles'
    BY <2>1 DEF CookieIsProfiles, ReadyWith
  <2> QED
    BY <1>1, <2>1, <2>2, <2>3
<1>3. CASE SetCookie
  <2>1. /\ setting' = "status" /\ profile' = profile /\ ready' = ready
        /\ cookie' = IF profile = NoProfile THEN NoAccount ELSE profile.account
    BY <1>3 DEF SetCookie
  <2>2. profile # NoProfile => profile.account \in Accounts
    BY <1>1 DEF Profile
  <2>3. CookieIsProfiles'
    BY <2>1 DEF CookieIsProfiles, ReadyWith
  <2> QED
    BY <1>1, <2>1, <2>2, <2>3
<1>4. CASE SetStatus
  <2>1. /\ setting = "status" /\ setting' = "nothing" /\ ready' = ReadyWith(profile)
        /\ profile' = profile /\ cookie' = cookie
    BY <1>4 DEF SetStatus
  <2>2. ReadyWith(profile) \in BOOLEAN
    BY <1>1 DEF ReadyWith, Profile
  <2>3. CookieIsProfiles'
    BY <1>1, <2>1 DEF CookieIsProfiles
  <2> QED
    BY <1>1, <2>1, <2>2, <2>3
<1> QED
  BY <1>2, <1>3, <1>4

\* A run's observation ends with events that are true of its turn.
LEMMA Reporting ==
  ASSUME IInv, NEW r \in Runs, phase[r] \in {"sent", "over", "observing"},
         NEW events, TrueOf(events, turn[r]),
         Over(r, events), observes' \in [Runs -> 0..MaxObserves],
         UNCHANGED <<auth, turn, start, handle>>
  PROVE  IInv'
<1>1. /\ phase' = [phase EXCEPT ![r] = "over"]
      /\ batch' = [batch EXCEPT ![r] = events]
  BY DEF Over
<1>2. TypeOK'
  <2>1. batch' \in [Runs -> Seq(Event)]
    BY <1>1 DEF IInv, TypeOK, TrueOf
  <2>2. phase' \in [Runs -> Phase]
    BY <1>1 DEF IInv, TypeOK, Phase
  <2> QED
    BY <2>1, <2>2 DEF IInv, TypeOK, auth, start
<1>3. CookieIsProfiles' /\ ReadsAgree'
  BY <1>1 DEF IInv, TypeOK, CookieIsProfiles, ReadyWith, ReadsAgree, auth, start
<1>4. UnsentHasNothing'
  BY <1>1 DEF IInv, TypeOK, UnsentHasNothing, start
<1>5. AnswerIsOfTurn'
  BY DEF IInv, AnswerIsOfTurn, BodiesOf
<1>6. EndIsOwnTurns'
  BY <1>1 DEF IInv, TypeOK, EndIsOwnTurns, TrueOf
<1> QED
  BY <1>2, <1>3, <1>4, <1>5, <1>6 DEF IInv

\* An empty batch reports nothing about any turn.
LEMMA NothingIsTrue == \A state : TrueOf(<<>>, state)
BY KindsOfLists DEF TrueOf

\* A read of the submit that leads on or to a refusal: nothing was sent by then,
\* and what an undisturbed submit has read is still there.
LEMMA ReadingKeeps ==
  ASSUME IInv, NEW r \in Runs, phase[r] \in {"new", "checked", "named"},
         NEW to \in {"checked", "named", "refused"}, phase' = [phase EXCEPT ![r] = to],
         NEW n \in Accounts \cup {NoAccount}, named' = [named EXCEPT ![r] = n],
         NEW d \in BOOLEAN, disturbed' = [disturbed EXCEPT ![r] = d],
         ~d /\ to \in {"checked", "named"} => ready /\ setting = "nothing",
         ~d /\ to = "named" => n = profile.account,
         by' = by, UNCHANGED <<auth, turn, handle, watch>>
  PROVE  IInv'
<1>1. TypeOK'
  <2>1. phase' \in [Runs -> Phase]
    BY DEF IInv, TypeOK, Phase
  <2>2. named' \in [Runs -> Accounts \cup {NoAccount}] /\ disturbed' \in [Runs -> BOOLEAN]
    BY DEF IInv, TypeOK
  <2> QED
    BY <2>1, <2>2 DEF IInv, TypeOK, auth, watch
<1>2. CookieIsProfiles'
  BY DEF IInv, CookieIsProfiles, ReadyWith, auth
<1>3. ReadsAgree'
  BY DEF IInv, TypeOK, ReadsAgree, auth
<1>4. UnsentHasNothing' /\ EndIsOwnTurns'
  BY DEF IInv, TypeOK, UnsentHasNothing, EndIsOwnTurns, watch
<1>5. AnswerIsOfTurn'
  BY DEF IInv, AnswerIsOfTurn, BodiesOf
<1> QED
  BY <1>1, <1>2, <1>3, <1>4, <1>5 DEF IInv

\* The first checks: an undisturbed submit finds the transport ready.
LEMMA CheckKeeps ==
  ASSUME IInv, NEW r \in Runs, Check(r)
  PROVE  IInv'
<1>1. phase[r] = "new" /\ UNCHANGED <<auth, turn, handle, watch>>
  BY DEF Check
<1>2. named \in [Runs -> Accounts \cup {NoAccount}] /\ disturbed \in [Runs -> BOOLEAN]
  BY DEF IInv, TypeOK
<1>3. CASE Refuse(r)
  BY <1>1, <1>3, ReadingKeeps DEF Refuse
<1>4. CASE /\ TextGenerationEnabled
           /\ phase' = [phase EXCEPT ![r] = "checked"]
           /\ disturbed' = [disturbed EXCEPT ![r] = setting # "nothing"]
           /\ UNCHANGED <<named, by>>
  <2> DEFINE d == setting # "nothing"
  <2>1. named' = [named EXCEPT ![r] = named[r]] /\ named[r] \in Accounts \cup {NoAccount}
    BY <1>2, <1>4
  <2>2. d \in BOOLEAN /\ disturbed' = [disturbed EXCEPT ![r] = d]
    BY <1>4
  <2>3. ~d => ready /\ setting = "nothing"
    BY <1>4 DEF TextGenerationEnabled
  <2> HIDE DEF d
  <2> QED
    BY <1>1, <1>4, <2>1, <2>2, <2>3, ReadingKeeps
<1> QED
  BY <1>3, <1>4 DEF Check, Admitted

\* What the start names is the profile's, which stays unless it is disturbed.
LEMMA NameKeeps ==
  ASSUME IInv, NEW r \in Runs, Name(r)
  PROVE  IInv'
<1>1. phase[r] = "checked" /\ UNCHANGED <<auth, turn, handle, watch>>
  BY DEF Name
<1>2. disturbed \in [Runs -> BOOLEAN] /\ profile \in Profile \cup {NoProfile}
  BY DEF IInv, TypeOK
<1>3. CASE Refuse(r)
  BY <1>1, <1>3, ReadingKeeps DEF Refuse
<1>4. CASE /\ profile # NoProfile
           /\ phase' = [phase EXCEPT ![r] = "named"]
           /\ named' = [named EXCEPT ![r] = profile.account]
           /\ UNCHANGED <<by, disturbed>>
  <2>1. profile.account \in Accounts
    BY <1>2, <1>4 DEF Profile
  <2>2. disturbed' = [disturbed EXCEPT ![r] = disturbed[r]] /\ disturbed[r] \in BOOLEAN
    BY <1>2, <1>4
  <2>3. ~disturbed[r] => ready /\ setting = "nothing"
    BY <1>1 DEF IInv, ReadsAgree
  <2> QED
    BY <1>1, <1>4, <2>1, <2>2, <2>3, ReadingKeeps
<1> QED
  BY <1>3, <1>4 DEF Name

\* The start leaves with the cookie of the moment, which for an undisturbed submit
\* is that of the account it names.
LEMMA PostKeeps ==
  ASSUME IInv, NEW r \in Runs, Post(r)
  PROVE  /\ IInv'
         /\ \A q \in Runs : by'[q] # by[q] => q = r
         /\ by'[r] # by[r] /\ ~disturbed[r] => by'[r] = named[r]
<1>1. phase[r] = "named" /\ UNCHANGED <<auth, turn, handle, watch>>
  BY DEF Post
<1>2. CASE Refuse(r)
  <2>1. IInv'
    BY <1>1, <1>2, ReadingKeeps DEF Refuse
  <2> QED
    BY <1>2, <2>1 DEF Refuse
<1>3. CASE /\ cookie # NoAccount
           /\ phase' = [phase EXCEPT ![r] = "posted"]
           /\ by' = [by EXCEPT ![r] = cookie]
           /\ named' = [named EXCEPT ![r] = NoAccount]
           /\ disturbed' = [disturbed EXCEPT ![r] = FALSE]
  <2>1. ~disturbed[r] => cookie = named[r]
    BY <1>1 DEF IInv, ReadsAgree, CookieIsProfiles
  <2>2. TypeOK'
    <3>1. phase' \in [Runs -> Phase]
      BY <1>3 DEF IInv, TypeOK, Phase
    <3>2. /\ named' \in [Runs -> Accounts \cup {NoAccount}]
          /\ by' \in [Runs -> Accounts \cup {NoAccount}]
          /\ disturbed' \in [Runs -> BOOLEAN]
      BY <1>3 DEF IInv, TypeOK
    <3> QED
      BY <1>1, <3>1, <3>2 DEF IInv, TypeOK, auth, watch
  <2>3. CookieIsProfiles' /\ ReadsAgree'
    BY <1>1, <1>3 DEF IInv, TypeOK, CookieIsProfiles, ReadyWith, ReadsAgree, auth
  <2>4. UnsentHasNothing' /\ EndIsOwnTurns'
    BY <1>1, <1>3 DEF IInv, TypeOK, UnsentHasNothing, EndIsOwnTurns, watch
  <2>5. AnswerIsOfTurn'
    BY <1>1 DEF IInv, AnswerIsOfTurn, BodiesOf
  <2>6. by'[r] = cookie /\ \A q \in Runs : q # r => by'[q] = by[q]
    BY <1>3 DEF IInv, TypeOK
  <2> QED
    BY <2>1, <2>2, <2>3, <2>4, <2>5, <2>6 DEF IInv
<1> QED
  BY <1>2, <1>3 DEF Post

\* A handle is made when Prism has a turn, with an answer only of it.
LEMMA AnswerKeeps ==
  ASSUME IInv, NEW r \in Runs, Answer(r)
  PROVE  IInv'
<1> DEFINE Handle == [state: {"none", "present"}, async_job_id: BOOLEAN,
                      initial: Body \cup {NoAnswer}]
<1>1. /\ phase[r] = "posted" /\ UNCHANGED <<auth, turn, start, watch>>
      /\ handle \in [Runs -> Handle] /\ phase \in [Runs -> Phase]
  BY DEF Answer, IInv, TypeOK
<1>2. PICK to \in {"unknown", "sent"} : phase' = [phase EXCEPT ![r] = to]
  BY DEF Answer, Unanswered
<1>3. PICK h \in Handle :
        /\ handle' = [handle EXCEPT ![r] = h]
        /\ h.initial # NoAnswer => h.initial \in BodiesOf(turn[r]) /\ turn[r] \in Ended
  <2>1. CASE handle' = handle
    <3>1. handle' = [handle EXCEPT ![r] = handle[r]] /\ handle[r] \in Handle
      BY <1>1, <2>1
    <3>2. handle[r].initial # NoAnswer =>
            handle[r].initial \in BodiesOf(turn[r]) /\ turn[r] \in Ended
      BY DEF IInv, AnswerIsOfTurn
    <3> QED
      BY <3>1, <3>2
  <2>2. ASSUME NEW job \in BOOLEAN,
               NEW b \in {x \in BodiesOf(turn[r]) : x.root = "completed"} \cup {NoAnswer},
               handle' = [handle EXCEPT ![r] =
                 [state |-> "present", async_job_id |-> job, initial |-> b]]
        PROVE  \E h \in Handle :
                 /\ handle' = [handle EXCEPT ![r] = h]
                 /\ h.initial # NoAnswer =>
                      h.initial \in BodiesOf(turn[r]) /\ turn[r] \in Ended
    <3>1. b # NoAnswer => b \in BodiesOf(turn[r]) /\ b.root = "completed"
      OBVIOUS
    <3>2. b # NoAnswer => b \in Body /\ turn[r] \in Ended
      BY <3>1, Bodies
    <3> DEFINE h == [state |-> "present", async_job_id |-> job, initial |-> b]
    <3>3. h \in Handle /\ h.initial = b
      BY <3>2
    <3> QED
      BY <2>2, <3>1, <3>2, <3>3
  <2> QED
    BY <2>1, <2>2 DEF Answer
<1>4. TypeOK'
  <2>1. phase' \in [Runs -> Phase] /\ handle' \in [Runs -> Handle]
    BY <1>1, <1>2, <1>3 DEF Phase
  <2> QED
    BY <1>1, <2>1 DEF IInv, TypeOK, auth, start, watch
<1>5. CookieIsProfiles' /\ ReadsAgree'
  BY <1>1, <1>2 DEF IInv, CookieIsProfiles, ReadyWith, ReadsAgree, auth, start
<1>6. UnsentHasNothing' /\ EndIsOwnTurns'
  BY <1>1, <1>2, <1>3 DEF IInv, UnsentHasNothing, EndIsOwnTurns, start, watch
<1>7. AnswerIsOfTurn'
  BY <1>1, <1>3 DEF IInv, AnswerIsOfTurn, BodiesOf
<1> QED
  BY <1>4, <1>5, <1>6, <1>7 DEF IInv

\* The profile changes while submits read it, or with the process.
LEMMA ConfigureKeeps == IInv /\ Configure => IInv'
<1> SUFFICES ASSUME IInv, Configure PROVE IInv'
  OBVIOUS
<1>1. /\ UNCHANGED <<turn, named, by, handle, phase, watch>>
      /\ disturbed' = [r \in Runs |-> disturbed[r] \/ phase[r] \in {"checked", "named"}]
      /\ SetProfile \/ SetCookie \/ SetStatus
  BY DEF Configure
<1>2. disturbed' \in [Runs -> BOOLEAN]
  BY <1>1 DEF IInv, TypeOK
<1>3. TypeOK' /\ CookieIsProfiles'
  BY <1>1, <1>2, Setting DEF IInv, TypeOK, watch
<1>4. ReadsAgree'
  BY <1>1 DEF ReadsAgree
<1>5. UnsentHasNothing' /\ EndIsOwnTurns'
  BY <1>1 DEF IInv, UnsentHasNothing, EndIsOwnTurns, watch
<1>6. AnswerIsOfTurn'
  BY <1>1 DEF IInv, AnswerIsOfTurn, BodiesOf
<1> QED
  BY <1>3, <1>4, <1>5, <1>6 DEF IInv

\* A new process leaves what was sent, and nothing that was read.
LEMMA RestartKeeps == IInv /\ Restart => IInv'
<1> SUFFICES ASSUME IInv, Restart PROVE IInv'
  OBVIOUS
<1>1. /\ named' = [r \in Runs |-> NoAccount] /\ disturbed' = [r \in Runs |-> FALSE]
      /\ UNCHANGED <<turn, by, handle, watch>> /\ setting' = "nothing"
      /\ phase' = [r \in Runs |-> CASE phase[r] \in {"checked", "named", "posted"} -> "unknown"
                                     [] phase[r] = "observing" -> "over"
                                     [] OTHER -> phase[r]]
  BY DEF Restart
<1>2. PICK p \in Profile \cup {NoProfile} :
        /\ profile' = p /\ ready' = ReadyWith(p)
        /\ cookie' = IF ReadyWith(p) THEN p.account ELSE NoAccount
  BY DEF Restart
<1>3. \A r \in Runs : /\ phase'[r] \notin {"checked", "named", "posted"}
                       /\ phase'[r] \in Phase
                       /\ phase'[r] \in {"new", "refused"} => phase'[r] = phase[r]
  BY <1>1 DEF IInv, TypeOK, Phase
<1>4. TypeOK'
  <2>1. ReadyWith(p) \in BOOLEAN /\ (ReadyWith(p) => p.account \in Accounts)
    BY DEF ReadyWith, Profile
  <2>2. phase' \in [Runs -> Phase]
    BY <1>1 DEF IInv, TypeOK, Phase
  <2> QED
    BY <1>1, <1>2, <2>1, <2>2 DEF IInv, TypeOK, watch
<1>5. CookieIsProfiles' /\ ReadsAgree'
  BY <1>1, <1>2, <1>3 DEF CookieIsProfiles, ReadsAgree
<1>6. UnsentHasNothing' /\ EndIsOwnTurns'
  BY <1>1, <1>3 DEF IInv, UnsentHasNothing, EndIsOwnTurns, watch
<1>7. AnswerIsOfTurn'
  BY <1>1 DEF IInv, AnswerIsOfTurn, BodiesOf
<1> QED
  BY <1>4, <1>5, <1>6, <1>7 DEF IInv
\* Opening an observation reports at most the answer kept in the run's own handle.
LEMMA ObserveKeeps ==
  ASSUME IInv, NEW r \in Runs, Observe(r)
  PROVE  IInv'
<1>1. /\ phase[r] \in {"sent", "over"}
      /\ observes' = [observes EXCEPT ![r] = @ + 1] /\ observes[r] < MaxObserves
      /\ UNCHANGED <<auth, turn, start, handle>>
  BY DEF Observe
<1>2. observes' \in [Runs -> 0..MaxObserves]
  BY <1>1 DEF IInv, TypeOK
<1>3. ASSUME Over(r, <<>>) PROVE IInv'
  BY <1>1, <1>2, <1>3, NothingIsTrue, Reporting
<1>4. ASSUME handle[r].initial # NoAnswer, Over(r, Parse(handle[r].initial))
      PROVE  IInv'
  <2>1. handle[r].initial \in BodiesOf(turn[r])
    BY <1>4 DEF IInv, AnswerIsOfTurn
  <2>2. TrueOf(Parse(handle[r].initial), turn[r])
    BY <2>1, Parsing DEF TrueOf
  <2> QED
    BY <1>1, <1>2, <1>4, <2>2, Reporting
<1>5. ASSUME phase' = [phase EXCEPT ![r] = "observing"], batch' = [batch EXCEPT ![r] = <<>>]
      PROVE  IInv'
  <2>1. TypeOK'
    <3>1. batch' \in [Runs -> Seq(Event)]
      BY <1>5, EventLists DEF IInv, TypeOK
    <3>2. phase' \in [Runs -> Phase]
      BY <1>5 DEF IInv, TypeOK, Phase
    <3> QED
      BY <1>1, <1>2, <3>1, <3>2 DEF IInv, TypeOK, auth, start
  <2>2. CookieIsProfiles' /\ ReadsAgree' /\ UnsentHasNothing'
    BY <1>1, <1>5 DEF IInv, TypeOK, CookieIsProfiles, ReadyWith, ReadsAgree,
                      UnsentHasNothing, auth, start
  <2>3. AnswerIsOfTurn'
    BY <1>1 DEF IInv, AnswerIsOfTurn, BodiesOf
  <2>4. EndIsOwnTurns'
    BY <1>1, <1>5, KindsOfLists DEF IInv, TypeOK, EndIsOwnTurns
  <2> QED
    BY <2>1, <2>2, <2>3, <2>4 DEF IInv
<1> QED
  BY <1>3, <1>4, <1>5 DEF Observe

\* A status answer that passes the identity check is about this run's turn.
LEMMA PollKeeps ==
  ASSUME IInv, NEW r \in Runs, Poll(r)
  PROVE  IInv'
<1>1. /\ phase[r] = "observing" /\ UNCHANGED <<auth, turn, start, handle, observes>>
      /\ observes' \in [Runs -> 0..MaxObserves]
  BY DEF Poll, IInv, TypeOK
<1>2. CASE Over(r, <<>>)
  BY <1>1, <1>2, NothingIsTrue, Reporting
<1>3. ASSUME NEW of \in {a.of : a \in {x \in Identity : Identified(r, x)}},
             NEW b \in BodiesOf(turn[of]), Over(r, Parse(b))
      PROVE  IInv'
  <2>1. of = r
    BY DEF Identified
  <2>2. TrueOf(Parse(b), turn[r])
    BY <2>1, Parsing DEF TrueOf
  <2> QED
    BY <1>1, <1>3, <2>2, Reporting
<1>4. CASE UNCHANGED <<phase, batch>>
  <2>1. TypeOK' /\ CookieIsProfiles' /\ ReadsAgree' /\ UnsentHasNothing' /\ EndIsOwnTurns'
    BY <1>1, <1>4 DEF IInv, TypeOK, CookieIsProfiles, ReadyWith, ReadsAgree,
                      UnsentHasNothing, EndIsOwnTurns, auth, start
  <2>2. AnswerIsOfTurn'
    BY <1>1 DEF IInv, AnswerIsOfTurn, BodiesOf
  <2> QED
    BY <2>1, <2>2 DEF IInv
<1> QED
  BY <1>2, <1>3, <1>4 DEF Poll

\* A turn that begins or ends has not ended before: nobody was told of an end, and
\* no answer is in hand.
LEMMA TurnKeeps ==
  ASSUME IInv, NEW r \in Runs, by[r] # NoAccount, turn[r] \notin Ended,
         NEW now \in {"running"} \cup Ended, turn' = [turn EXCEPT ![r] = now],
         UNCHANGED <<auth, start, handle, phase, watch>>
  PROVE  IInv'
<1>1. /\ turn \in [Runs -> {"none", "running"} \cup Ended]
      /\ turn'[r] = now /\ \A q \in Runs \ {r} : turn'[q] = turn[q]
  BY DEF IInv, TypeOK
<1>2. TypeOK'
  BY <1>1 DEF IInv, TypeOK, auth, start, watch
<1>3. CookieIsProfiles' /\ ReadsAgree'
  BY DEF IInv, CookieIsProfiles, ReadyWith, ReadsAgree, auth, start
<1>4. UnsentHasNothing'
  BY <1>1 DEF IInv, UnsentHasNothing, start, watch
<1>5. AnswerIsOfTurn'
  <2>1. handle[r].initial = NoAnswer
    BY DEF IInv, AnswerIsOfTurn
  <2> QED
    BY <1>1, <2>1 DEF IInv, AnswerIsOfTurn, BodiesOf
<1>6. EndIsOwnTurns'
  BY <1>1 DEF IInv, EndIsOwnTurns, watch, Ended
<1> QED
  BY <1>2, <1>3, <1>4, <1>5, <1>6 DEF IInv

\* No step breaks the invariant.
LEMMA Step == IInv /\ [Next]_vars => IInv'
<1> SUFFICES ASSUME IInv, [Next]_vars PROVE IInv'
  OBVIOUS
<1>1. ASSUME NEW r \in Runs, GiveUp(r) PROVE IInv'
  <2>1. /\ phase[r] = "observing" /\ Over(r, <<>>) /\ observes' \in [Runs -> 0..MaxObserves]
        /\ UNCHANGED <<auth, turn, start, handle>>
    BY <1>1 DEF GiveUp, IInv, TypeOK
  <2> QED
    BY <2>1, NothingIsTrue, Reporting
<1>2. ASSUME NEW r \in Runs, TurnBegins(r) PROVE IInv'
  <2>1. turn[r] \notin Ended
    BY <1>2 DEF TurnBegins, Ended
  <2> QED
    BY <1>2, <2>1, TurnKeeps DEF TurnBegins
<1>3. ASSUME NEW r \in Runs, TurnEnds(r) PROVE IInv'
  <2>1. turn[r] \notin Ended /\ by[r] # NoAccount
    BY <1>3 DEF TurnEnds, Ended, IInv, UnsentHasNothing
  <2> QED
    BY <1>3, <2>1, TurnKeeps DEF TurnEnds
<1>4. CASE UNCHANGED vars
  <2>1. UNCHANGED <<auth, turn, start, handle, phase, watch>>
    BY <1>4 DEF vars
  <2>2. TypeOK' /\ CookieIsProfiles' /\ ReadsAgree' /\ UnsentHasNothing' /\ EndIsOwnTurns'
    BY <2>1 DEF IInv, TypeOK, CookieIsProfiles, ReadyWith, ReadsAgree, UnsentHasNothing,
                EndIsOwnTurns, auth, start, watch
  <2>3. AnswerIsOfTurn'
    BY <2>1 DEF IInv, AnswerIsOfTurn, BodiesOf
  <2> QED
    BY <2>2, <2>3 DEF IInv
<1> QED
  BY <1>1, <1>2, <1>3, <1>4, ConfigureKeeps, RestartKeeps, CheckKeeps, NameKeeps, PostKeeps,
     AnswerKeeps, ObserveKeeps, PollKeeps
  DEF Next

-----------------------------------------------------------------------------
\* What submits have read and sent, answers in hand, reported ends and the cookie
\* agree with the turns Prism has and with the profile, through lost, late and
\* confused answers, changes of the profile and restarts (PrismHttpTransport).
THEOREM Invariant == Spec => []IInv
<1> QED
  BY InitIInv, Step, PTL DEF Spec

\* Every variable keeps its type.
THEOREM Typed == Spec => []TypeOK
<1>1. IInv => TypeOK
  BY DEF IInv
<1> QED
  BY <1>1, Invariant, PTL

\* The end an observation reports is the end of its own run's turn:
\* _validate_status_identity lets no other turn's answer through.
THEOREM OwnEnd == Spec => []EndIsOwnTurns
<1>1. IInv => EndIsOwnTurns
  BY DEF IInv
<1> QED
  BY <1>1, Invariant, PTL

\* Every refusal of submit comes before the POST: no turn ever follows one, though
\* Prism may take up what was sent at any later time.
THEOREM Refusals == Spec => []RefusalsSendNothing
<1>1. IInv => RefusalsSendNothing
  BY DEF IInv, UnsentHasNothing, RefusalsSendNothing
<1> QED
  BY <1>1, Invariant, PTL

\* A start goes out with the cookie of the account whose identity it names, unless
\* the profile was being set between the first check of submit and its POST.
THEOREM CurrentAccount == Spec => SentAsCurrentAccount
<1>1. IInv /\ [Next]_vars => [SendsAsNamed]_vars
  <2> SUFFICES ASSUME IInv, [Next]_vars, NEW r \in Runs, by'[r] # by[r], ~disturbed[r]
               PROVE  by'[r] = named[r]
    BY DEF SendsAsNamed
  <2>1. PICK q \in Runs : Check(q) \/ Name(q) \/ Post(q)
    BY DEF Next, vars, Configure, Restart, Answer, Observe, Poll, GiveUp, TurnBegins,
           TurnEnds, start
  <2>2. Post(q)
    BY <2>1 DEF Check, Name, Refuse
  <2> QED
    BY <2>2, PostKeeps
<1> QED
  BY <1>1, Invariant, PTL DEF Spec, SentAsCurrentAccount
=============================================================================
