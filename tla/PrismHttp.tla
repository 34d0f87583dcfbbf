------------------------------ MODULE PrismHttp ------------------------------
(***************************************************************************)
(* The HTTP transport (transport/prism_web/http_transport.py), its parser  *)
(* (prism_web/parser.py), and what Prism may answer it.  A run is          *)
(* submitted once and observed by polling; its handle outlives the         *)
(* transport, which takes its secrets from the live profile alone.  A      *)
(* submit reads the profile and the cookie at three moments, and the       *)
(* setter of the profile writes them one by one.  The start request may    *)
(* take effect at any time after it left, whatever became of its answer; a *)
(* status answer may be lost, be late, or speak of another turn.           *)
(***************************************************************************)
EXTENDS Naturals, Sequences

CONSTANTS Runs,
          Conversation,  \* the conversation each run is bound to
          Accounts,
          NoAccount,     \* no cookie
          NoAnswer,      \* submit was not answered by a completed response
          MaxObserves    \* bound: observations and lookups of a run

ASSUME HttpAssumption == /\ NoAccount \notin Accounts
                         /\ DOMAIN Conversation = Runs
                         /\ MaxObserves \in Nat

VARIABLES profile, cookie, ready,  \* live_profile, cookie_header, auth READY
          setting,   \* what the setter of live_profile writes next, if it runs
          turn,      \* the remote turn of each run
          named,     \* the account whose identity and sandbox its start names
          by,        \* the account whose cookie its start was sent with
          disturbed, \* history: the profile was being set while it was submitted
          handle,    \* raw_metadata of its handle, "none" before a receipt
          phase,     \* new, checked, named, posted, refused, unknown, sent,
                     \* observing, over
          observes,
          batch      \* the events the last observation returned

auth == <<profile, cookie, ready, setting>>
start == <<named, by, disturbed>>
watch == <<observes, batch>>
vars == <<auth, turn, start, handle, phase, watch>>

Profile == [account: Accounts, cookie: BOOLEAN, complete: BOOLEAN]
NoProfile == [account |-> NoAccount, cookie |-> FALSE, complete |-> FALSE]

Ended == {"success", "failed", "cancelled"}

-----------------------------------------------------------------------------
\* What a status answer says, and what the parser makes of it.  text is the
\* output: absent, blank or with characters.

Body == [root: {"completed", "running", "failed", "cancelled", "other"},
         res: {"success", "error", "other"},
         text: {"none", "blank", "some"}]

Says(root, res, texts) == {[root |-> root, res |-> res, text |-> t] : t \in texts}

\* Bodies Prism may send for a turn in a state; an answer may be stale.
BodiesOf(state) ==
  Says("running", "other", {"none"}) \cup Says("other", "other", {"none"}) \cup
  CASE state = "success" -> Says("completed", "success", {"none", "blank", "some"})
                              \cup Says("completed", "other", {"none"})
    [] state = "failed" -> Says("failed", "other", {"none"})
                              \cup Says("completed", "error", {"none"})
    [] state = "cancelled" -> Says("cancelled", "other", {"none"})
    [] OTHER -> {}

Parse(b) ==
  IF b.res = "error" \/ b.root = "failed" THEN <<"RunFailed">>
  ELSE CASE b.root = "cancelled" -> <<"CancellationConfirmed">>
         [] b.root = "completed" /\ b.res = "success" /\ b.text = "some" ->
              <<"TextDelta", "RunCompleted">>
         [] b.root = "completed" /\ b.res = "success" /\ b.text = "blank" ->
              <<"RunCompleted">>
         [] b.root = "running" -> <<>>
         [] OTHER -> <<"ProtocolUnknown">>

Terminal == {"RunCompleted", "RunFailed", "CancellationConfirmed"}
Event == Terminal \cup {"TextDelta", "ProtocolUnknown"}
Kinds(events) == {events[i] : i \in DOMAIN events}
HasEnd(events) == Kinds(events) \cap Terminal # {}

\* Whose turn a 200 answer with JSON is about, and the identity fields it has.
Identity == [of: {r \in Runs : turn[r] # "none"}, request_id: BOOLEAN,
             async_job_id: BOOLEAN, conversation: BOOLEAN]

\* Mutant of Identified: fields are compared only when present.
IdentifiedIfPresent(r, a) ==
  /\ a.request_id => a.of = r
  /\ a.conversation => Conversation[a.of] = Conversation[r]

\* _validate_status_identity: the request id always, the job id if the turn
\* state has one, the conversation where it is named.
Identified(r, a) ==
  /\ a.request_id /\ a.of = r
  /\ handle[r].async_job_id => a.async_job_id
  /\ a.conversation => Conversation[a.of] = Conversation[r]

-----------------------------------------------------------------------------
Init == /\ profile = NoProfile /\ cookie = NoAccount /\ ready = FALSE
        /\ setting = "nothing"
        /\ turn = [r \in Runs |-> "none"]
        /\ named = [r \in Runs |-> NoAccount] /\ by = [r \in Runs |-> NoAccount]
        /\ disturbed = [r \in Runs |-> FALSE]
        /\ handle = [r \in Runs |-> [state |-> "none", async_job_id |-> FALSE,
                                     initial |-> NoAnswer]]
        /\ phase = [r \in Runs |-> "new"]
        /\ observes = [r \in Runs |-> 0]
        /\ batch = [r \in Runs |-> <<>>]

\* Mutant of ReadyWith: a profile without a cookie leaves the status alone.
StaysReady(p) == ready \/ (p # NoProfile /\ p.cookie)

ReadyWith(p) == p # NoProfile /\ p.cookie

\* The first write of the setter of live_profile, whoever calls it.  A profile
\* without a cookie leaves the cookie of the one before.
SetProfile ==
  /\ setting = "nothing"
  /\ \E p \in Profile \cup {NoProfile} :
       /\ profile' = p
       /\ setting' = IF p # NoProfile /\ ~p.cookie THEN "status" ELSE "cookie"
  /\ UNCHANGED <<cookie, ready>>

SetCookie ==
  /\ setting = "cookie" /\ setting' = "status"
  /\ cookie' = IF profile = NoProfile THEN NoAccount ELSE profile.account
  /\ UNCHANGED <<profile, ready>>

SetStatus ==
  /\ setting = "status" /\ setting' = "nothing"
  /\ ready' = ReadyWith(profile)
  /\ UNCHANGED <<profile, cookie>>

\* Each of the setter's writes may fall between two reads of a submit.
Configure ==
  /\ SetProfile \/ SetCookie \/ SetStatus
  /\ disturbed' = [r \in Runs |-> disturbed[r] \/ phase[r] \in {"checked", "named"}]
  /\ UNCHANGED <<turn, named, by, handle, phase, watch>>

\* A new process: the transport is built from the profile it finds, the handles
\* come back from the journal, a submit or an observation is gone.
Restart ==
  /\ \E p \in Profile \cup {NoProfile} :
       /\ profile' = p /\ ready' = ReadyWith(p) /\ setting' = "nothing"
       /\ cookie' = IF ReadyWith(p) THEN p.account ELSE NoAccount
  /\ phase' = [r \in Runs |-> CASE phase[r] \in {"checked", "named", "posted"} -> "unknown"
                                [] phase[r] = "observing" -> "over"
                                [] OTHER -> phase[r]]
  /\ named' = [r \in Runs |-> NoAccount] /\ disturbed' = [r \in Runs |-> FALSE]
  /\ UNCHANGED <<turn, by, handle, watch>>

-----------------------------------------------------------------------------
\* submit

\* inspect_capabilities: everything but text generation is disabled.
TextGenerationEnabled == ready /\ cookie # NoAccount /\ profile # NoProfile

\* The first checks; fit says that the session's deadline has not passed and that
\* its context names a workspace and a conversation.
Admitted(fit) == TextGenerationEnabled /\ fit

\* A refusal, and the end of what the submit had read.
Refuse(r) == /\ phase' = [phase EXCEPT ![r] = "refused"]
             /\ named' = [named EXCEPT ![r] = NoAccount]
             /\ disturbed' = [disturbed EXCEPT ![r] = FALSE]
             /\ UNCHANGED by

Check(r) ==
  /\ phase[r] = "new"
  /\ \E fit \in BOOLEAN :
       IF Admitted(fit)
         THEN /\ phase' = [phase EXCEPT ![r] = "checked"]
              /\ disturbed' = [disturbed EXCEPT ![r] = setting # "nothing"]
              /\ UNCHANGED <<named, by>>
         ELSE Refuse(r)
  /\ UNCHANGED <<auth, turn, handle, watch>>

\* User, sandbox address and token are read; with the profile gone the read raises.
Name(r) ==
  /\ phase[r] = "checked"
  /\ IF profile # NoProfile /\ profile.complete
       THEN /\ phase' = [phase EXCEPT ![r] = "named"]
            /\ named' = [named EXCEPT ![r] = profile.account]
            /\ UNCHANGED <<by, disturbed>>
       ELSE Refuse(r)
  /\ UNCHANGED <<auth, turn, handle, watch>>

\* The cookie is read and the one POST of a submit leaves; without a cookie the
\* headers are refused before anything is sent.
Post(r) ==
  /\ phase[r] = "named"
  /\ IF cookie # NoAccount
       THEN /\ phase' = [phase EXCEPT ![r] = "posted"]
            /\ by' = [by EXCEPT ![r] = cookie]
            /\ named' = [named EXCEPT ![r] = NoAccount]
            /\ disturbed' = [disturbed EXCEPT ![r] = FALSE]
       ELSE Refuse(r)
  /\ UNCHANGED <<auth, turn, handle, watch>>

\* Mutant of Unanswered: without a sign of a turn the failure is a refusal.
UnansweredRefused(r) == IF turn[r] = "none" THEN "refused" ELSE "unknown"

\* Whatever is wrong with the answer is one error, and the turn may begin yet.
Unanswered(r) == "unknown"

\* The POST returns or raises; the handle needs a request id and a turn state,
\* which Prism gives for a turn it began, and keeps an answer already complete.
Answer(r) ==
  /\ phase[r] = "posted"
  /\ \/ /\ phase' = [phase EXCEPT ![r] = Unanswered(r)]
        /\ UNCHANGED handle
     \/ /\ turn[r] # "none"
        /\ phase' = [phase EXCEPT ![r] = "sent"]
        /\ \E job \in BOOLEAN,
              b \in {x \in BodiesOf(turn[r]) : x.root = "completed"} \cup {NoAnswer} :
              handle' = [handle EXCEPT ![r] =
                [state |-> "present", async_job_id |-> job, initial |-> b]]
  /\ UNCHANGED <<auth, turn, start, watch>>

\* Prism takes a start up at any time after it was sent, or never.
TurnBegins(r) == /\ by[r] # NoAccount /\ turn[r] = "none"
                 /\ turn' = [turn EXCEPT ![r] = "running"]
                 /\ UNCHANGED <<auth, start, handle, phase, watch>>

-----------------------------------------------------------------------------
\* Observation

Over(r, events) == /\ phase' = [phase EXCEPT ![r] = "over"]
                   /\ batch' = [batch EXCEPT ![r] = events]

\* observe_events, and lookup_events after it, begin: the cookie of the moment,
\* the handle's turn state, or an answer already in hand.
Observe(r) ==
  /\ phase[r] \in {"sent", "over"} /\ handle[r].state = "present"
  /\ observes[r] < MaxObserves
  /\ observes' = [observes EXCEPT ![r] = @ + 1]
  /\ \/ /\ cookie = NoAccount
        /\ Over(r, <<>>)
     \/ /\ cookie # NoAccount /\ handle[r].initial # NoAnswer
        /\ \E identified \in BOOLEAN :
              Over(r, IF identified THEN Parse(handle[r].initial) ELSE <<>>)
     \/ /\ cookie # NoAccount /\ handle[r].initial = NoAnswer
        /\ phase' = [phase EXCEPT ![r] = "observing"]
        /\ batch' = [batch EXCEPT ![r] = <<>>]
  /\ UNCHANGED <<auth, turn, start, handle>>

\* One status request.  A batch without an end is dropped and asked for again.
Poll(r) ==
  /\ phase[r] = "observing"
  /\ \/ Over(r, <<>>)
     \/ \E of \in {a.of : a \in {x \in Identity : Identified(r, x)}} :
        \E events \in {Parse(b) : b \in BodiesOf(turn[of])} :
          IF HasEnd(events) THEN Over(r, events) ELSE UNCHANGED <<phase, batch>>
  /\ UNCHANGED <<auth, turn, start, handle, observes>>

\* 45 seconds, read between two requests and no other clock.
GiveUp(r) == /\ phase[r] = "observing"
             /\ Over(r, <<>>)
             /\ UNCHANGED <<auth, turn, start, handle, observes>>

TurnEnds(r) == /\ turn[r] = "running"
               /\ \E end \in Ended : turn' = [turn EXCEPT ![r] = end]
               /\ UNCHANGED <<auth, start, handle, phase, watch>>

Next == \/ Configure \/ Restart
        \/ \E r \in Runs : \/ Check(r) \/ Name(r) \/ Post(r) \/ Answer(r)
                           \/ Observe(r) \/ Poll(r) \/ GiveUp(r)
                           \/ TurnBegins(r) \/ TurnEnds(r)

Spec == Init /\ [][Next]_vars

-----------------------------------------------------------------------------
\* Properties

Phase == {"new", "checked", "named", "posted", "refused", "unknown", "sent",
          "observing", "over"}

\* Every variable has its type.
TypeOK ==
  /\ profile \in Profile \cup {NoProfile}
  /\ cookie \in Accounts \cup {NoAccount}
  /\ ready \in BOOLEAN
  /\ setting \in {"nothing", "cookie", "status"}
  /\ turn \in [Runs -> {"none", "running"} \cup Ended]
  /\ named \in [Runs -> Accounts \cup {NoAccount}]
  /\ by \in [Runs -> Accounts \cup {NoAccount}]
  /\ disturbed \in [Runs -> BOOLEAN]
  /\ handle \in [Runs -> [state: {"none", "present"}, async_job_id: BOOLEAN,
                          initial: Body \cup {NoAnswer}]]
  /\ phase \in [Runs -> Phase]
  /\ observes \in [Runs -> 0..MaxObserves]
  /\ batch \in [Runs -> Seq(Event)]

\* The end an observation reports is the end of the run's own turn, whatever
\* other turns' answers came in its place.
EndIsOwnTurns ==
  \A r \in Runs :
     /\ "RunCompleted" \in Kinds(batch[r]) => turn[r] = "success"
     /\ "RunFailed" \in Kinds(batch[r]) => turn[r] = "failed"
     /\ "CancellationConfirmed" \in Kinds(batch[r]) => turn[r] = "cancelled"

\* A submit that refuses, or fails before its request leaves, is never followed
\* by a turn: a lost, late or unreadable answer never passes for a refusal, even
\* when Prism takes the start up only afterwards.
RefusalsSendNothing == \A r \in Runs : phase[r] = "refused" => turn[r] = "none"

SendsAsNamed ==
  \A r \in Runs : by'[r] # by[r] /\ ~disturbed[r] => by'[r] = named[r]

\* A start that no change of the profile runs into goes out with the cookie of the
\* account whose identity and sandbox it names, whatever cookie an earlier
\* profile has left.
SentAsCurrentAccount == [][SendsAsNamed]_vars

-----------------------------------------------------------------------------
\* The inductive invariant

\* While the transport is ready and nobody sets the profile, its cookie is that of
\* its profile's account; a setter has written the profile and, before the
\* status, its cookie.
CookieIsProfiles ==
  /\ setting = "nothing" /\ ready => cookie = profile.account
  /\ setting = "status" /\ ReadyWith(profile) => cookie = profile.account

\* An undisturbed submit has read, and sent, what is still there to be read.
ReadsAgree ==
  \A r \in Runs : ~disturbed[r] =>
    /\ phase[r] \in {"checked", "named"} => ready /\ setting = "nothing"
    /\ phase[r] = "named" => named[r] = profile.account

\* A run that was not submitted has no handle, and sent nothing.
UnsentHasNothing ==
  \A r \in Runs :
    /\ phase[r] \in {"new", "checked", "named", "posted"} =>
         handle[r].state = "none" /\ handle[r].initial = NoAnswer /\ batch[r] = <<>>
    /\ phase[r] \in {"new", "checked", "named", "refused"} => by[r] = NoAccount
    /\ by[r] = NoAccount => turn[r] = "none"

\* An answer in hand is what Prism says of the run's own turn, which is over.
AnswerIsOfTurn ==
  \A r \in Runs : handle[r].initial # NoAnswer =>
     handle[r].initial \in BodiesOf(turn[r]) /\ turn[r] \in Ended

IInv == TypeOK /\ CookieIsProfiles /\ ReadsAgree /\ UnsentHasNothing
        /\ AnswerIsOfTurn /\ EndIsOwnTurns
=============================================================================
