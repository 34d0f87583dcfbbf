-------------------------- MODULE BrowserTransport --------------------------
(***************************************************************************)
(* The browser-assisted transport (transport/prism_browser.py) with the    *)
(* server in front of it (server/browser_server.py) and the launcher that  *)
(* owns both (run_server of __main__.py).  Callers of one event loop share *)
(* one page; asyncio.Lock lets them use it one after the other, in the     *)
(* order they came.  An await of page.evaluate is two steps: the request   *)
(* leaves, and its answer comes.  In between everything else may happen,   *)
(* and the answer may never come: evaluate has no timeout.  A start takes  *)
(* effect when Prism gets it, before its answer, after it or without one.  *)
(***************************************************************************)
EXTENDS LiveProfile, Naturals, Sequences

CONSTANTS Callers,       \* one chat completion request each
          ProfileFiles   \* what may be at the profile's path

ASSUME BrowserAssumption == ProfileFiles \subseteq ProfileFile

VARIABLES file,      \* the profile on disk
          server,    \* run_server: down, failed, serving, closing or closed
          browser,   \* none, driver, context, page: how much of it is open
          is_ready,  \* _is_ready
          lock,      \* _lock: the caller that holds it, then those that wait
          pc,        \* where each caller's request is
          late,      \* its polling has lasted for the timeout
          starts,    \* start requests sent for each caller
          answer,    \* start_result: which start it answers, and with what
          reply,     \* HTTP status of the answer, "none" before it
          upstream   \* what became of each caller's first and second start

service == <<file, server, browser, is_ready>>
vars == <<service, lock, pc, late, starts, answer, reply, upstream>>

Generations == Callers \X (1..2)

\* Where a call waits for an answer to a request it sent.
Exchange == {"starting", "provision", "restarting", "polling"}

\* What a start answers: ids are request_id with turn_state, unknown is the
\* reason sandbox_reconnecting or unknown, with or without ids, error is an
\* error or an answer with neither.  The call itself raises when the page is
\* closed or leaves the document, and a body of the wrong shape raises too.
StartAnswers == {"raises", "error", "ids", "unknown", "unknown_ids"}
HasIds(a) == a \in {"ids", "unknown_ids"}
HasReason(a) == a \in {"unknown", "unknown_ids"}
StatusAnswers == {"raises", "error", "running", "failed", "text", "no_text"}

PageOpen == browser = "page"
FromPage(answers) == IF PageOpen THEN answers ELSE {"raises"}

ReadyNow == is_ready /\ PageOpen

Init == /\ file \in ProfileFiles
        /\ server = "down"
        /\ browser = "none"
        /\ is_ready = FALSE
        /\ lock = <<>>
        /\ pc = [c \in Callers |-> "idle"]
        /\ late = [c \in Callers |-> FALSE]
        /\ starts = [c \in Callers |-> 0]
        /\ answer = [c \in Callers |-> [of |-> 0, is |-> "error"]]
        /\ reply = [c \in Callers |-> "none"]
        /\ upstream = [g \in Generations |-> "none"]

-----------------------------------------------------------------------------
\* The life of the browser

\* The profile is read before anything is started; the channel that cannot be
\* launched is tried once more without its name.  A failure half way leaves
\* what is open open: run_server's finally is not reached from here.
Initialize ==
  /\ server = "down"
  /\ file' = Tightened(file)
  /\ \E open \in {"none", "driver", "context", "page"} :
        /\ open # "none" => Loads(file)
        /\ browser' = open
        /\ is_ready' = (open = "page")
        /\ server' = IF open = "page" THEN "serving" ELSE "failed"
  /\ UNCHANGED <<lock, pc, late, starts, answer, reply, upstream>>

\* The operator closes the window, or the browser dies.
PageLost == /\ PageOpen
            /\ browser' = "context"
            /\ UNCHANGED <<file, server, is_ready, lock, pc, late, starts, answer, reply, upstream>>

\* Mutant of ReadyInClose: the flag is not cleared.
ReadyKept == is_ready

ReadyInClose == FALSE

\* close() neither takes the lock nor waits for it.
BeginClose == /\ server = "serving"
              /\ server' = "closing"
              /\ is_ready' = ReadyInClose
              /\ UNCHANGED <<file, browser, lock, pc, late, starts, answer, reply, upstream>>

\* Exceptions of context.close() and of playwright.stop() are swallowed: the
\* page may still be open when close() returns.  What else stays open without
\* its page is not told apart.
FinishClose == /\ server = "closing"
               /\ server' = "closed"
               /\ browser' \in {"none", browser}
               /\ UNCHANGED <<file, is_ready, lock, pc, late, starts, answer, reply, upstream>>

-----------------------------------------------------------------------------
\* One chat completion

Supported(r) == r.model = "prism-default" /\ ~r.stream /\ r.prompt

\* Validation, the ready check of the server, and the one of the transport,
\* which no await separates; the rest runs under the lock, and nothing there
\* looks at _is_ready again.
Receive(c) ==
  /\ pc[c] = "idle"
  /\ server \in {"serving", "closing", "closed"}
  /\ \E r \in [model: {"prism-default", "other"}, stream: BOOLEAN,
               prompt: BOOLEAN] :
        IF Supported(r) /\ ReadyNow
        THEN /\ pc' = [pc EXCEPT ![c] = "queued"]
             /\ lock' = Append(lock, c)
             /\ UNCHANGED reply
        ELSE /\ pc' = [pc EXCEPT ![c] = "done"]
             /\ reply' = [reply EXCEPT ![c] =
                            IF Supported(r) THEN "503" ELSE "400"]
             /\ UNCHANGED lock
  /\ UNCHANGED <<service, late, starts, answer, upstream>>

\* Mutants: of AfterRelease, a timeout that keeps the lock; of Settle, a second
\* unknown answer asked again.
AfterTimeout(status) == IF status = "504" THEN lock ELSE Tail(lock)

HoldsLock(c) == Head(lock) = c
AfterRelease(status) == Tail(lock)

\* Leaving submit_and_poll, by return or by exception, gives the lock to the
\* caller that has waited longest; the server maps the outcome to a status.
Leave(c, status) == /\ pc' = [pc EXCEPT ![c] = "done"]
                    /\ reply' = [reply EXCEPT ![c] = status]
                    /\ lock' = AfterRelease(status)
                    /\ late' = [late EXCEPT ![c] = FALSE]

GoTo(c, where) == /\ pc' = [pc EXCEPT ![c] = where]
                  /\ UNCHANGED <<reply, lock, late>>

SettleAsksAgain(c, a) == \/ a = "raises" /\ Leave(c, "500")
                         \/ HasReason(a) /\ GoTo(c, "provision")
                         \/ a = "error" /\ Leave(c, "502")
                         \/ a = "ids" /\ GoTo(c, "polling")

\* Lines 213 to 224: only an answer with both ids can be polled.
Settle(c, a) == \/ a = "raises" /\ Leave(c, "500")
                \/ a \notin {"raises", "ids", "unknown_ids"} /\ Leave(c, "502")
                \/ HasIds(a) /\ GoTo(c, "polling")

\* A start request leaves the page.
Send(c) == /\ PageOpen
           /\ starts' = [starts EXCEPT ![c] = @ + 1]
           /\ upstream' = [upstream EXCEPT ![<<c, starts'[c]>>] = "sent"]

\* evaluate on a page that is closed raises before anything is sent.
CannotSend(c) == /\ ~PageOpen
                 /\ Leave(c, "500")
                 /\ UNCHANGED <<starts, upstream>>

Start(c) ==
  /\ pc[c] = "queued" /\ HoldsLock(c)
  /\ (Send(c) /\ GoTo(c, "starting")) \/ CannotSend(c)
  /\ UNCHANGED <<service, answer>>

\* The answer a to the latest start of caller c; ids come from a generation.
Answered(c, a) ==
  /\ a \in FromPage(StartAnswers)
  /\ HasIds(a) => upstream[<<c, starts[c]>>] # "sent"
  /\ answer' = [answer EXCEPT ![c] = [of |-> starts[c], is |-> a]]
  /\ UNCHANGED <<service, starts, upstream>>

StartAnswered(c) ==
  /\ pc[c] = "starting"
  /\ \E a \in StartAnswers :
        /\ Answered(c, a)
        /\ IF HasReason(a) THEN GoTo(c, "provision") ELSE Settle(c, a)

\* Fresh sandbox credentials are used in a second start, which leaves at once;
\* without them the first answer has to do.
ProvisionAnswered(c) ==
  /\ pc[c] = "provision"
  /\ \/ Send(c) /\ GoTo(c, "restarting")
     \/ PageOpen /\ Settle(c, answer[c].is) /\ UNCHANGED <<starts, upstream>>
     \/ Leave(c, "500") /\ UNCHANGED <<starts, upstream>>
  /\ UNCHANGED <<service, answer>>

\* The second start's answer replaces the first one, and is not asked again
\* for a reason.
RestartAnswered(c) ==
  /\ pc[c] = "restarting"
  /\ \E a \in StartAnswers : Answered(c, a) /\ Settle(c, a)

\* Mutant of StatusOf: output is taken before the generation has completed.
StatusOfEarly(g, s) == s \in {"text", "no_text"} => upstream[g] # "failed"

\* Assumed of Prism: a status is that of the generation whose ids were sent.
\* The code compares no identity in it.
StatusOf(g, s) == CASE s \in {"text", "no_text"} -> upstream[g] = "success"
                    [] s = "failed" -> upstream[g] = "failed"
                    [] OTHER -> TRUE

StatusAnswered(c) ==
  /\ pc[c] = "polling"
  /\ \E s \in FromPage(StatusAnswers) :
        /\ StatusOf(<<c, answer[c].of>>, s)
        /\ \/ s = "raises" /\ Leave(c, "500")
           \/ s \in {"error", "failed", "no_text"} /\ Leave(c, "502")
           \/ s = "text" /\ Leave(c, "200")
           \/ s = "running" /\ GoTo(c, "sleeping")
  /\ UNCHANGED <<service, starts, answer, upstream>>

\* The timeout runs from the first poll on, whether or not anybody looks.
TimePasses(c) ==
  /\ pc[c] \in {"polling", "sleeping"} /\ ~late[c]
  /\ late' = [late EXCEPT ![c] = TRUE]
  /\ UNCHANGED <<service, lock, pc, starts, answer, reply, upstream>>

\* The clock is read only here, between two polls.
Wake(c) ==
  /\ pc[c] = "sleeping"
  /\ \/ late[c] /\ Leave(c, "504")
     \/ ~late[c] /\ PageOpen /\ GoTo(c, "polling")
     \/ ~late[c] /\ ~PageOpen /\ Leave(c, "500")
  /\ UNCHANGED <<service, starts, answer, upstream>>

\* A start reaches Prism, whether or not its sender still waits, or the page
\* is still open.
UpstreamBegins(g) ==
  /\ upstream[g] = "sent"
  /\ upstream' = [upstream EXCEPT ![g] = "running"]
  /\ UNCHANGED <<service, lock, pc, late, starts, answer, reply>>

\* Prism finishes a generation, whether anyone still asks for it or not.
UpstreamEnds(g) ==
  /\ upstream[g] = "running"
  /\ \E end \in {"success", "failed"} : upstream' = [upstream EXCEPT ![g] = end]
  /\ UNCHANGED <<service, lock, pc, late, starts, answer, reply>>

Serve(c) == \/ Start(c) \/ StartAnswered(c)
            \/ ProvisionAnswered(c) \/ RestartAnswered(c)
            \/ StatusAnswered(c) \/ Wake(c)

Next == \/ Initialize \/ PageLost \/ BeginClose \/ FinishClose
        \/ \E c \in Callers : Receive(c) \/ Serve(c) \/ TimePasses(c)
        \/ \E g \in Generations : UpstreamBegins(g) \/ UpstreamEnds(g)

Spec == Init /\ [][Next]_vars

\* The event loop runs what it can: the caller that got the lock, and the one
\* whose sleep is over; and the clock goes on.  No answer is owed to anyone.
FairSpec == Spec /\ \A c \in Callers : /\ WF_vars(Start(c))
                                       /\ WF_vars(Wake(c))
                                       /\ WF_vars(TimePasses(c))

-----------------------------------------------------------------------------
\* Properties

Statuses == {"none", "200", "400", "500", "502", "503", "504"}
InCall == Exchange \cup {"sleeping"}
Waiting == InCall \cup {"queued"}

\* Every variable has its type.
TypeOK == /\ file \in ProfileFile
          /\ server \in {"down", "failed", "serving", "closing", "closed"}
          /\ browser \in {"none", "driver", "context", "page"}
          /\ is_ready \in BOOLEAN
          /\ lock \in Seq(Callers)
          /\ pc \in [Callers -> Waiting \cup {"idle", "done"}]
          /\ late \in [Callers -> BOOLEAN]
          /\ starts \in [Callers -> 0..2]
          /\ answer \in [Callers -> [of: 0..2, is: StartAnswers]]
          /\ reply \in [Callers -> Statuses]
          /\ upstream \in [Generations -> {"none", "sent", "running", "success", "failed"}]

\* A text answer is the text of the generation begun by the last start sent
\* for that caller, and that generation had succeeded: a caller whose first
\* start was answered "unknown" never gets the output of the abandoned one.
\* It rests on the assumption stated at StatusOf.
TextIsOfLastStart ==
  \A c \in Callers : reply[c] = "200" =>
     /\ answer[c].of = starts[c]
     /\ upstream[<<c, starts[c]>>] = "success"

\* A second start is sent only after the first was answered "unknown", which
\* may have begun a generation all the same: at most two generations a call.
SecondStartAnswersUnknown ==
  [][\A c \in Callers : starts'[c] # starts[c] =>
        /\ starts[c] < 2
        /\ starts[c] = 1 => answer[c].of = 1 /\ HasReason(answer[c].is)]_vars

Closing == server \in {"closing", "closed"}

\* A request that comes once close() has begun sends nothing, ever, although
\* close() may fail to close the page and the callers already queued behind
\* the lock go on to use it.
LateCallersSendNothing ==
  \A c \in Callers : [](Closing /\ pc[c] = "idle" => [](starts[c] = 0))

\* Every request the server accepts is answered, unless one exchange with
\* Prism is never answered: no failure, timeout or lost page keeps the lock
\* from the callers that wait for it.
EveryCallEnds ==
  \/ \A c \in Callers : pc[c] = "queued" ~> pc[c] = "done"
  \/ <>[](\E c \in Callers : pc[c] \in Exchange)

-----------------------------------------------------------------------------
\* The inductive invariant

\* The lock's queue holds each waiting caller once and nobody else, and only
\* the first of them is inside submit_and_poll: the page has one user.
LockInv ==
  /\ \A i \in DOMAIN lock : pc[lock[i]] \in Waiting
  /\ \A i, j \in DOMAIN lock : lock[i] = lock[j] => i = j
  /\ \A c \in Callers : pc[c] \in Waiting => \E i \in DOMAIN lock : lock[i] = c
  /\ \A c \in Callers : pc[c] \in InCall => lock # <<>> /\ HoldsLock(c)

\* What the place of a caller says of the starts sent for it, of the answer it
\* holds and of the generations they began.
CallOf(c) ==
  /\ pc[c] \in {"idle", "queued"} => starts[c] = 0
  /\ pc[c] \in {"starting", "provision"} => starts[c] = 1
  /\ pc[c] = "provision" => answer[c].of = 1 /\ HasReason(answer[c].is)
  /\ pc[c] = "restarting" => starts[c] = 2
  /\ pc[c] \in {"polling", "sleeping"} =>
        starts[c] > 0 /\ answer[c].of = starts[c] /\ HasIds(answer[c].is)
  /\ \A k \in 1..2 : upstream[<<c, k>>] # "none" => k <= starts[c]

\* What an answer given says of them.
ReplyOf(c) ==
  /\ reply[c] = "none" <=> pc[c] # "done"
  /\ reply[c] \in {"400", "503"} => starts[c] = 0
  /\ reply[c] = "200" => /\ starts[c] > 0 /\ answer[c].of = starts[c]
                         /\ upstream[<<c, starts[c]>>] = "success"

CallInv == \A c \in Callers : CallOf(c) /\ ReplyOf(c)

\* From the beginning of close() on the transport is not ready.
CloseInv == Closing => ~is_ready

IInv == TypeOK /\ LockInv /\ CallInv /\ CloseInv
=============================================================================
