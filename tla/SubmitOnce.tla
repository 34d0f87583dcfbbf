----------------------------- MODULE SubmitOnce -----------------------------
(***************************************************************************)
(* What both programs promise about generations, and nothing of how: a     *)
(* request is sent at most once, never beside another one whose end is     *)
(* not known, and an outcome is reported only when it is known.            *)
(*                                                                         *)
(* RunSupervisor and DirectEngine are shown to implement this              *)
(* specification, each under its own refinement mapping.                   *)
(***************************************************************************)
EXTENDS Naturals

CONSTANT Run

VARIABLES
  phase,  \* what the program says of a run
  sent,   \* the runs whose request was sent
  remote  \* what the service really does

vars == <<phase, sent, remote>>

Outcome == {"succeeded", "failed", "cancelled"}
\* Nothing more will be heard of a settled run; an abandoned one is settled by
\* a human's word.
Settled == Outcome \cup {"abandoned"}
Phase   == {"new", "open", "unknown"} \cup Settled
Remote  == {"none", "active"} \cup Outcome

Init ==
  /\ phase = [r \in Run |-> "new"]
  /\ sent = {}
  /\ remote = [r \in Run |-> "none"]

\* An outcome is known from the service, or from having sent nothing.
Known(r, o) ==
  IF r \in sent THEN remote[r] = o ELSE o \in {"failed", "cancelled"}

\* The ways in which a run may pass from one phase to another.
Move(r, p, q) ==
  \/ p = "new" /\ q = "open"
  \/ p = "open" /\ q = "unknown"
  \/ p = "unknown" /\ q = "abandoned"
  \/ p \in {"open", "unknown"} /\ q \in Outcome /\ Known(r, q)

\* A restart may pass judgement on several runs at once.
Judge ==
  /\ phase' \in [Run -> Phase]
  /\ \A r \in Run : phase'[r] = phase[r] \/ Move(r, phase[r], phase'[r])
  /\ UNCHANGED <<sent, remote>>

\* The one request of a run, and nobody else's end outstanding.  The program may
\* have said already that it does not know.
Send(r) ==
  /\ phase[r] \in {"open", "unknown"} /\ r \notin sent
  /\ \A s \in sent : phase[s] \in Settled
  /\ sent' = sent \cup {r}
  /\ remote' \in {remote, [remote EXCEPT ![r] = "active"]}
  /\ UNCHANGED phase

\* A request may take effect long after it was sent.
Begin(r) ==
  /\ r \in sent /\ remote[r] = "none"
  /\ remote' = [remote EXCEPT ![r] = "active"]
  /\ UNCHANGED <<phase, sent>>

End(r) ==
  /\ remote[r] = "active"
  /\ \E o \in Outcome : remote' = [remote EXCEPT ![r] = o]
  /\ UNCHANGED <<phase, sent>>

Next == Judge \/ \E r \in Run : Send(r) \/ Begin(r) \/ End(r)

Spec == Init /\ [][Next]_vars
=============================================================================
