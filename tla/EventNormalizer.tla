--------------------------- MODULE EventNormalizer ---------------------------
(***************************************************************************)
(* What one observation of a remote task amounts to: runtime/events.py,    *)
(* EventNormalizer, fed by provider/adapter.py and read once, at the end   *)
(* of the stream, by the supervisor.                                       *)
(*                                                                         *)
(* The normalizer keeps a few flags while events arrive in any order and   *)
(* any number; the properties compare its verdict with the whole stream.   *)
(* A text is a sequence of pieces; sizes in bytes are counted in pieces.   *)
(*                                                                         *)
(* Definitions that no action uses are deliberate defects of the           *)
(* definition that follows them.                                           *)
(***************************************************************************)
EXTENDS Naturals, Sequences

CONSTANTS
  Piece,      \* pieces of text
  MaxPieces,  \* bound: pieces of text in one event
  NoText,     \* the payload has no text
  NoEvent,    \* no terminal event yet
  MaxEvents,  \* max_event_count
  MaxText     \* max_text_bytes

ASSUME NormalizerAssumption ==
  /\ MaxPieces \in Nat /\ MaxEvents \in Nat /\ MaxText \in Nat
  /\ NoText \notin Seq(Piece)

TextKind     == {"TextDelta", "TextSnapshot"}
TerminalKind == {"RunCompleted", "RunFailed", "CancellationConfirmed"}
OtherKind    == {"Other", "ProtocolUnknown"}
Kind         == TextKind \cup TerminalKind \cup OtherKind
Reason       == {"supported", "unsupported"}

Payload == UNION {[1..n -> Piece] : n \in 0..MaxPieces}
Text    == Seq(Piece) \cup {NoText}

\* The payload of an event: its text and its finish_reason, where the default
\* and an absent one count as supported.
Event == [kind : Kind, text : Text, reason : Reason]

\* What may arrive: any text event, any end, and what carries neither.
Arrival ==
  [kind : TextKind, text : Payload \cup {NoText}, reason : {"supported"}]
    \cup [kind : TerminalKind, text : Payload \cup {NoText}, reason : Reason]
    \cup [kind : OtherKind, text : {NoText}, reason : {"supported"}]

ASSUME NoEventAssumption == NoEvent \notin Event

VARIABLES
  events,    \* self.events
  buffer,    \* text_buffer
  sawText,   \* saw_text
  terminal,  \* the first terminal event
  final,     \* final_text
  conflict, unknown,
  stage,     \* open; refused by add_event; rejected or judged at the end
  verdict    \* what get_terminal_event returned

flags == <<sawText, terminal, final, conflict, unknown>>
vars  == <<events, buffer, flags, stage, verdict>>

Init ==
  /\ events = <<>> /\ buffer = <<>> /\ sawText = FALSE
  /\ terminal = NoEvent /\ final = NoText
  /\ conflict = FALSE /\ unknown = FALSE
  /\ stage = "open" /\ verdict = NoEvent

\* The limit on texts is checked when the event has already been counted.
Fits(b, f) == Len(b) <= MaxText /\ (f # NoText => Len(f) <= MaxText)

\* Every variable has its type, no more events are kept than the limit allows,
\* and an observation with more text than the limit is not carried on.
TypeOK ==
  /\ events \in Seq(Event)
  /\ buffer \in Seq(Piece)
  /\ sawText \in BOOLEAN
  /\ terminal \in Event \cup {NoEvent}
  /\ final \in Text
  /\ conflict \in BOOLEAN /\ unknown \in BOOLEAN
  /\ stage \in {"open", "refused", "rejected", "judged"}
  /\ verdict \in Event \cup {NoEvent}
  /\ Len(events) <= MaxEvents
  /\ stage # "refused" => Fits(buffer, final)

-----------------------------------------------------------------------------
\* Every event but one over the limit of their number is recorded.
Record(e) ==
  /\ stage = "open" /\ Len(events) < MaxEvents
  /\ events' = Append(events, e)

ProceedIf(ok) == stage' = IF ok THEN "open" ELSE "refused"

\* Text is taken up only before the end; a delta adds, a snapshot replaces.
AddOutput(e) ==
  /\ e.kind \in TextKind /\ e.text # NoText /\ terminal = NoEvent
  /\ Record(e)
  /\ buffer' = IF e.kind = "TextDelta" THEN buffer \o e.text ELSE e.text
  /\ sawText' = TRUE
  /\ ProceedIf(Fits(buffer', final))
  /\ UNCHANGED <<terminal, final, conflict, unknown, verdict>>

AddLateTextAsConflict(e) ==
  /\ e.kind \in TextKind /\ e.text # NoText /\ terminal # NoEvent
  /\ Record(e)
  /\ conflict' = TRUE
  /\ ProceedIf(Fits(buffer, final))
  /\ UNCHANGED <<buffer, sawText, terminal, final, unknown, verdict>>

\* After the end only the final text itself, as a snapshot, is harmless.
AddLateText(e) ==
  /\ e.kind \in TextKind /\ e.text # NoText /\ terminal # NoEvent
  /\ Record(e)
  /\ conflict' = (conflict \/ ~(e.kind = "TextSnapshot" /\ e.text = final))
  /\ ProceedIf(Fits(buffer, final))
  /\ UNCHANGED <<buffer, sawText, terminal, final, unknown, verdict>>

\* A text event without a string.
AddBadText(e) ==
  /\ e.kind \in TextKind /\ e.text = NoText
  /\ Record(e)
  /\ ProceedIf(FALSE)
  /\ UNCHANGED <<buffer, flags, verdict>>

FinalOfBuffer(e) == IF sawText THEN buffer ELSE e.text

\* The final text of a completion is its own; failing that, what was put
\* out; failing that, none.
FinalOf(e) ==
  IF e.text # NoText THEN e.text ELSE IF sawText THEN buffer ELSE NoText

AddTerminal(e) ==
  /\ e.kind \in TerminalKind /\ terminal = NoEvent
  /\ Record(e)
  /\ terminal' = e
  /\ IF e.kind = "RunCompleted"
       THEN /\ final' = FinalOf(e)
            /\ sawText' = (sawText \/ e.text # NoText)
            /\ ProceedIf(e.reason # "unsupported" /\ Fits(buffer, final'))
       ELSE /\ ProceedIf(Fits(buffer, final))
            /\ UNCHANGED <<final, sawText>>
  /\ UNCHANGED <<buffer, conflict, unknown, verdict>>

AddSameKindAgain(e) ==
  /\ e.kind \in TerminalKind /\ terminal # NoEvent
  /\ Record(e)
  /\ conflict' = (conflict \/ e.kind # terminal.kind)
  /\ ProceedIf(Fits(buffer, final))
  /\ UNCHANGED <<buffer, sawText, terminal, final, unknown, verdict>>

\* Another end is harmless only as an exact repetition.
AddTerminalAgain(e) ==
  /\ e.kind \in TerminalKind /\ terminal # NoEvent
  /\ Record(e)
  /\ conflict' = (conflict \/ e # terminal)
  /\ ProceedIf(Fits(buffer, final))
  /\ UNCHANGED <<buffer, sawText, terminal, final, unknown, verdict>>

AddOther(e) ==
  /\ e.kind \in OtherKind
  /\ Record(e)
  /\ unknown' = (unknown \/ e.kind = "ProtocolUnknown")
  /\ ProceedIf(Fits(buffer, final))
  /\ UNCHANGED <<buffer, sawText, terminal, final, conflict, verdict>>

\* One event too many, one that is too large, malformed, or that contradicts
\* the identity of the handle: the observation ends before it is recorded.
Refuse ==
  /\ stage = "open"
  /\ ProceedIf(FALSE)
  /\ UNCHANGED <<events, buffer, flags, verdict>>

\* Evidence that is unusable: contradictory, not understood, or a completion
\* without any output.
Contradicted ==
  \/ conflict \/ unknown
  \/ terminal # NoEvent /\ terminal.kind = "RunCompleted" /\ (final = NoText \/ ~sawText)

\* get_terminal_event, at the end of the stream.
Resolve ==
  /\ stage = "open"
  /\ IF Contradicted
       THEN stage' = "rejected" /\ UNCHANGED verdict
       ELSE stage' = "judged" /\ verdict' = terminal
  /\ UNCHANGED <<events, buffer, flags>>

Add(e) ==
  \/ AddOutput(e) \/ AddLateText(e) \/ AddBadText(e)
  \/ AddTerminal(e) \/ AddTerminalAgain(e) \/ AddOther(e)

Next == (\E e \in Arrival : Add(e)) \/ Refuse \/ Resolve

Spec == Init /\ [][Next]_vars

-----------------------------------------------------------------------------
(* What the verdict has to do with the stream.                             *)

IsText(e)     == e.kind \in TextKind
IsTerminal(e) == e.kind \in TerminalKind

\* The end of a stream is its first terminal event.
EndsAt(i) ==
  /\ i \in DOMAIN events /\ IsTerminal(events[i])
  /\ \A j \in DOMAIN events : j < i => ~IsTerminal(events[j])

\* Nothing in the stream is unknown, and what follows its end only repeats it.
Consistent(i) ==
  \A j \in DOMAIN events :
    /\ events[j].kind # "ProtocolUnknown"
    /\ j > i /\ IsTerminal(events[j]) => events[j] = events[i]
    /\ j > i /\ IsText(events[j]) =>
         events[j].kind = "TextSnapshot" /\ events[j].text = final

\* An end of which nothing in the stream takes anything away.
Proven(i) ==
  /\ EndsAt(i) /\ Consistent(i)
  /\ events[i].kind = "RunCompleted" => final # NoText

\* An outcome is accepted only if the stream as a whole has one end and nothing
\* against it: neither the first nor the last event wins over a contradiction,
\* in whatever order they came (add_event, get_terminal_event).
VerdictOfWholeStream ==
  stage = "judged" /\ verdict # NoEvent =>
    \E i \in DOMAIN events : Proven(i) /\ events[i] = verdict

\* And an end that nothing contradicts is never thrown away, repetitions of it
\* and of its text included.
EvidenceIsAccepted ==
  stage \in {"judged", "rejected"} =>
    \A i \in DOMAIN events : Proven(i) => stage = "judged" /\ verdict = events[i]

\* Of the first n events of stream s, those whose text no snapshot replaces.
Kept(s, n) ==
  {j \in 1..n : /\ IsText(s[j])
                /\ \A k \in 1..n : k > j => s[k].kind # "TextSnapshot"}

\* Text t is what the first n events of s put out: the kept texts lie in it
\* side by side, in the order of their events, and fill it; at says where.
PutOut(t, s, n) ==
  \E at \in [1..n -> 0..Len(t)] :
    /\ \A j \in Kept(s, n) :
         /\ at[j] + Len(s[j].text) <= Len(t)
         /\ \A p \in DOMAIN s[j].text : t[at[j] + p] = s[j].text[p]
         /\ \A k \in Kept(s, n) : j < k => at[j] + Len(s[j].text) <= at[k]
    /\ \A q \in DOMAIN t : \E j \in Kept(s, n) : at[j] < q /\ q <= at[j] + Len(s[j].text)

\* The text of a completed stream is the one its end carries, or all that was
\* put out before the end and nothing that came after it; other ends have none
\* (final_text of add_event).
FinalTextOfStream ==
  stage # "refused" =>
    \A i \in DOMAIN events : EndsAt(i) =>
      IF events[i].kind # "RunCompleted" THEN final = NoText
      ELSE IF events[i].text # NoText THEN final = events[i].text
      ELSE IF \E j \in 1..(i - 1) : IsText(events[j])
        THEN final # NoText /\ PutOut(final, events, i - 1)
      ELSE final = NoText
=============================================================================
