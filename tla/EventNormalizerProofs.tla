------------------------ MODULE EventNormalizerProofs ------------------------
(* What TLAPS proves about EventNormalizer: the flags kept event by event     *)
(* always say what the whole stream says, so the verdict read off them does,  *)
(* and the text kept is the one the stream put out.                           *)
EXTENDS EventNormalizer, TLAPS

\* What may not follow an end that left the final text f.
Denies(e, end, f) ==
  \/ IsTerminal(e) /\ e # end
  \/ IsText(e) /\ ~(e.kind = "TextSnapshot" /\ e.text = f)

\* Event j, after the end i, says something else than it did.
Contradicts(j, i) ==
  j \in DOMAIN events /\ j > i /\ Denies(events[j], events[i], final)

\* Before the first terminal event there is none in the stream.
NotEnded ==
  terminal = NoEvent =>
    /\ final = NoText /\ ~conflict
    /\ \A j \in DOMAIN events : ~IsTerminal(events[j])

\* Afterwards it is the end of the stream.
Ended ==
  terminal # NoEvent =>
    /\ \E i \in DOMAIN events : EndsAt(i) /\ events[i] = terminal
    /\ final # NoText => terminal.kind = "RunCompleted" /\ sawText

UnknownNoticed ==
  unknown <=> \E j \in DOMAIN events : events[j].kind = "ProtocolUnknown"

ConflictNoticed ==
  \A i \in DOMAIN events : EndsAt(i) => (conflict <=> \E j \in DOMAIN events : Contradicts(j, i))

Flags == NotEnded /\ Ended /\ UnknownNoticed /\ ConflictNoticed

Judged ==
  /\ stage = "judged" => ~Contradicted /\ verdict = terminal
  /\ stage = "rejected" => Contradicted

\* The inductive invariant. A refused event may be in the stream without a
\* trace in the flags, so they are meaningful only where none was.
IInv == TypeOK /\ (stage # "refused" => Flags /\ Judged)

-----------------------------------------------------------------------------
\* A payload is a text.
LEMMA PayloadIsText == Payload \subseteq Seq(Piece)
<1> SUFFICES ASSUME NEW n \in Nat, NEW p \in [1..n -> Piece] PROVE p \in Seq(Piece)
  BY NormalizerAssumption, SMT DEF Payload
<1> QED BY SMT

\* What may arrive is an event.
LEMMA ArrivalTyped == Arrival \subseteq Event
BY PayloadIsText, SMT
  DEF Arrival, Event, Kind, Text, TextKind, TerminalKind, OtherKind, Reason

\* Before the first event every flag says what the empty stream says.
LEMMA Initially == Init => IInv
<1> SUFFICES ASSUME Init PROVE IInv
  OBVIOUS
<1>1. TypeOK
  <2>1. <<>> \in Seq(Piece) /\ <<>> \in Seq(Event) /\ Len(<<>>) = 0
    BY SMT
  <2>2. Fits(buffer, final) /\ Len(events) <= MaxEvents
    BY <2>1, NormalizerAssumption, SMT DEF Init, Fits
  <2>3. sawText \in BOOLEAN /\ conflict \in BOOLEAN /\ unknown \in BOOLEAN
    BY DEF Init
  <2>4. buffer \in Seq(Piece) /\ events \in Seq(Event) /\ final \in Text
    BY <2>1 DEF Init, Text
  <2> QED BY <2>2, <2>3, <2>4, Zenon DEF Init, TypeOK
<1>2. Flags
  BY SMT DEF Init, Flags, NotEnded, Ended, UnknownNoticed, ConflictNoticed
<1>3. Judged
  BY SMT DEF Init, Judged
<1> QED BY <1>1, <1>2, <1>3 DEF IInv

\* Type correctness of one step.
LEMMA TypeStep == TypeOK /\ [Next]_vars => TypeOK'
<1> SUFFICES ASSUME TypeOK, [Next]_vars PROVE TypeOK'
  OBVIOUS
<1> USE NormalizerAssumption, ArrivalTyped
<1>1. ASSUME NEW e \in Arrival, AddOutput(e) PROVE TypeOK'
  <2>1. e \in Event /\ e.text \in Seq(Piece)
    BY <1>1, SMT DEF AddOutput, Event, Text
  <2>2. buffer' \in Seq(Piece)
    BY <1>1, <2>1, SMT DEF AddOutput, TypeOK
  <2>3. events' \in Seq(Event) /\ Len(events') <= MaxEvents
    BY <1>1, <2>1, SMT DEF AddOutput, Record, TypeOK
  <2> QED BY <1>1, <2>2, <2>3, SMT DEF AddOutput, ProceedIf, TypeOK
<1>2. ASSUME NEW e \in Arrival, AddLateText(e) PROVE TypeOK'
  <2>1. events' \in Seq(Event) /\ Len(events') <= MaxEvents
    BY <1>2, SMT DEF AddLateText, Record, TypeOK
  <2> QED BY <1>2, <2>1, SMT DEF AddLateText, ProceedIf, TypeOK
<1>3. ASSUME NEW e \in Arrival, AddBadText(e) PROVE TypeOK'
  <2>1. events' \in Seq(Event) /\ Len(events') <= MaxEvents
    BY <1>3, SMT DEF AddBadText, Record, TypeOK
  <2> QED BY <1>3, <2>1, SMT DEF AddBadText, ProceedIf, TypeOK, flags
<1>4. ASSUME NEW e \in Arrival, AddTerminal(e) PROVE TypeOK'
  <2>1. events' \in Seq(Event) /\ Len(events') <= MaxEvents
    BY <1>4, SMT DEF AddTerminal, Record, TypeOK
  <2>2. e \in Event /\ FinalOf(e) \in Text
    BY SMT DEF Event, FinalOf, Text, TypeOK
  <2>3. CASE e.kind = "RunCompleted"
    BY <1>4, <2>1, <2>2, <2>3, SMT DEF AddTerminal, ProceedIf, TypeOK
  <2>4. CASE e.kind # "RunCompleted"
    BY <1>4, <2>1, <2>2, <2>4, SMT DEF AddTerminal, ProceedIf, TypeOK
  <2> QED BY <2>3, <2>4
<1>5. ASSUME NEW e \in Arrival, AddTerminalAgain(e) PROVE TypeOK'
  <2>1. events' \in Seq(Event) /\ Len(events') <= MaxEvents
    BY <1>5, SMT DEF AddTerminalAgain, Record, TypeOK
  <2> QED BY <1>5, <2>1, SMT DEF AddTerminalAgain, ProceedIf, TypeOK
<1>6. ASSUME NEW e \in Arrival, AddOther(e) PROVE TypeOK'
  <2>1. events' \in Seq(Event) /\ Len(events') <= MaxEvents
    BY <1>6, SMT DEF AddOther, Record, TypeOK
  <2> QED BY <1>6, <2>1, SMT DEF AddOther, ProceedIf, TypeOK
<1>7. CASE Refuse
  BY <1>7, SMT DEF Refuse, ProceedIf, TypeOK, flags
<1>8. CASE Resolve
  BY <1>8, SMT DEF Resolve, TypeOK, flags
<1>9. CASE UNCHANGED vars
  BY <1>9, SMT DEF vars, flags, TypeOK, Fits
<1> QED BY <1>1, <1>2, <1>3, <1>4, <1>5, <1>6, <1>7, <1>8, <1>9 DEF Next, Add

-----------------------------------------------------------------------------
\* What one more event does to the stream.
LEMMA AppendEvent ==
  ASSUME events \in Seq(Event), NEW e \in Event, events' = Append(events, e)
  PROVE  /\ DOMAIN events = 1..Len(events) /\ Len(events) \in Nat
         /\ DOMAIN events' = 1..(Len(events) + 1)
         /\ \A i \in DOMAIN events : events'[i] = events[i] /\ i \in DOMAIN events'
         /\ events'[Len(events) + 1] = e
BY SMT

\* The end stays the end; a first terminal event becomes it.
LEMMA EndsKept ==
  ASSUME events \in Seq(Event), NEW e \in Event, events' = Append(events, e)
  PROVE  /\ \A i \in DOMAIN events : EndsAt(i) => EndsAt(i)'
         /\ \A i : EndsAt(i)' => EndsAt(i) \/ (i = Len(events) + 1 /\ IsTerminal(e)
                                /\ \A j \in DOMAIN events : ~IsTerminal(events[j]))
BY AppendEvent, SMT DEF EndsAt, IsTerminal

\* A stream has one first terminal event.
LEMMA OneEnd ==
  ASSUME events \in Seq(Event), NEW i, NEW j, EndsAt(i), EndsAt(j) PROVE i = j
<1>1. i \in Nat /\ j \in Nat
  BY SMT DEF EndsAt
<1> QED BY <1>1, SMT DEF EndsAt

\* What an event that is not refused does to the flags.
Taken(e) ==
  /\ unknown' <=> (unknown \/ e.kind = "ProtocolUnknown")
  /\ terminal' = IF IsTerminal(e) /\ terminal = NoEvent THEN e ELSE terminal
  /\ terminal # NoEvent \/ ~IsTerminal(e) => final' = final
  /\ terminal = NoEvent /\ IsTerminal(e) /\ final' # NoText => e.kind = "RunCompleted" /\ sawText'
  /\ sawText => sawText'
  /\ conflict' <=> (conflict \/ (terminal # NoEvent /\ Denies(e, terminal, final)))

\* An event that is taken leaves the flags in agreement with the longer stream.
LEMMA FlagsStep ==
  ASSUME TypeOK, Flags, NEW e \in Event, events' = Append(events, e), Taken(e)
  PROVE  Flags'
<1> events \in Seq(Event) /\ conflict \in BOOLEAN /\ unknown \in BOOLEAN
  BY DEF TypeOK
<1>n. PICK n : n = Len(events) + 1
  OBVIOUS
<1>0. /\ DOMAIN events = 1..Len(events) /\ Len(events) \in Nat
      /\ n = Len(events) + 1 /\ DOMAIN events' = 1..n
      /\ \A i \in DOMAIN events : events'[i] = events[i] /\ i \in DOMAIN events'
      /\ events'[n] = e /\ e # NoEvent
  BY <1>n, AppendEvent, NoEventAssumption
<1> USE <1>0
<1>1. UnknownNoticed'
  <2>1. (\E j \in DOMAIN events' : events'[j].kind = "ProtocolUnknown")
          <=> (\E j \in DOMAIN events : events[j].kind = "ProtocolUnknown")
                \/ e.kind = "ProtocolUnknown"
    BY SMT
  <2> QED BY <2>1, Zenon DEF Flags, UnknownNoticed, Taken
<1>2. CASE terminal = NoEvent /\ ~IsTerminal(e)
  <2>1. NotEnded' /\ Ended'
    <3>1. terminal' = NoEvent /\ final' = NoText
      BY <1>2, Zenon DEF Flags, NotEnded, Taken
    <3>2. ~conflict'
      BY <1>2, Zenon DEF Flags, NotEnded, Taken
    <3>3. \A j \in DOMAIN events' : ~IsTerminal(events[j])'
      BY <1>2, SMT DEF Flags, NotEnded, IsTerminal
    <3> QED BY <3>1, <3>2, <3>3, Zenon DEF NotEnded, Ended
  <2>2. ConflictNoticed'
    BY <2>1, <1>2, EndsKept, SMT DEF Flags, NotEnded, ConflictNoticed, EndsAt, Taken
  <2> QED BY <1>1, <2>1, <2>2 DEF Flags
<1>3. CASE terminal = NoEvent /\ IsTerminal(e)
  <2>1. NotEnded' 
    BY <1>3, SMT DEF NotEnded, Taken
  <2>2. EndsAt(n)'
    BY <1>3, SMT DEF Flags, NotEnded, EndsAt, IsTerminal
  <2>3. Ended'
    <3>1. terminal' = e /\ (final' # NoText => e.kind = "RunCompleted" /\ sawText')
      BY <1>3, Zenon DEF Taken
    <3>2. n \in DOMAIN events'
      BY SMT
    <3> QED BY <2>2, <3>1, <3>2, Zenon DEF Ended
  <2>4. ~conflict'
    BY <1>3, Zenon DEF Flags, NotEnded, Taken
  <2>5. \A i : EndsAt(i)' => i = n
    BY <1>3, EndsKept, SMT DEF Flags, NotEnded, EndsAt
  <2>6. ConflictNoticed'
    BY <2>4, <2>5, SMT DEF ConflictNoticed, Contradicts
  <2> QED BY <1>1, <2>1, <2>3, <2>6 DEF Flags
<1>4. CASE terminal # NoEvent
  <2>1. NotEnded' 
    BY <1>4, SMT DEF NotEnded, Taken
  <2>2. PICK k \in DOMAIN events : EndsAt(k) /\ events[k] = terminal
    BY <1>4 DEF Flags, Ended
  <2>3. EndsAt(k)'
    BY <2>2, EndsKept
  <2>4. Ended'
    BY <1>4, <2>2, <2>3, SMT DEF Flags, Ended, Taken
  <2>5. \A i : EndsAt(i)' => i = k
    BY <2>2, EndsKept, OneEnd, SMT DEF EndsAt
  <2>6. \A j \in DOMAIN events : Contradicts(j, k)' <=> Contradicts(j, k)
    BY <1>4, <2>2, SMT DEF Contradicts, Taken, IsTerminal, IsText
  <2>7. Contradicts(n, k)' <=>
          Denies(e, terminal, final)
    <3>1. k < n /\ n \in DOMAIN events'
      BY SMT
    <3>2. final' = final /\ events'[k] = terminal /\ events'[n] = e
      BY <1>4, <2>2, SMT DEF Taken
    <3> QED BY <3>1, <3>2, SMT DEF Contradicts, Denies, IsTerminal, IsText
  <2>8. conflict <=> \E j \in DOMAIN events : Contradicts(j, k)
    BY <2>2 DEF Flags, ConflictNoticed
  <2>9. conflict' <=> \E j \in DOMAIN events' : Contradicts(j, k)'
    <3>1. \A j \in DOMAIN events' : j \in DOMAIN events \/ j = n
      BY SMT
    <3>2. n \in DOMAIN events'
      BY SMT
    <3>3. (\E j \in DOMAIN events' : Contradicts(j, k)')
            <=> (\E j \in DOMAIN events : Contradicts(j, k)) \/ Contradicts(n, k)'
      BY <2>6, <3>1, <3>2, Zenon
    <3> QED BY <1>4, <2>7, <2>8, <3>3, Zenon DEF Taken
  <2>10. ConflictNoticed'
    BY <2>5, <2>9 DEF ConflictNoticed
  <2> QED BY <1>1, <2>1, <2>4, <2>10 DEF Flags
<1> QED BY <1>2, <1>3, <1>4

\* One step with the flags.
LEMMA Step == IInv /\ [Next]_vars => IInv'
<1> SUFFICES ASSUME IInv, [Next]_vars PROVE IInv'
  OBVIOUS
<1> TypeOK /\ TypeOK'
  BY TypeStep DEF IInv
<1> SUFFICES ASSUME stage' # "refused" PROVE (Flags /\ Judged)'
  BY DEF IInv
<1>1. ASSUME NEW e \in Arrival, Add(e) PROVE (Flags /\ Judged)'
  <2>1. e \in Event /\ stage = "open" /\ stage' = "open" /\ events' = Append(events, e)
    BY <1>1, ArrivalTyped, SMT
      DEF Add, AddOutput, AddLateText, AddBadText, AddTerminal, AddTerminalAgain, AddOther,
          Record, ProceedIf
  <2>2. /\ IsText(e) <=> e.kind \in TextKind
        /\ IsTerminal(e) <=> e.kind \in TerminalKind
        /\ e.kind = "RunCompleted" => IsTerminal(e)
        /\ ~(IsText(e) /\ IsTerminal(e))
        /\ e.kind \in OtherKind => ~IsText(e) /\ ~IsTerminal(e)
        /\ IsText(e) \/ IsTerminal(e) => e.kind # "ProtocolUnknown"
    BY SMT DEF IsText, IsTerminal, TextKind, TerminalKind, OtherKind
  <2>3. ASSUME AddOutput(e) PROVE Taken(e)
    BY <2>2, <2>3, Zenon DEF AddOutput, Taken
  <2>4. ASSUME AddLateText(e) PROVE Taken(e)
    BY <2>2, <2>4, Zenon DEF AddLateText, Taken, Denies
  <2>5. CASE AddBadText(e)
    BY <2>1, <2>5, SMT DEF AddBadText, ProceedIf
  <2>6. ASSUME AddTerminal(e) PROVE Taken(e)
    <3>1. CASE e.kind = "RunCompleted"
      BY <2>2, <2>6, <3>1, Zenon DEF AddTerminal, FinalOf, Taken
    <3>2. CASE e.kind # "RunCompleted"
      <4>1. final = NoText
        BY <2>1, <2>6 DEF AddTerminal, IInv, Flags, NotEnded
      <4> QED BY <2>2, <2>6, <3>2, <4>1, Zenon DEF AddTerminal, Taken
    <3> QED BY <3>1, <3>2
  <2>7. ASSUME AddTerminalAgain(e) PROVE Taken(e)
    BY <2>2, <2>7, Zenon DEF AddTerminalAgain, Taken, Denies
  <2>8. ASSUME AddOther(e) PROVE Taken(e)
    BY <2>2, <2>8, Zenon DEF AddOther, Taken, Denies
  <2>9. Taken(e) \/ AddBadText(e)
    BY <1>1, <2>3, <2>4, <2>6, <2>7, <2>8, Zenon DEF Add
  <2>10. Flags
    BY <2>1 DEF IInv
  <2>11. Flags'
    BY <2>1, <2>5, <2>9, <2>10, FlagsStep
  <2>12. Judged'
    BY <2>1, SMT DEF Judged
  <2> QED BY <2>11, <2>12
<1>2. CASE Refuse
  BY <1>2 DEF Refuse, ProceedIf
<1>3. CASE Resolve
  <2>1. stage = "open" /\ Flags
    BY <1>3 DEF Resolve, IInv
  <2>2. Flags'
    BY <1>3, <2>1 DEF Resolve, flags, Flags, NotEnded, Ended, UnknownNoticed,
      ConflictNoticed, Contradicts, EndsAt
  <2>3. Contradicted' <=> Contradicted
    BY <1>3 DEF Resolve, flags, Contradicted
  <2>4. Judged'
    BY <1>3, <2>3, SMT DEF Resolve, flags, Judged
  <2> QED BY <2>2, <2>4
<1>4. CASE UNCHANGED vars
  BY <1>4 DEF vars, flags, IInv, Flags, NotEnded, Ended, UnknownNoticed, ConflictNoticed,
    Contradicts, EndsAt, Judged, Contradicted
<1> QED BY <1>1, <1>2, <1>3, <1>4 DEF Next

\* Typing and the limits on events and text: TypeOK in every reachable state.
THEOREM TypeCorrect == Spec => []TypeOK
<1>1. IInv => TypeOK
  BY DEF IInv
<1> QED BY Initially, Step, <1>1, PTL DEF Spec

\* The flags never lose anything of the stream: the inductive invariant holds.
THEOREM Correct == Spec => []IInv
BY Initially, Step, PTL DEF Spec

\* No outcome is accepted against anything in the stream (get_terminal_event).
THEOREM VerdictSound == Spec => []VerdictOfWholeStream
<1>1. IInv => VerdictOfWholeStream
  <2> SUFFICES ASSUME IInv, stage = "judged", verdict # NoEvent
      PROVE \E i \in DOMAIN events : Proven(i) /\ events[i] = verdict
    BY DEF VerdictOfWholeStream
  <2>1. Flags /\ Judged
    BY DEF IInv
  <2>2. terminal = verdict /\ ~Contradicted
    BY <2>1 DEF Judged
  <2>3. PICK i \in DOMAIN events : EndsAt(i) /\ events[i] = terminal
    BY <2>1, <2>2 DEF Flags, Ended
  <2>4. ~conflict /\ ~unknown
    BY <2>2 DEF Contradicted
  <2>5. ~(\E j \in DOMAIN events : Contradicts(j, i))
    BY <2>1, <2>3, <2>4 DEF Flags, ConflictNoticed
  <2>6. \A j \in DOMAIN events : events[j].kind # "ProtocolUnknown"
    BY <2>1, <2>4 DEF Flags, UnknownNoticed
  <2>7. Consistent(i)
    BY <2>5, <2>6, Zenon DEF Consistent, Contradicts, Denies
  <2>8. events[i].kind = "RunCompleted" => final # NoText
    BY <2>2, <2>3 DEF Contradicted
  <2> QED BY <2>2, <2>3, <2>7, <2>8 DEF Proven
<1> QED BY Correct, <1>1, PTL

\* And no proven outcome is thrown away (add_event, get_terminal_event).
THEOREM VerdictComplete == Spec => []EvidenceIsAccepted
<1>1. IInv => EvidenceIsAccepted
  <2> SUFFICES ASSUME IInv, stage \in {"judged", "rejected"}, NEW i \in DOMAIN events, Proven(i)
      PROVE stage = "judged" /\ verdict = events[i]
    BY DEF EvidenceIsAccepted
  <2>1. Flags /\ Judged /\ events \in Seq(Event)
    BY DEF IInv, TypeOK
  <2>2. terminal # NoEvent
    BY <2>1 DEF Flags, NotEnded, Proven, EndsAt
  <2>3. terminal = events[i]
    BY <2>1, <2>2, OneEnd DEF Flags, Ended, Proven
  <2>4. ~conflict
    BY <2>1, Zenon DEF Flags, ConflictNoticed, Contradicts, Denies,
      Proven, Consistent
  <2>5. ~unknown
    BY <2>1, Zenon DEF Flags, UnknownNoticed, Proven, Consistent
  <2>6. terminal.kind = "RunCompleted" => final # NoText /\ sawText
    BY <2>1, <2>2, <2>3 DEF Flags, Ended, Proven
  <2>7. ~Contradicted
    BY <2>4, <2>5, <2>6 DEF Contradicted
  <2> QED BY <2>1, <2>3, <2>7 DEF Judged
<1> QED BY Correct, <1>1, PTL
-----------------------------------------------------------------------------
(* The text of the stream.                                                  *)

\* What is put out depends on the events counted, and on nothing after them.
LEMMA PutOutOfPrefix ==
  ASSUME NEW t, NEW s, NEW u, NEW n \in Nat, \A j \in 1..n : s[j] = u[j], PutOut(t, s, n)
  PROVE  PutOut(t, u, n)
<1>1. Kept(s, n) = Kept(u, n) /\ \A j \in Kept(s, n) : s[j] = u[j]
  BY DEF Kept, IsText
<1>2. PICK at \in [1..n -> 0..Len(t)] :
        /\ \A j \in Kept(s, n) :
             /\ at[j] + Len(s[j].text) <= Len(t)
             /\ \A p \in DOMAIN s[j].text : t[at[j] + p] = s[j].text[p]
             /\ \A k \in Kept(s, n) : j < k => at[j] + Len(s[j].text) <= at[k]
        /\ \A q \in DOMAIN t : \E j \in Kept(s, n) : at[j] < q /\ q <= at[j] + Len(s[j].text)
  BY DEF PutOut
<1>3. \A j \in Kept(u, n) :
             /\ at[j] + Len(u[j].text) <= Len(t)
             /\ \A p \in DOMAIN u[j].text : t[at[j] + p] = u[j].text[p]
             /\ \A k \in Kept(u, n) : j < k => at[j] + Len(u[j].text) <= at[k]
  BY <1>1, <1>2
<1>4. \A q \in DOMAIN t : \E j \in Kept(u, n) : at[j] < q /\ q <= at[j] + Len(u[j].text)
  BY <1>1, <1>2
<1> QED BY <1>3, <1>4 DEF PutOut

\* An event without text puts out nothing.
LEMMA PutOutNothing ==
  ASSUME NEW t \in Seq(Piece), NEW s, NEW n \in Nat, PutOut(t, s, n), ~IsText(s[n + 1])
  PROVE  PutOut(t, s, n + 1)
<1>1. Kept(s, n + 1) = Kept(s, n)
  BY DEF Kept, IsText, TextKind
<1>2. PICK at \in [1..n -> 0..Len(t)] :
        /\ \A j \in Kept(s, n) :
             /\ at[j] + Len(s[j].text) <= Len(t)
             /\ \A p \in DOMAIN s[j].text : t[at[j] + p] = s[j].text[p]
             /\ \A k \in Kept(s, n) : j < k => at[j] + Len(s[j].text) <= at[k]
        /\ \A q \in DOMAIN t : \E j \in Kept(s, n) : at[j] < q /\ q <= at[j] + Len(s[j].text)
  BY DEF PutOut
<1> DEFINE now == [j \in 1..(n + 1) |-> IF j <= n THEN at[j] ELSE 0]
<1>3. now \in [1..(n + 1) -> 0..Len(t)] /\ \A j \in Kept(s, n) : now[j] = at[j]
  BY DEF Kept
<1> HIDE DEF now
<1>4. \A j \in Kept(s, n + 1) :
             /\ now[j] + Len(s[j].text) <= Len(t)
             /\ \A p \in DOMAIN s[j].text : t[now[j] + p] = s[j].text[p]
             /\ \A k \in Kept(s, n + 1) : j < k => now[j] + Len(s[j].text) <= now[k]
  BY <1>1, <1>2, <1>3
<1>5. \A q \in DOMAIN t : \E j \in Kept(s, n + 1) : now[j] < q /\ q <= now[j] + Len(s[j].text)
  BY <1>1, <1>2, <1>3
<1> QED BY <1>3, <1>4, <1>5 DEF PutOut

\* A snapshot puts itself in the place of all there was.
LEMMA PutOutSnapshot ==
  ASSUME NEW s, NEW n \in Nat, NEW x \in Seq(Piece),
         s[n + 1].kind = "TextSnapshot", s[n + 1].text = x
  PROVE  PutOut(x, s, n + 1)
<1>1. Kept(s, n + 1) = {n + 1}
  BY DEF Kept, IsText, TextKind
<1> DEFINE now == [j \in 1..(n + 1) |-> 0]
<1>2. now \in [1..(n + 1) -> 0..Len(x)] /\ now[n + 1] = 0
  OBVIOUS
<1> HIDE DEF now
<1>3. \A j \in Kept(s, n + 1) :
             /\ now[j] + Len(s[j].text) <= Len(x)
             /\ \A p \in DOMAIN s[j].text : x[now[j] + p] = s[j].text[p]
             /\ \A k \in Kept(s, n + 1) : j < k => now[j] + Len(s[j].text) <= now[k]
  BY <1>1, <1>2
<1>4. \A q \in DOMAIN x : \E j \in Kept(s, n + 1) : now[j] < q /\ q <= now[j] + Len(s[j].text)
  BY <1>1, <1>2
<1> QED BY <1>2, <1>3, <1>4 DEF PutOut

\* A delta adds itself at the end.
LEMMA PutOutDelta ==
  ASSUME NEW t \in Seq(Piece), NEW s, NEW n \in Nat, NEW x \in Seq(Piece),
         \A j \in 1..n : IsText(s[j]) => s[j].text \in Seq(Piece),
         PutOut(t, s, n), s[n + 1].kind = "TextDelta", s[n + 1].text = x
  PROVE  PutOut(t \o x, s, n + 1)
<1>1. Kept(s, n + 1) = Kept(s, n) \cup {n + 1} /\ Kept(s, n) \subseteq 1..n
  <2>1. Kept(s, n) \subseteq 1..n /\ Kept(s, n + 1) \subseteq 1..(n + 1)
    BY DEF Kept
  <2>2. ASSUME NEW j \in 1..n PROVE j \in Kept(s, n + 1) <=> j \in Kept(s, n)
    <3>1. \A k : k \in 1..(n + 1) <=> k \in 1..n \/ k = n + 1
      OBVIOUS
    <3>2. (\A k \in 1..(n + 1) : k > j => s[k].kind # "TextSnapshot")
            <=> (\A k \in 1..n : k > j => s[k].kind # "TextSnapshot")
      BY <3>1
    <3> QED BY <3>1, <3>2, Zenon DEF Kept
  <2>3. n + 1 \in Kept(s, n + 1)
    BY DEF Kept, IsText, TextKind
  <2>4. \A j \in 1..(n + 1) : j \in 1..n \/ j = n + 1
    OBVIOUS
  <2> QED BY <2>1, <2>2, <2>3, <2>4, Zenon
<1>2. PICK at \in [1..n -> 0..Len(t)] :
        /\ \A j \in Kept(s, n) :
             /\ at[j] + Len(s[j].text) <= Len(t)
             /\ \A p \in DOMAIN s[j].text : t[at[j] + p] = s[j].text[p]
             /\ \A k \in Kept(s, n) : j < k => at[j] + Len(s[j].text) <= at[k]
        /\ \A q \in DOMAIN t : \E j \in Kept(s, n) : at[j] < q /\ q <= at[j] + Len(s[j].text)
  BY DEF PutOut
<1> DEFINE now == [j \in 1..(n + 1) |-> IF j <= n THEN at[j] ELSE Len(t)]
<1>3. /\ Len(t \o x) = Len(t) + Len(x) /\ Len(t) \in Nat /\ Len(x) \in Nat
      /\ \A q \in 1..Len(t) : (t \o x)[q] = t[q]
      /\ \A p \in 1..Len(x) : (t \o x)[Len(t) + p] = x[p]
      /\ DOMAIN t = 1..Len(t) /\ DOMAIN x = 1..Len(x) /\ DOMAIN (t \o x) = 1..(Len(t) + Len(x))
  OBVIOUS
<1>4. /\ now \in [1..(n + 1) -> 0..Len(t \o x)] /\ now[n + 1] = Len(t)
      /\ \A j \in Kept(s, n) : now[j] = at[j]
  <2>1. \A j \in 1..n : at[j] \in 0..Len(t)
    BY <1>2
  <2>2. ASSUME NEW j \in 1..(n + 1)
        PROVE  (IF j <= n THEN at[j] ELSE Len(t)) \in 0..Len(t \o x)
    BY <1>3, <2>1
  <2>3. now \in [1..(n + 1) -> 0..Len(t \o x)]
    BY <2>2
  <2>4. now[n + 1] = Len(t)
    OBVIOUS
  <2>5. \A j \in 1..n : now[j] = at[j]
    OBVIOUS
  <2> QED BY <1>1, <2>3, <2>4, <2>5
<1> HIDE DEF now
<1>5. ASSUME NEW j \in Kept(s, n), NEW l \in Nat, l = Len(s[j].text)
      PROVE  /\ now[j] + l <= Len(t) /\ now[j] \in Nat
             /\ \A p \in DOMAIN s[j].text : (t \o x)[now[j] + p] = s[j].text[p]
             /\ \A k \in Kept(s, n + 1) : j < k => now[j] + l <= now[k]
  <2>1. /\ at[j] + l <= Len(t) /\ now[j] = at[j] /\ at[j] \in Nat
        /\ \A p \in DOMAIN s[j].text : t[at[j] + p] = s[j].text[p]
        /\ \A k \in Kept(s, n) : j < k => at[j] + l <= at[k]
    BY <1>1, <1>2, <1>3, <1>4, <1>5
  <2>2. DOMAIN s[j].text = 1..l
    BY <1>5, s[j].text \in Seq(Piece) DEF Kept
  <2>3. ASSUME NEW p \in 1..l PROVE (t \o x)[now[j] + p] = s[j].text[p]
    <3>1. now[j] + p \in 1..Len(t)
      BY <1>3, <2>1
    <3> QED BY <1>3, <2>1, <2>2, <3>1
  <2>4. \A k \in Kept(s, n + 1) : j < k => now[j] + l <= now[k]
    BY <1>1, <1>4, <2>1
  <2> QED BY <2>1, <2>2, <2>3, <2>4
<1>6. ASSUME NEW j \in Kept(s, n + 1)
      PROVE  /\ now[j] + Len(s[j].text) <= Len(t \o x)
             /\ \A p \in DOMAIN s[j].text : (t \o x)[now[j] + p] = s[j].text[p]
             /\ \A k \in Kept(s, n + 1) : j < k => now[j] + Len(s[j].text) <= now[k]
  <2>1. CASE j \in Kept(s, n)
    <3>1. PICK l \in Nat : l = Len(s[j].text)
      BY <2>1 DEF Kept
    <3>2. /\ now[j] + l <= Len(t) /\ now[j] \in Nat
          /\ \A p \in DOMAIN s[j].text : (t \o x)[now[j] + p] = s[j].text[p]
          /\ \A k \in Kept(s, n + 1) : j < k => now[j] + l <= now[k]
      BY <1>5, <2>1, <3>1
    <3>3. now[j] + l <= Len(t \o x)
      BY <1>3, <3>2
    <3> QED BY <3>1, <3>2, <3>3
  <2>2. CASE j = n + 1
    <3>1. s[j].text = x /\ now[j] = Len(t) /\ Len(t) + Len(x) <= Len(t \o x)
      BY <1>3, <1>4, <2>2
    <3>2. \A p \in DOMAIN x : (t \o x)[Len(t) + p] = x[p]
      BY <1>3
    <3>3. \A k \in Kept(s, n + 1) : ~(j < k)
      BY <1>1, <2>2
    <3> QED BY <3>1, <3>2, <3>3
  <2> QED BY <1>1, <2>1, <2>2
<1>7. ASSUME NEW q \in DOMAIN (t \o x)
      PROVE  \E j \in Kept(s, n + 1) : now[j] < q /\ q <= now[j] + Len(s[j].text)
  <2>1. CASE q \in DOMAIN t
    BY <1>1, <1>2, <1>4, <2>1
  <2>2. CASE q \notin DOMAIN t
    <3>1. now[n + 1] < q /\ q <= now[n + 1] + Len(s[n + 1].text)
      BY <1>3, <1>4, <2>2
    <3> QED BY <1>1, <3>1
  <2> QED BY <2>1, <2>2
<1> QED BY <1>4, <1>6, <1>7 DEF PutOut

\* A stream that is not refused has no text event without a text; before its
\* end the buffer is what it put out, and afterwards the final text is right.
TextInv ==
  /\ \A j \in DOMAIN events : IsText(events[j]) => events[j].text # NoText
  /\ terminal = NoEvent =>
       /\ sawText <=> \E j \in DOMAIN events : IsText(events[j])
       /\ PutOut(buffer, events, Len(events))
  /\ FinalTextOfStream

\* With the flags of IInv, TextInv is inductive where no event was refused.
TInv == stage # "refused" => TextInv

\* Before the first event there is no text, in the buffer or in the stream.
LEMMA TextInitially == Init => TInv
<1> SUFFICES ASSUME Init PROVE TextInv
  BY DEF TInv
<1>1. DOMAIN events = {} /\ events = <<>> /\ buffer = <<>> /\ ~sawText /\ 1..0 = {}
      /\ Len(events) = 0
  BY DEF Init
<1>2. PutOut(<<>>, events, 0)
  <2> DEFINE at == [j \in 1..0 |-> 0]
  <2>1. at \in [1..0 -> 0..Len(<<>>)]
    OBVIOUS
  <2>2. Kept(events, 0) = {} /\ DOMAIN <<>> = {}
    BY DEF Kept
  <2> HIDE DEF at
  <2>3. /\ \A j \in Kept(events, 0) :
             /\ at[j] + Len(events[j].text) <= Len(<<>>)
             /\ \A p \in DOMAIN events[j].text : <<>>[at[j] + p] = events[j].text[p]
             /\ \A k \in Kept(events, 0) : j < k => at[j] + Len(events[j].text) <= at[k]
        /\ \A q \in DOMAIN <<>> : \E j \in Kept(events, 0) :
             at[j] < q /\ q <= at[j] + Len(events[j].text)
    BY <2>2, Zenon
  <2> QED BY <2>1, <2>3, Zenon DEF PutOut
<1> QED BY <1>1, <1>2 DEF TextInv, FinalTextOfStream, EndsAt

\* The final text of a finished stream is not touched by one more event that
\* leaves it alone.
LEMMA FinalKept ==
  ASSUME TypeOK, FinalTextOfStream, stage # "refused", NEW e \in Event,
         events' = Append(events, e), final' = final,
         terminal # NoEvent \/ ~IsTerminal(e), Flags
  PROVE  FinalTextOfStream'
<1>0. /\ events \in Seq(Event) /\ DOMAIN events = 1..Len(events) /\ Len(events) \in Nat
      /\ \A i \in DOMAIN events : events'[i] = events[i] /\ i \in DOMAIN events'
  BY AppendEvent DEF TypeOK
<1> SUFFICES ASSUME NEW i \in DOMAIN events', EndsAt(i)'
             PROVE  IF events'[i].kind # "RunCompleted" THEN final = NoText
                    ELSE IF events'[i].text # NoText THEN final = events'[i].text
                    ELSE IF \E j \in 1..(i - 1) : IsText(events'[j])
                      THEN final # NoText /\ PutOut(final, events', i - 1)
                    ELSE final = NoText
  BY DEF FinalTextOfStream, IsText
<1>1. EndsAt(i)
  <2>1. CASE terminal # NoEvent
    <3>1. PICK k \in DOMAIN events : IsTerminal(events[k])
      BY <2>1 DEF Flags, Ended, EndsAt
    <3> QED BY <1>0, <3>1, EndsKept
  <2>2. CASE ~IsTerminal(e)
    BY <1>0, <2>2, EndsKept
  <2> QED BY <2>1, <2>2
<1>2. i \in DOMAIN events
  BY <1>1 DEF EndsAt
<1>3. i - 1 \in Nat /\ \A j \in 1..(i - 1) : events[j] = events'[j]
  BY <1>0, <1>2
<1>4. PutOut(final, events, i - 1) => PutOut(final, events', i - 1)
  <2> DEFINE n == i - 1
  <2> SUFFICES ASSUME PutOut(final, events, n) PROVE PutOut(final, events', n)
    OBVIOUS
  <2>1. n \in Nat /\ \A j \in 1..n : events[j] = events'[j]
    BY <1>3
  <2> HIDE DEF n
  <2> QED BY <2>1, PutOutOfPrefix
<1>5. /\ events'[i] = events[i]
      /\ (\E j \in 1..(i - 1) : IsText(events'[j])) <=> \E j \in 1..(i - 1) : IsText(events[j])
  BY <1>0, <1>2, <1>3
<1> QED BY <1>1, <1>2, <1>4, <1>5 DEF FinalTextOfStream

\* The end of the stream takes up what was put out, or brings its own text.
LEMMA FinalTaken ==
  ASSUME TypeOK, Flags, TextInv, NEW e \in Event, AddTerminal(e)
  PROVE  FinalTextOfStream'
<1>0. /\ events \in Seq(Event) /\ DOMAIN events = 1..Len(events) /\ Len(events) \in Nat
      /\ \A i \in DOMAIN events : events'[i] = events[i] /\ i \in DOMAIN events'
      /\ events'[Len(events) + 1] = e
      /\ events' = Append(events, e)
  BY AppendEvent DEF TypeOK, AddTerminal, Record
<1> DEFINE n == Len(events)
<1>1. ASSUME NEW i, EndsAt(i)' PROVE i = n + 1
  BY <1>0, <1>1, EndsKept DEF AddTerminal, Flags, NotEnded, EndsAt
<1>2. \A j \in 1..n : events[j] = events'[j]
  BY <1>0
<1>3. PutOut(buffer, events', n)
  <2>1. PutOut(buffer, events, n)
    BY DEF TextInv, AddTerminal
  <2> HIDE DEF n
  <2> QED BY <1>0, <1>2, <2>1, PutOutOfPrefix DEF n
<1>4. sawText <=> \E j \in 1..n : IsText(events'[j])
  BY <1>0, <1>2 DEF TextInv, AddTerminal
<1>5. IF e.kind # "RunCompleted" THEN final' = NoText
      ELSE IF e.text # NoText THEN final' = e.text
      ELSE IF sawText THEN final' = buffer ELSE final' = NoText
  BY DEF AddTerminal, FinalOf, Flags, NotEnded
<1>6. buffer # NoText
  BY NormalizerAssumption DEF TypeOK
<1>7. IF e.kind # "RunCompleted" THEN final' = NoText
      ELSE IF e.text # NoText THEN final' = e.text
      ELSE IF \E j \in 1..n : IsText(events'[j])
        THEN final' # NoText /\ PutOut(final', events', n)
      ELSE final' = NoText
  BY <1>3, <1>4, <1>5, <1>6
<1>8. n \in Nat /\ events'[n + 1] = e
  BY <1>0
<1> HIDE DEF n
<1> SUFFICES ASSUME NEW i \in DOMAIN events', EndsAt(i)'
             PROVE  IF events'[i].kind # "RunCompleted" THEN final' = NoText
                    ELSE IF events'[i].text # NoText THEN final' = events'[i].text
                    ELSE IF \E j \in 1..(i - 1) : IsText(events'[j])
                      THEN final' # NoText /\ PutOut(final', events', i - 1)
                    ELSE final' = NoText
  BY DEF FinalTextOfStream, IsText
<1>9. i = n + 1 /\ i - 1 = n /\ events'[i] = e
  <2>1. i = n + 1
    BY <1>1
  <2> QED BY <1>8, <2>1
<1> QED BY <1>7, <1>9, Zenon

\* One step with the text.
LEMMA TextStep == IInv /\ TInv /\ [Next]_vars => TInv'
<1> SUFFICES ASSUME IInv, TInv, [Next]_vars, stage' # "refused" PROVE TextInv'
  BY DEF TInv
<1> TypeOK
  BY DEF IInv
<1>1. ASSUME NEW e \in Arrival, Add(e) PROVE TextInv'
  <2> DEFINE n == Len(events)
  <2>0. /\ e \in Event /\ stage = "open" /\ stage' = "open" /\ events' = Append(events, e)
        /\ Flags /\ TextInv
    BY <1>1, ArrivalTyped, SMT
      DEF Add, AddOutput, AddLateText, AddBadText, AddTerminal, AddTerminalAgain, AddOther,
          Record, ProceedIf, IInv, TInv
  <2>1. /\ events \in Seq(Event) /\ DOMAIN events = 1..n /\ n \in Nat
        /\ DOMAIN events' = 1..(n + 1) /\ Len(events') = n + 1
        /\ \A j \in 1..n : events'[j] = events[j]
        /\ events'[n + 1] = e
    BY <2>0, AppendEvent DEF TypeOK
  <2> HIDE DEF n
  <2>2. ~AddBadText(e)
    BY <2>0 DEF AddBadText, ProceedIf
  <2>3. \A j \in DOMAIN events' : IsText(events'[j]) => events'[j].text # NoText
    <3>1. IsText(e) => e.text # NoText
      BY <1>1, <2>2 DEF Add, AddOutput, AddLateText, AddTerminal, AddTerminalAgain,
         AddOther, IsText, TextKind, TerminalKind, OtherKind
    <3>2. \A j \in DOMAIN events' : j \in 1..n \/ j = n + 1
      BY <2>1
    <3> QED BY <2>0, <2>1, <3>1, <3>2 DEF TextInv
  <2>4. CASE AddTerminal(e)
    <3>1. terminal' # NoEvent
      BY <2>0, <2>4, NoEventAssumption DEF AddTerminal
    <3> QED BY <2>0, <2>3, <2>4, <3>1, FinalTaken DEF TextInv, IsText
  <2>5. CASE ~AddTerminal(e)
    <3>1. /\ terminal' = terminal /\ final' = final
          /\ terminal # NoEvent \/ ~IsTerminal(e)
      BY <1>1, <2>2, <2>5 DEF Add, AddOutput, AddLateText, AddTerminalAgain, AddOther,
         IsTerminal, TextKind, TerminalKind, OtherKind
    <3>2. FinalTextOfStream'
      BY <2>0, <3>1, FinalKept DEF TextInv
    <3>3. ASSUME terminal = NoEvent
          PROVE  /\ sawText' <=> \E j \in DOMAIN events' : IsText(events'[j])
                 /\ PutOut(buffer', events', n + 1)
      <4>1. /\ sawText <=> \E j \in 1..n : IsText(events'[j])
            /\ PutOut(buffer, events', n) /\ buffer \in Seq(Piece)
        <5>1. PutOut(buffer, events, n)
          BY <2>0, <3>3 DEF TextInv, n
        <5>2. sawText <=> \E j \in 1..n : IsText(events'[j])
          BY <2>0, <2>1, <3>3 DEF TextInv
        <5> QED BY <2>1, <5>1, <5>2, PutOutOfPrefix DEF TypeOK
      <4>2. (\E j \in DOMAIN events' : IsText(events'[j]))
              <=> (\E j \in 1..n : IsText(events'[j])) \/ IsText(e)
        <5>1. \A j : j \in DOMAIN events' <=> j \in 1..n \/ j = n + 1
          BY <2>1
        <5> QED BY <2>1, <5>1, Zenon
      <4>3. CASE AddOutput(e)
        <5>1. IsText(e) /\ sawText' /\ e.text \in Seq(Piece)
          BY <2>0, <4>3 DEF AddOutput, IsText, Event, Text
        <5>2. CASE e.kind = "TextDelta"
          <6>1. buffer' = buffer \o e.text
            BY <4>3, <5>2 DEF AddOutput
          <6>2. \A j \in 1..n : IsText(events'[j]) => events'[j].text \in Seq(Piece)
            <7>1. \A j \in 1..n : events'[j] \in Event
              BY <2>1
            <7>2. \A j \in 1..n : IsText(events'[j]) => events'[j].text # NoText
              BY <2>0, <2>1 DEF TextInv
            <7> QED BY <7>1, <7>2 DEF Event, Text
          <6>3. PutOut(buffer \o e.text, events', n + 1)
            BY <2>1, <4>1, <5>1, <5>2, <6>2, PutOutDelta
          <6> QED BY <4>2, <5>1, <6>1, <6>3
        <5>3. CASE e.kind = "TextSnapshot"
          <6>1. buffer' = e.text
            BY <4>3, <5>3 DEF AddOutput
          <6>2. PutOut(e.text, events', n + 1)
            BY <2>1, <5>1, <5>3, PutOutSnapshot
          <6> QED BY <4>2, <5>1, <6>1, <6>2
        <5> QED BY <4>3, <5>2, <5>3 DEF AddOutput, TextKind
      <4>4. CASE AddOther(e)
        <5>1. ~IsText(e) /\ sawText' = sawText /\ buffer' = buffer
          BY <4>4 DEF AddOther, IsText, TextKind, OtherKind
        <5>2. PutOut(buffer, events', n + 1)
          BY <2>1, <4>1, <5>1, PutOutNothing
        <5> QED BY <4>1, <4>2, <5>1, <5>2
      <4> QED BY <1>1, <2>2, <2>5, <3>3, <4>3, <4>4
            DEF Add, AddLateText, AddTerminalAgain
    <3> QED BY <2>1, <2>3, <3>1, <3>2, <3>3 DEF TextInv, IsText
  <2> QED BY <2>4, <2>5
<1>2. CASE Refuse
  BY <1>2 DEF Refuse, ProceedIf
<1>3. CASE Resolve \/ UNCHANGED vars
  <2>1. UNCHANGED <<events, buffer, sawText, terminal, final>> /\ stage # "refused"
    BY <1>3 DEF Resolve, vars, flags
  <2>2. TextInv
    BY <2>1 DEF TInv
  <2> QED BY <2>1, <2>2 DEF TextInv, FinalTextOfStream, EndsAt
<1> QED BY <1>1, <1>2, <1>3 DEF Next

\* Whatever the order of deltas, snapshots and ends, the text of a completed
\* stream is exactly what the stream put out before its end, or what the end
\* brought (final_text).
THEOREM TextOfStream == Spec => []FinalTextOfStream
<1>1. IInv /\ TInv => FinalTextOfStream
  BY DEF TInv, TextInv, FinalTextOfStream
<1> QED BY TextInitially, TextStep, Correct, <1>1, PTL DEF Spec
=============================================================================
