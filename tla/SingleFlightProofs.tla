------------------------- MODULE SingleFlightProofs -------------------------
(* Proofs about shared loads, for any number of callers, keys and places. *)
EXTENDS SingleFlight, TLAPS, FiniteSetTheorems

Starter(c, k) == Waiting(c, k) /\ ~calls[c].joined

(* A nested load's call asks for the inner key, while the load is there. *)
NestedCalls ==
  \A k \in Nested :
    /\ calls[k] # NoCall => calls[k].key = Inner[k]
    /\ flights[k] = "none" => calls[k] = NoCall

(* A load has at most one starter waiting, and its context goes on for as  *)
(* long as that one waits.                                                 *)
OneStarter ==
  /\ \A c \in Callers, k \in Keys : Starter(c, k) => flights[k] = "running"
  /\ \A c, d \in Callers, k \in Keys : Starter(c, k) /\ Starter(d, k) => c = d

(* A call that has not begun has not joined anything. *)
QueuedFresh == \A c \in Callers : calls[c].stage = "queued" => ~calls[c].joined

(* Who has an answer was told. *)
ToldAnswers ==
  \A c \in Callers : calls[c].stage = "told" <=> calls[c].answer.outcome # "none"

IInv ==
  /\ TypeOK /\ SlotsCounted /\ LoadsLed /\ CancelledOnlyShared
  /\ NestedCalls /\ OneStarter /\ QueuedFresh /\ ToldAnswers

Insiders == {c \in Callers : Inside(c)}

-----------------------------------------------------------------------------
LEMMA CallersFinite == IsFiniteSet(Callers)
  BY FlightAssumption, FS_Union DEF Callers

LEMMA NoKeyOut == \A k \in Keys : k # NoKey
  BY FlightAssumption DEF Keys

(* What a call's record may be while it waits. *)
LEMMA CallShape ==
  ASSUME TypeOK, NEW c \in Callers, calls[c] # NoCall
  PROVE  /\ calls[c] \in [stage : {"queued", "waiting", "told"}, key : Keys,
                          joined : BOOLEAN, answer : Answers]
         /\ calls[c].stage # "idle"
  BY DEF TypeOK, Calls

LEMMA IdleShape ==
  /\ NoCall.stage = "idle" /\ NoCall.key = NoKey /\ NoCall.joined = FALSE
  /\ NoCall.answer = [outcome |-> "none", shared |-> FALSE]
  /\ NoCall \in Calls
  BY DEF NoCall, Answer, Calls

LEMMA QueuedShape ==
  ASSUME NEW k \in Keys
  PROVE  /\ Queued(k) \in Calls /\ Queued(k).stage = "queued" /\ Queued(k).key = k
         /\ Queued(k).joined = FALSE
         /\ Queued(k).answer = [outcome |-> "none", shared |-> FALSE]
<1>1. Answer("none") \in Answers
  BY DEF Answer, Answers
<1> QED
  BY <1>1 DEF Queued, Calls, Answer

LEMMA InnerKey ==
  ASSUME NEW k \in Nested PROVE Inner[k] \in Plain /\ Inner[k] \in Keys
  BY FlightAssumption DEF Keys

-----------------------------------------------------------------------------
(* Types of calls and flights; those of slots follow from the count. *)
CallsTyped == calls \in [Callers -> Calls] /\ flights \in [Keys -> Flights]

LEMMA ToldTyped ==
  ASSUME TypeOK, NEW k \in Keys, NEW answer \in Answers, NEW done, Told(k, answer, done)
  PROVE  calls' \in [Callers -> Calls]
<1>1. ASSUME NEW c \in Callers PROVE calls'[c] \in Calls
  <2>1. CASE c \in done
    BY <2>1, IdleShape DEF Told
  <2>2. CASE c \notin done /\ Waiting(c, k)
    <3>1. calls[c] # NoCall
      BY <2>2, IdleShape DEF Waiting
    <3>2. calls'[c] = [calls[c] EXCEPT !.stage = "told",
              !.answer = [answer EXCEPT !.shared = @ \/ calls[c].joined]]
      BY <2>2 DEF Told
    <3>3. [answer EXCEPT !.shared = @ \/ calls[c].joined] \in Answers
      BY DEF Answers
    <3> QED
      BY <3>1, <3>2, <3>3, CallShape DEF Calls
  <2>3. CASE c \notin done /\ ~Waiting(c, k)
    BY <2>3 DEF Told, TypeOK
  <2> QED
    BY <2>1, <2>2, <2>3
<1> QED
  BY <1>1 DEF Told

LEMMA AbandonedTyped ==
  ASSUME TypeOK, NEW c
  PROVE  Abandoned(c) \in [Keys -> Flights]
  BY DEF Abandoned, TypeOK, Flights

LEMMA OutcomesTyped ==
  ASSUME NEW k, NEW outcome \in Outcomes(k)
  PROVE  Answer(outcome) \in Answers /\ Answer(outcome).outcome = outcome
  BY DEF Answer, Answers, Outcomes

LEMMA TypingStep ==
  ASSUME TypeOK, [Next]_vars PROVE CallsTyped'
<1>1. ASSUME NEW c \in Clients, NEW k \in Keys, Ask(c, k) PROVE CallsTyped'
  <2>1. Queued(k) \in Calls
    BY QueuedShape
  <2> QED
    BY <1>1, <2>1 DEF Ask, CallsTyped, TypeOK
<1>2. ASSUME NEW c \in Clients, Leave(c) PROVE CallsTyped'
  BY <1>2, IdleShape, AbandonedTyped DEF Leave, CallsTyped, TypeOK
<1>3. ASSUME NEW c \in Callers, Join(c) PROVE CallsTyped'
  <2>1. calls[c] # NoCall
    BY <1>3, IdleShape DEF Join
  <2>2. [calls[c] EXCEPT !.stage = "waiting", !.joined = TRUE] \in Calls
    BY <2>1, CallShape DEF Calls
  <2> QED
    BY <1>3, <2>2 DEF Join, CallsTyped, TypeOK
<1>4. ASSUME NEW c \in Callers, Start(c) PROVE CallsTyped'
  <2>1. calls[c] # NoCall
    BY <1>4, IdleShape DEF Start
  <2>2. [calls[c] EXCEPT !.stage = "waiting"] \in Calls /\ calls[c].key \in Keys
    BY <2>1, CallShape DEF Calls
  <2>3. ASSUME NEW d \in Callers, d = calls[c].key, d # c PROVE Queued(Inner[calls[c].key]) \in Calls
    <3>1. d \in Nested
      BY <2>2, <2>3, FlightAssumption DEF Callers, Keys
    <3> QED
      BY <2>3, <3>1, InnerKey, QueuedShape
  <2> DEFINE started(d) == IF d = c THEN [calls[c] EXCEPT !.stage = "waiting"]
                          ELSE IF d = calls[c].key THEN Queued(Inner[calls[c].key])
                          ELSE calls[d]
  <2>4. calls' \in [Callers -> Calls]
    <3>1. \A d \in Callers : started(d) \in Calls
      BY <2>2, <2>3 DEF TypeOK
    <3>2. calls' = [d \in Callers |-> started(d)]
      BY <1>4 DEF Start
    <3> HIDE DEF started
    <3> QED
      BY <3>1, <3>2
  <2>5. flights' \in [Keys -> Flights]
    BY <1>4, <2>2 DEF Start, TypeOK, Flights
  <2> QED
    BY <2>4, <2>5 DEF CallsTyped
<1>5. ASSUME NEW k \in Keys, Done(k) PROVE CallsTyped'
  BY <1>5, ToldTyped, OutcomesTyped DEF Done, CallsTyped, TypeOK, Flights
<1>6. ASSUME NEW k \in Keys, NestedDone(k) PROVE CallsTyped'
  <2>1. calls[k] # NoCall /\ k \in Callers
    BY <1>6, IdleShape DEF NestedDone, Callers
  <2>2. calls[k].answer \in Answers
    BY <2>1, CallShape
  <2>3. calls' \in [Callers -> Calls]
    BY <1>6, <2>2, ToldTyped DEF NestedDone
  <2> QED
    BY <1>6, <2>3 DEF NestedDone, CallsTyped, TypeOK, Flights
<1>7. ASSUME NEW k \in Keys, NestedDeadline(k) PROVE CallsTyped'
  <2>1. Answer("failed") \in Answers
    BY DEF Answer, Answers
  <2>2. calls' \in [Callers -> Calls]
    BY <1>7, <2>1, ToldTyped DEF NestedDeadline
  <2> QED
    BY <1>7, <2>2, AbandonedTyped DEF NestedDeadline, CallsTyped, Flights
<1>8. CASE UNCHANGED vars
  BY <1>8 DEF vars, CallsTyped, TypeOK
<1> QED
  BY <1>1, <1>2, <1>3, <1>4, <1>5, <1>6, <1>7, <1>8 DEF Next, Enter, Load

-----------------------------------------------------------------------------
(* Places.  Who is inside changes by the caller that a step is about. *)
LEMMA InsidersFinite == IsFiniteSet(Insiders)
  BY CallersFinite, FS_Subset DEF Insiders

LEMMA PlaceTaken ==
  ASSUME TypeOK, SlotsCounted, NEW c \in Callers, ~Inside(c), Place,
         Insiders' = Insiders \cup {c}
  PROVE  SlotsCounted'
<1>1. slots = Cardinality(Insiders) /\ c \notin Insiders
  BY DEF SlotsCounted, Insiders
<1>2. Cardinality(Insiders') = slots + 1
  BY <1>1, InsidersFinite, FS_AddElement
<1> QED
  BY <1>2, FlightAssumption DEF SlotsCounted, Place, Insiders, TypeOK

LEMMA PlaceReturned ==
  ASSUME TypeOK, SlotsCounted, NEW c \in Callers, slots' = PlaceBack(c),
         Insiders' = Insiders \ {c}
  PROVE  SlotsCounted'
<1>1. CASE Inside(c)
  <2>1. slots = Cardinality(Insiders) /\ c \in Insiders
    BY <1>1 DEF SlotsCounted, Insiders
  <2>2. Cardinality(Insiders') = slots - 1
    BY <2>1, InsidersFinite, FS_RemoveElement
  <2> QED
    BY <1>1, <2>2, FlightAssumption DEF SlotsCounted, PlaceBack, Insiders, TypeOK
<1>2. CASE ~Inside(c)
  <2>1. Insiders' = Insiders
    BY <1>2 DEF Insiders
  <2> QED
    BY <1>2, <2>1 DEF SlotsCounted, PlaceBack, Insiders
<1> QED
  BY <1>1, <1>2

LEMMA PlacesKept ==
  ASSUME SlotsCounted, slots' = slots, Insiders' = Insiders
  PROVE  SlotsCounted'
  BY DEF SlotsCounted, Insiders

(* Being told keeps a caller inside. *)
LEMMA ToldInsiders ==
  ASSUME TypeOK, NEW k, NEW answer, NEW done \in SUBSET Callers, Told(k, answer, done)
  PROVE  Insiders' = Insiders \ done
<1>1. ASSUME NEW c \in Callers PROVE Inside(c)' <=> (Inside(c) /\ c \notin done)
  <2>1. CASE c \in done
    BY <2>1, IdleShape DEF Told, Inside
  <2>2. CASE c \notin done /\ Waiting(c, k)
    <3>1. calls[c] # NoCall
      BY <2>2, IdleShape DEF Waiting
    <3>2. calls'[c].stage = "told"
      BY <2>2, <3>1, CallShape DEF Told
    <3> QED
      BY <2>2, <3>2 DEF Inside, Waiting
  <2>3. CASE c \notin done /\ ~Waiting(c, k)
    BY <2>3 DEF Told, Inside
  <2> QED
    BY <2>1, <2>2, <2>3
<1> QED
  BY <1>1 DEF Insiders

LEMMA SlotsStep ==
  ASSUME TypeOK, SlotsCounted, NestedCalls, [Next]_vars PROVE SlotsCounted'
<1>1. ASSUME NEW c \in Clients, NEW k \in Keys, Ask(c, k) PROVE SlotsCounted'
  <2>1. Insiders' = Insiders
    BY <1>1, QueuedShape, IdleShape DEF Ask, Insiders, Inside, TypeOK
  <2> QED
    BY <1>1, <2>1, PlacesKept DEF Ask
<1>2. ASSUME NEW c \in Clients, Leave(c) PROVE SlotsCounted'
  <2>1. Insiders' = Insiders \ {c}
    BY <1>2, IdleShape DEF Leave, Insiders, Inside, TypeOK
  <2> QED
    BY <1>2, <2>1, PlaceReturned DEF Leave, Callers
<1>3. ASSUME NEW c \in Callers, Join(c) PROVE SlotsCounted'
  <2>1. calls[c] # NoCall /\ ~Inside(c)
    BY <1>3, IdleShape DEF Join, Inside
  <2>2. calls'[c].stage = "waiting"
    BY <1>3, <2>1, CallShape DEF Join, TypeOK
  <2>3. Insiders' = Insiders \cup {c}
    BY <1>3, <2>2 DEF Join, Insiders, Inside, TypeOK
  <2> QED
    BY <1>3, <2>1, <2>3, PlaceTaken DEF Join
<1>4. ASSUME NEW c \in Callers, Start(c) PROVE SlotsCounted'
  <2>1. calls[c] # NoCall /\ ~Inside(c)
    BY <1>4, IdleShape DEF Start, Inside
  <2>2. calls'[c].stage = "waiting"
    BY <1>4, <2>1, CallShape DEF Start
  <2>3. calls[c].key \in Keys
    BY <2>1, CallShape
  <2>4. ASSUME NEW d \in Callers, d # c PROVE Inside(d)' <=> Inside(d)
    <3>1. CASE d # calls[c].key
      BY <1>4, <2>4, <3>1 DEF Start, Inside
    <3>2. CASE d = calls[c].key
      <4>1. d \in Nested
        BY <2>3, <3>2, FlightAssumption DEF Callers, Keys
      <4>2. calls[d] = NoCall
        BY <1>4, <3>2, <4>1 DEF Start, NestedCalls
      <4>3. calls'[d] = Queued(Inner[d])
        BY <1>4, <2>4, <3>2 DEF Start
      <4> QED
        BY <4>1, <4>2, <4>3, IdleShape, InnerKey, QueuedShape DEF Inside
    <3> QED
      BY <3>1, <3>2
  <2>5. Insiders' = Insiders \cup {c}
    BY <2>2, <2>4 DEF Insiders, Inside
  <2> QED
    BY <1>4, <2>1, <2>5, PlaceTaken DEF Start
<1>5. ASSUME NEW k \in Keys, Done(k) PROVE SlotsCounted'
  <2>1. Insiders' = Insiders \ {}
    BY <1>5, ToldInsiders DEF Done
  <2> QED
    BY <1>5, <2>1, PlacesKept DEF Done
<1>6. ASSUME NEW k \in Keys, NestedDone(k) \/ NestedDeadline(k) PROVE SlotsCounted'
  <2>1. k \in Callers
    BY <1>6 DEF NestedDone, NestedDeadline, Callers
  <2>2. Insiders' = Insiders \ {k}
    BY <1>6, <2>1, ToldInsiders DEF NestedDone, NestedDeadline
  <2> QED
    BY <1>6, <2>1, <2>2, PlaceReturned DEF NestedDone, NestedDeadline
<1>7. CASE UNCHANGED vars
  BY <1>7, PlacesKept DEF vars, Insiders, Inside
<1> QED
  BY <1>1, <1>2, <1>3, <1>4, <1>5, <1>6, <1>7 DEF Next, Enter, Load

-----------------------------------------------------------------------------
(* What a step does to who waits for which load. *)

LEMMA ToldWaiting ==
  ASSUME TypeOK, NEW k \in Keys, NEW answer, NEW done \in SUBSET Callers,
         Told(k, answer, done)
  PROVE  \A c \in Callers, j \in Keys :
           /\ Waiting(c, j)' <=> Waiting(c, j) /\ j # k /\ c \notin done
           /\ Waiting(c, j)' => calls'[c] = calls[c]
<1>1. ASSUME NEW c \in Callers, NEW j \in Keys
      PROVE  /\ Waiting(c, j)' <=> Waiting(c, j) /\ j # k /\ c \notin done
             /\ Waiting(c, j)' => calls'[c] = calls[c]
  <2>1. CASE c \in done
    BY <2>1, IdleShape DEF Told, Waiting
  <2>2. CASE c \notin done /\ Waiting(c, k)
    <3>1. calls[c] # NoCall
      BY <2>2, IdleShape DEF Waiting
    <3>2. calls'[c].stage = "told"
      BY <2>2, <3>1, CallShape DEF Told
    <3> QED
      BY <2>2, <3>2 DEF Waiting
  <2>3. CASE c \notin done /\ ~Waiting(c, k)
    <3>1. calls'[c] = calls[c]
      BY <2>3 DEF Told
    <3> QED
      BY <2>3, <3>1 DEF Waiting
  <2> QED
    BY <2>1, <2>2, <2>3
<1> QED
  BY <1>1

LEMMA LeaveWaiting ==
  ASSUME TypeOK, NEW b \in Callers, Leave(b)
  PROVE  \A c \in Callers, j \in Keys :
           /\ Waiting(c, j)' <=> Waiting(c, j) /\ c # b
           /\ c # b => calls'[c] = calls[c]
  BY IdleShape DEF Leave, Waiting, TypeOK

LEMMA AskWaiting ==
  ASSUME TypeOK, NEW b \in Clients, NEW k \in Keys, Ask(b, k)
  PROVE  \A c \in Callers, j \in Keys :
           /\ Waiting(c, j)' <=> Waiting(c, j)
           /\ Waiting(c, j) => calls'[c] = calls[c]
  BY QueuedShape, IdleShape DEF Ask, Waiting, TypeOK

LEMMA JoinWaiting ==
  ASSUME TypeOK, NEW b \in Callers, Join(b)
  PROVE  /\ calls[b].key \in Keys /\ Waiting(b, calls[b].key)' /\ calls'[b].joined
         /\ calls'[b].key = calls[b].key
         /\ \A c \in Callers \ {b} : calls'[c] = calls[c]
<1>1. calls[b] # NoCall
  BY IdleShape DEF Join
<1> QED
  BY <1>1, CallShape DEF Join, Waiting, TypeOK

(* A nested load's call is queued when the load starts; nobody else moves. *)
LEMMA StartWaiting ==
  ASSUME TypeOK, NestedCalls, NEW b \in Callers, Start(b)
  PROVE  /\ calls[b].key \in Keys /\ Waiting(b, calls[b].key)'
         /\ calls'[b] = [calls[b] EXCEPT !.stage = "waiting"]
         /\ calls'[b].key = calls[b].key
         /\ \A c \in Callers \ {b} :
              IF c = calls[b].key
              THEN c \in Nested /\ calls[c] = NoCall /\ calls'[c] = Queued(Inner[c])
              ELSE calls'[c] = calls[c]
<1>1. calls[b] # NoCall
  BY IdleShape DEF Start
<1>2. calls[b].key \in Keys
  BY <1>1, CallShape
<1>3. calls'[b] = [calls[b] EXCEPT !.stage = "waiting"]
  BY DEF Start
<1>4. ASSUME NEW c \in Callers \ {b}, c = calls[b].key
      PROVE  c \in Nested /\ calls[c] = NoCall /\ calls'[c] = Queued(Inner[c])
  <2>1. c \in Nested
    BY <1>2, <1>4, FlightAssumption DEF Callers, Keys
  <2> QED
    BY <1>4, <2>1 DEF Start, NestedCalls
<1>5. ASSUME NEW c \in Callers \ {b}, c # calls[b].key PROVE calls'[c] = calls[c]
  BY <1>5 DEF Start
<1> QED
  BY <1>1, <1>2, <1>3, <1>4, <1>5, CallShape DEF Waiting

LEMMA StartKeeps ==
  ASSUME TypeOK, NEW b \in Callers, calls[b] # NoCall,
         calls'[b] = [calls[b] EXCEPT !.stage = "waiting"]
  PROVE  calls'[b].joined = calls[b].joined
  BY CallShape

LEMMA StartOthersWaiting ==
  ASSUME TypeOK, NestedCalls, NEW b \in Callers, Start(b)
  PROVE  \A c \in Callers \ {b}, j \in Keys :
           /\ Waiting(c, j)' <=> Waiting(c, j)
           /\ Waiting(c, j) => calls'[c] = calls[c]
<1> SUFFICES ASSUME NEW c \in Callers \ {b}, NEW j \in Keys
             PROVE  /\ Waiting(c, j)' <=> Waiting(c, j)
                    /\ Waiting(c, j) => calls'[c] = calls[c]
  OBVIOUS
<1>1. CASE c = calls[b].key
  <2>1. c \in Nested /\ calls[c] = NoCall /\ calls'[c] = Queued(Inner[c])
    BY <1>1, StartWaiting
  <2> QED
    BY <2>1, IdleShape, InnerKey, QueuedShape DEF Waiting
<1>2. CASE c # calls[b].key
  BY <1>2, StartWaiting DEF Waiting
<1> QED
  BY <1>1, <1>2

LEMMA WaitingKey ==
  ASSUME TypeOK, NEW c \in Callers, calls[c].stage = "waiting"
  PROVE  calls[c].key \in Keys /\ Waiting(c, calls[c].key)
  BY CallShape, IdleShape DEF Waiting

(* LoadsLed and OneStarter, load by load. *)
Led(k) ==
  /\ \A c \in Callers : Waiting(c, k) => flights[k] # "none"
  /\ flights[k] = "running" => \E c \in Callers : Starter(c, k)
  /\ \A c \in Callers : Starter(c, k) => flights[k] = "running"
  /\ \A c, d \in Callers : Starter(c, k) /\ Starter(d, k) => c = d

LEMMA LedByKey == TypeOK => (LoadsLed /\ OneStarter <=> \A k \in Keys : Led(k))
<1> SUFFICES ASSUME TypeOK PROVE LoadsLed /\ OneStarter <=> \A k \in Keys : Led(k)
  OBVIOUS
<1>1. ASSUME LoadsLed, OneStarter, NEW k \in Keys PROVE Led(k)
  BY <1>1 DEF LoadsLed, OneStarter, Led, Starter, Waiting
<1>2. ASSUME \A k \in Keys : Led(k) PROVE LoadsLed /\ OneStarter
  BY <1>2, WaitingKey DEF LoadsLed, OneStarter, Led, Starter
<1> QED
  BY <1>1, <1>2

LEMMA LedStep ==
  ASSUME TypeOK, NestedCalls, QueuedFresh, \A k \in Keys : Led(k), [Next]_vars,
         NEW j \in Keys
  PROVE  Led(j)'
<1> USE DEF Led, Starter
<1>1. ASSUME NEW c \in Clients, NEW k \in Keys, Ask(c, k) PROVE Led(j)'
  BY <1>1, AskWaiting DEF Ask
<1>2. ASSUME NEW c \in Clients, Leave(c) PROVE Led(j)'
  <2>1. c \in Callers
    BY DEF Callers
  <2>2. flights'[j] = IF Starter(c, j) THEN "ended" ELSE flights[j]
    BY <1>2 DEF Leave, Abandoned
  <2> QED
    BY <1>2, <2>1, <2>2, LeaveWaiting
<1>3. ASSUME NEW c \in Callers, Join(c) PROVE Led(j)'
  <2>1. \A d \in Callers : Starter(d, j)' <=> Starter(d, j)
    BY <1>3, JoinWaiting DEF Join, Waiting
  <2>2. \A d \in Callers : Waiting(d, j)' => Waiting(d, j) \/ j = calls[c].key
    BY <1>3, JoinWaiting DEF Join, Waiting
  <2>3. flights' = flights /\ flights[calls[c].key] # "none"
    BY <1>3 DEF Join
  <2> QED
    BY <2>1, <2>2, <2>3
<1>4. ASSUME NEW c \in Callers, Start(c) PROVE Led(j)'
  <2>1. CASE j = calls[c].key
    <3>1. flights'[j] = "running" /\ flights[j] = "none"
      BY <1>4, <2>1 DEF Start, TypeOK
    <3>2. \A d \in Callers \ {c} : ~Waiting(d, j)'
      BY <1>4, <3>1, StartOthersWaiting
    <3>3. Waiting(c, j)'
      BY <1>4, <2>1, StartWaiting
    <3>4. ~calls[c].joined
      BY <1>4 DEF Start, QueuedFresh
    <3>5. ~calls'[c].joined
      <4>1. calls[c] # NoCall
        BY <1>4, IdleShape DEF Start
      <4>2. calls'[c].joined = calls[c].joined
        BY <1>4, <4>1, StartKeeps DEF Start
      <4> QED
        BY <3>4, <4>2
    <3>6. \A d \in Callers : Starter(d, j)' <=> d = c
      BY <3>2, <3>3, <3>5
    <3> QED
      BY <3>1, <3>6
  <2>2. CASE j # calls[c].key
    <3>1. flights'[j] = flights[j]
      BY <1>4, <2>2 DEF Start, TypeOK
    <3>2. ~Waiting(c, j)' /\ ~Waiting(c, j)
      BY <1>4, <2>2, StartWaiting DEF Waiting
    <3> QED
      BY <1>4, <3>1, <3>2, StartOthersWaiting
  <2> QED
    BY <2>1, <2>2
<1>5. ASSUME NEW k \in Keys, Done(k) PROVE Led(j)'
  BY <1>5, ToldWaiting DEF Done, TypeOK
<1>6. ASSUME NEW k \in Keys, NestedDone(k) PROVE Led(j)'
  <2>1. k \in Callers /\ \A i \in Keys : ~Waiting(k, i)
    BY <1>6 DEF NestedDone, Callers, Waiting
  <2> QED
    BY <1>6, <2>1, ToldWaiting DEF NestedDone, TypeOK
<1>7. ASSUME NEW k \in Keys, NestedDeadline(k) PROVE Led(j)'
  <2>1. k \in Callers
    BY <1>7 DEF NestedDeadline, Callers
  <2>2. flights'[j] = IF j = k THEN "none"
                      ELSE IF Starter(k, j) THEN "ended" ELSE flights[j]
    BY <1>7 DEF NestedDeadline, Abandoned
  <2> QED
    BY <1>7, <2>1, <2>2, ToldWaiting DEF NestedDeadline
<1>8. CASE UNCHANGED vars
  BY <1>8 DEF vars, Waiting
<1> QED
  BY <1>1, <1>2, <1>3, <1>4, <1>5, <1>6, <1>7, <1>8 DEF Next, Enter, Load

-----------------------------------------------------------------------------
(* The rest of the invariant. *)

LEMMA NestedStep ==
  ASSUME TypeOK, NestedCalls, [Next]_vars PROVE NestedCalls'
<1> SUFFICES ASSUME NEW n \in Nested
             PROVE  /\ calls'[n] # NoCall => calls'[n].key = Inner[n]
                    /\ flights'[n] = "none" => calls'[n] = NoCall
  BY DEF NestedCalls
<1>0. /\ n \in Keys /\ n \in Callers /\ n \notin Clients /\ n \notin Plain
      /\ calls[n] # NoCall => calls[n].key = Inner[n]
      /\ flights[n] = "none" => calls[n] = NoCall
      /\ Inner[n] # n
  BY FlightAssumption DEF NestedCalls, Keys, Callers
<1>1. ASSUME NEW c \in Clients, NEW k \in Keys, Ask(c, k)
      PROVE  calls'[n] = calls[n] /\ flights'[n] = flights[n]
  BY <1>0, <1>1 DEF Ask
<1>2. ASSUME NEW c \in Clients, Leave(c)
      PROVE  calls'[n] = calls[n] /\ (flights'[n] = "none" => flights[n] = "none")
  BY <1>0, <1>2 DEF Leave, Abandoned
<1>3. ASSUME NEW c \in Callers, Join(c)
      PROVE  /\ calls'[n] # NoCall => calls'[n].key = Inner[n]
             /\ flights'[n] = "none" => calls'[n] = NoCall
  <2>1. calls[c] # NoCall /\ flights' = flights
    BY <1>3, IdleShape DEF Join
  <2> QED
    BY <1>0, <1>3, <2>1, JoinWaiting
<1>4. ASSUME NEW c \in Callers, Start(c)
      PROVE  /\ calls'[n] # NoCall => calls'[n].key = Inner[n]
             /\ flights'[n] = "none" => calls'[n] = NoCall
  <2>1. calls[c] # NoCall /\ calls[c].key \in Keys
    BY <1>4, IdleShape, StartWaiting DEF Start
  <2>2. flights' = [flights EXCEPT ![calls[c].key] = "running"]
    BY <1>4 DEF Start
  <2>3. CASE n = c
    BY <1>0, <1>4, <2>1, <2>2, <2>3, StartWaiting DEF TypeOK
  <2>4. CASE n # c /\ n = calls[c].key
    <3>1. calls'[n] = Queued(Inner[n])
      BY <1>0, <1>4, <2>4, StartWaiting
    <3> QED
      BY <1>0, <2>2, <2>4, <3>1, InnerKey, QueuedShape DEF TypeOK
  <2>5. CASE n # c /\ n # calls[c].key
    <3>1. calls'[n] = calls[n]
      BY <1>0, <1>4, <2>5 DEF Start
    <3>2. flights'[n] = flights[n]
      BY <1>0, <2>2, <2>5 DEF TypeOK
    <3> QED
      BY <1>0, <3>1, <3>2
  <2> QED
    BY <2>3, <2>4, <2>5
<1>5. ASSUME NEW k \in Keys, NEW answer, NEW done \in SUBSET Callers, Told(k, answer, done)
      PROVE  /\ calls'[n] # NoCall => calls'[n].key = Inner[n]
             /\ calls[n] = NoCall => calls'[n] = NoCall
             /\ n \in done => calls'[n] = NoCall
  <2>1. CASE n \in done
    BY <1>0, <1>5, <2>1 DEF Told
  <2>2. CASE n \notin done /\ Waiting(n, k)
    <3>1. calls[n] # NoCall
      BY <2>2, IdleShape DEF Waiting
    <3> QED
      BY <1>0, <1>5, <2>2, <3>1, CallShape DEF Told
  <2>3. CASE n \notin done /\ ~Waiting(n, k)
    BY <1>0, <1>5, <2>3 DEF Told
  <2> QED
    BY <2>1, <2>2, <2>3
<1>6. ASSUME NEW k \in Keys, Done(k)
      PROVE  /\ calls'[n] # NoCall => calls'[n].key = Inner[n]
             /\ flights'[n] = "none" => calls'[n] = NoCall
  BY <1>0, <1>5, <1>6 DEF Done, TypeOK
<1>7. ASSUME NEW k \in Keys, NestedDone(k) \/ NestedDeadline(k)
      PROVE  /\ calls'[n] # NoCall => calls'[n].key = Inner[n]
             /\ flights'[n] = "none" => calls'[n] = NoCall
  <2>1. k \in Callers /\ (flights'[n] = "none" => n = k \/ flights[n] = "none")
    BY <1>0, <1>7 DEF NestedDone, NestedDeadline, Abandoned, TypeOK, Callers
  <2> QED
    BY <1>0, <1>5, <1>7, <2>1 DEF NestedDone, NestedDeadline
<1>8. CASE UNCHANGED vars
  BY <1>0, <1>8 DEF vars
<1> QED
  BY <1>0, <1>1, <1>2, <1>3, <1>4, <1>6, <1>7, <1>8 DEF Next, Enter, Load

(* What a caller's record says of its answer and of who it joined. *)
Sound(call) ==
  /\ call.answer.outcome = "cancelled" => call.answer.shared
  /\ call.stage = "queued" => ~call.joined
  /\ call.stage = "told" <=> call.answer.outcome # "none"

LEMMA SoundByCaller ==
  CancelledOnlyShared /\ QueuedFresh /\ ToldAnswers <=> \A c \in Callers : Sound(calls[c])
  BY DEF CancelledOnlyShared, QueuedFresh, ToldAnswers, Sound

LEMMA SoundNoCall == Sound(NoCall)
  BY IdleShape DEF Sound

LEMMA SoundQueued == ASSUME NEW k \in Keys PROVE Sound(Queued(k))
  BY DEF Queued, Answer, Sound

LEMMA ToldSound ==
  ASSUME TypeOK, \A c \in Callers : Sound(calls[c]),
         NEW k \in Keys, NEW answer \in Answers, NEW done, Told(k, answer, done),
         answer.outcome # "none",
         answer.outcome = "cancelled" =>
           answer.shared \/ \A c \in Callers : ~Starter(c, k)
  PROVE  \A c \in Callers : Sound(calls'[c])
<1> SUFFICES ASSUME NEW c \in Callers PROVE Sound(calls'[c])
  OBVIOUS
<1>1. CASE c \in done
  <2>1. calls'[c] = NoCall
    BY <1>1 DEF Told
  <2> QED
    BY <2>1, SoundNoCall
<1>2. CASE c \notin done /\ Waiting(c, k)
  <2>1. calls[c] # NoCall
    BY <1>2, IdleShape DEF Waiting
  <2>2. calls'[c] = [calls[c] EXCEPT !.stage = "told",
            !.answer = [answer EXCEPT !.shared = @ \/ calls[c].joined]]
    BY <1>2 DEF Told
  <2>3. calls'[c].stage = "told" /\ calls'[c].answer.outcome = answer.outcome
    BY <2>1, <2>2, CallShape DEF Answers
  <2>4. calls'[c].answer.shared = (answer.shared \/ calls[c].joined)
    BY <2>1, <2>2, CallShape DEF Answers
  <2> QED
    BY <1>2, <2>3, <2>4 DEF Sound, Starter
<1>3. CASE c \notin done /\ ~Waiting(c, k)
  BY <1>3 DEF Told
<1> QED
  BY <1>1, <1>2, <1>3

LEMMA SoundStep ==
  ASSUME TypeOK, NestedCalls, OneStarter, \A c \in Callers : Sound(calls[c]), [Next]_vars
  PROVE  \A c \in Callers : Sound(calls'[c])
<1>1. ASSUME NEW c \in Clients, NEW k \in Keys, Ask(c, k)
      PROVE  \A d \in Callers : Sound(calls'[d])
  BY <1>1, SoundQueued DEF Ask, TypeOK
<1>2. ASSUME NEW c \in Clients, Leave(c)
      PROVE  \A d \in Callers : Sound(calls'[d])
  BY <1>2, SoundNoCall DEF Leave, TypeOK
<1>3. ASSUME NEW c \in Callers, Join(c)
      PROVE  \A d \in Callers : Sound(calls'[d])
  <2>1. calls[c] # NoCall
    BY <1>3, IdleShape DEF Join
  <2>2. calls'[c].answer = calls[c].answer /\ calls'[c].stage = "waiting"
    BY <1>3, <2>1, CallShape DEF Join, TypeOK
  <2>3. calls[c].answer.outcome = "none"
    BY <1>3 DEF Join, Sound
  <2>4. Sound(calls'[c])
    BY <2>2, <2>3 DEF Sound
  <2> QED
    BY <1>3, <2>4, JoinWaiting
<1>4. ASSUME NEW c \in Callers, Start(c)
      PROVE  \A d \in Callers : Sound(calls'[d])
  <2>1. calls[c] # NoCall
    BY <1>4, IdleShape DEF Start
  <2>2. calls'[c].answer = calls[c].answer /\ calls'[c].stage = "waiting"
    BY <1>4, <2>1, CallShape, StartWaiting
  <2>3. calls[c].answer.outcome = "none"
    BY <1>4 DEF Start, Sound
  <2>4. ASSUME NEW d \in Callers \ {c} PROVE Sound(calls'[d])
    <3>1. CASE d = calls[c].key
      <4>1. d \in Nested /\ calls'[d] = Queued(Inner[d])
        BY <1>4, <3>1, StartWaiting
      <4> QED
        BY <4>1, InnerKey, SoundQueued
    <3>2. CASE d # calls[c].key
      BY <1>4, <3>2, StartWaiting
    <3> QED
      BY <3>1, <3>2
  <2>5. Sound(calls'[c])
    BY <2>2, <2>3 DEF Sound
  <2> QED
    BY <2>4, <2>5
<1>5. ASSUME NEW k \in Keys, Done(k)
      PROVE  \A d \in Callers : Sound(calls'[d])
  <2>1. PICK outcome \in Outcomes(k) : Told(k, Answer(outcome), {})
    BY <1>5 DEF Done
  <2>2. outcome = "cancelled" => \A c \in Callers : ~Starter(c, k)
    BY DEF Outcomes, OneStarter
  <2>3. outcome # "none"
    BY DEF Outcomes
  <2> QED
    BY <2>1, <2>2, <2>3, OutcomesTyped, ToldSound
<1>6. ASSUME NEW k \in Keys, NestedDone(k)
      PROVE  \A d \in Callers : Sound(calls'[d])
  <2>1. k \in Callers /\ calls[k] # NoCall
    BY <1>6, IdleShape DEF NestedDone, Callers
  <2>2. calls[k].answer \in Answers /\ Sound(calls[k])
    BY <2>1, CallShape
  <2> QED
    BY <1>6, <2>2, ToldSound DEF NestedDone, Sound
<1>7. ASSUME NEW k \in Keys, NestedDeadline(k)
      PROVE  \A d \in Callers : Sound(calls'[d])
  <2>1. Answer("failed") \in Answers /\ Answer("failed").outcome = "failed"
    BY DEF Answer, Answers
  <2> QED
    BY <1>7, <2>1, ToldSound DEF NestedDeadline
<1>8. CASE UNCHANGED vars
  BY <1>8 DEF vars
<1> QED
  BY <1>1, <1>2, <1>3, <1>4, <1>5, <1>6, <1>7, <1>8 DEF Next, Enter, Load

-----------------------------------------------------------------------------
LEMMA InitInv == Init => IInv
<1> SUFFICES ASSUME Init PROVE IInv
  OBVIOUS
<1>1. Insiders = {}
  BY IdleShape DEF Init, Insiders, Inside
<1>2. TypeOK
  BY IdleShape DEF Init, TypeOK, Flights
<1>3. SlotsCounted
  BY <1>1, FS_EmptySet, FlightAssumption DEF Init, SlotsCounted, Insiders
<1>4. \A c \in Callers : calls[c] = NoCall /\ calls[c].stage = "idle"
  BY IdleShape DEF Init
<1>5. LoadsLed
  BY <1>4 DEF Init, LoadsLed
<1>6. CancelledOnlyShared /\ QueuedFresh /\ ToldAnswers
  BY <1>4, SoundNoCall, SoundByCaller
<1>7. NestedCalls
  BY <1>4 DEF Init, NestedCalls, Callers
<1>8. OneStarter
  BY <1>4 DEF OneStarter, Starter, Waiting
<1> QED
  BY <1>2, <1>3, <1>5, <1>6, <1>7, <1>8 DEF IInv

LEMMA StepInv == IInv /\ [Next]_vars => IInv'
<1> SUFFICES ASSUME IInv, [Next]_vars PROVE IInv'
  OBVIOUS
<1>1. SlotsCounted'
  BY SlotsStep DEF IInv
<1>2. TypeOK'
  <2>1. slots' \in Nat
    BY <1>1, CallersFinite, FS_Subset, FS_CardinalityType DEF SlotsCounted
  <2> QED
    BY <2>1, TypingStep DEF IInv, CallsTyped, TypeOK
<1>3. \A k \in Keys : Led(k)'
  BY LedByKey, LedStep DEF IInv
<1>4. LoadsLed' /\ OneStarter'
  <2>1. (TypeOK => (LoadsLed /\ OneStarter <=> \A k \in Keys : Led(k)))'
    BY LedByKey, PTL
  <2> QED
    BY <1>2, <1>3, <2>1
<1>5. NestedCalls'
  BY NestedStep DEF IInv
<1>6. CancelledOnlyShared' /\ QueuedFresh' /\ ToldAnswers'
  <2>1. \A c \in Callers : Sound(calls'[c])
    BY SoundByCaller, SoundStep DEF IInv
  <2> QED
    BY <2>1 DEF CancelledOnlyShared, QueuedFresh, ToldAnswers, Sound
<1> QED
  BY <1>1, <1>2, <1>4, <1>5, <1>6 DEF IInv

LEMMA Invariance == Spec => []IInv
  BY InitInv, StepInv, PTL DEF Spec

(* The state keeps its types: no place is ever given back twice. *)
THEOREM TypeCorrect == Spec => []TypeOK
<1>1. IInv => TypeOK
  BY DEF IInv
<1> QED
  BY <1>1, Invariance, PTL

(* GetDataWithSF takes and returns the places of its semaphore exactly,    *)
(* whatever ends a call, and never has more callers inside than places.    *)
THEOREM PlacesExact == Spec => []SlotsCounted
<1>1. IInv => SlotsCounted
  BY DEF IInv
<1> QED
  BY <1>1, Invariance, PTL

(* Nobody waits for a load that is over, and a load whose context goes on  *)
(* has the call that started it waiting: what it answers was not answered  *)
(* before.                                                                 *)
THEOREM LoadsAreLed == Spec => []LoadsLed
<1>1. IInv => LoadsLed
  BY DEF IInv
<1> QED
  BY <1>1, Invariance, PTL

(* A call is cancelled by another's leaving only if it shares that one's   *)
(* load, directly or through a nested one.                                 *)
THEOREM CancelledSharing == Spec => []CancelledOnlyShared
<1>1. IInv => CancelledOnlyShared
  BY DEF IInv
<1> QED
  BY <1>1, Invariance, PTL
-----------------------------------------------------------------------------
(* The refinement of SharedLoad. *)

LEMMA Views ==
  ASSUME NEW c \in Callers
  PROVE  /\ Waits[c] = IF calls[c].stage = "waiting" THEN calls[c].key ELSE NoKey
         /\ Leads[c] = IF calls[c].joined THEN NoKey ELSE Waits[c]
         /\ Heard[c] = calls[c].answer.outcome
  BY DEF Waits, Leads, Heard

LEMMA ViewsNext ==
  ASSUME NEW c \in Callers
  PROVE  /\ Waits'[c] = IF calls'[c].stage = "waiting" THEN calls'[c].key ELSE NoKey
         /\ Leads'[c] = IF calls'[c].joined THEN NoKey ELSE Waits'[c]
         /\ Heard'[c] = calls'[c].answer.outcome
  BY DEF Waits, Leads, Heard

LEMMA WaitsWaiting ==
  ASSUME NEW c \in Callers, NEW k \in Keys
  PROVE  /\ Waits[c] = k <=> Waiting(c, k)
         /\ Leads[c] = k <=> Starter(c, k)
  BY Views, NoKeyOut DEF Waiting, Starter

LEMMA ViewsAreFunctions ==
  /\ Waits = [c \in Callers |-> Waits[c]] /\ Waits' = [c \in Callers |-> Waits'[c]]
  /\ Leads = [c \in Callers |-> Leads[c]] /\ Leads' = [c \in Callers |-> Leads'[c]]
  /\ Heard = [c \in Callers |-> Heard[c]] /\ Heard' = [c \in Callers |-> Heard'[c]]
  BY DEF Waits, Leads, Heard

LEMMA OneUpdated ==
  ASSUME NEW D, NEW f, NEW g, f = [c \in D |-> f[c]], g = [c \in D |-> g[c]],
         NEW b \in D, NEW v, g[b] = v, \A c \in D \ {b} : g[c] = f[c]
  PROVE  g = [f EXCEPT ![b] = v] /\ (v = f[b] => g = f)
<1>1. \A c \in D : g[c] = [f EXCEPT ![b] = v][c]
  OBVIOUS
<1>2. v = f[b] => \A c \in D : g[c] = f[c]
  OBVIOUS
<1> QED
  BY <1>1, <1>2

(* A call is not seen until it has its place. *)
LEMMA SameView ==
  ASSUME NEW c \in Callers,
         \/ calls'[c] = calls[c]
         \/ /\ calls[c].stage # "waiting" /\ calls'[c].stage # "waiting"
            /\ calls'[c].answer.outcome = calls[c].answer.outcome
  PROVE  Waits'[c] = Waits[c] /\ Leads'[c] = Leads[c] /\ Heard'[c] = Heard[c]
  BY Views, ViewsNext

LEMMA SameViews ==
  ASSUME \A c \in Callers :
           \/ calls'[c] = calls[c]
           \/ /\ calls[c].stage # "waiting" /\ calls'[c].stage # "waiting"
              /\ calls'[c].answer.outcome = calls[c].answer.outcome
  PROVE  Waits' = Waits /\ Leads' = Leads /\ Heard' = Heard
<1>1. ASSUME NEW c \in Callers
      PROVE  Waits'[c] = Waits[c] /\ Leads'[c] = Leads[c] /\ Heard'[c] = Heard[c]
  BY SameView
<1> QED
  BY <1>1, ViewsAreFunctions

(* Who waits for the load of k is told; the caller k goes with its load. *)
LEMMA ToldViews ==
  ASSUME TypeOK, NEW k \in Keys, NEW answer, NEW done \in SUBSET Callers,
         Told(k, answer, done),
         \A c \in Callers \ done : Waiting(c, k) => calls'[c].answer.outcome = answer.outcome,
         NEW c \in Callers
  PROVE  LET over == c \in done \/ Waits[c] = k
         IN /\ Waits'[c] = IF over THEN NoKey ELSE Waits[c]
            /\ Leads'[c] = IF over THEN NoKey ELSE Leads[c]
            /\ Heard'[c] = IF c \in done THEN "none"
                           ELSE IF over THEN answer.outcome ELSE Heard[c]
<1>1. CASE c \in done
  <2>1. calls'[c] = NoCall
    BY <1>1 DEF Told
  <2>2. Waits'[c] = NoKey /\ Leads'[c] = NoKey /\ Heard'[c] = "none"
    BY <2>1, IdleShape, ViewsNext
  <2> QED
    BY <1>1, <2>2
<1>2. CASE c \notin done /\ Waiting(c, k)
  <2>1. calls'[c].stage = "told"
    <3>1. calls[c] # NoCall
      BY <1>2, IdleShape DEF Waiting
    <3> QED
      BY <1>2, <3>1, CallShape DEF Told
  <2> QED
    BY <1>2, <2>1, ViewsNext, WaitsWaiting
<1>3. CASE c \notin done /\ ~Waiting(c, k)
  <2>1. calls'[c] = calls[c]
    BY <1>3 DEF Told
  <2> QED
    BY <1>3, <2>1, SameView, WaitsWaiting
<1> QED
  BY <1>1, <1>2, <1>3

LEMMA ToldOutcome ==
  ASSUME TypeOK, NEW k \in Keys, NEW answer \in Answers, NEW done,
         Told(k, answer, done)
  PROVE  \A c \in Callers \ done :
           Waiting(c, k) => calls'[c].answer.outcome = answer.outcome
<1> SUFFICES ASSUME NEW c \in Callers \ done, Waiting(c, k)
             PROVE  calls'[c].answer.outcome = answer.outcome
  OBVIOUS
<1>1. calls[c] # NoCall
  BY IdleShape DEF Waiting
<1>2. calls'[c] = [calls[c] EXCEPT !.stage = "told",
          !.answer = [answer EXCEPT !.shared = @ \/ calls[c].joined]]
  BY DEF Told
<1> QED
  BY <1>1, <1>2, CallShape DEF Answers

Under == {k \in Keys : flights[k] # "none"}

(* A load that ends, ends for all who wait for it and for nobody else. *)
LEMMA LoadOver ==
  ASSUME TypeOK, NEW k \in Keys, k \in Under, NEW answer \in Answers,
         NEW done \in SUBSET Callers, done = {k} \cap Callers, Told(k, answer, done),
         Under' = Under \ {k}, answer.outcome \in S!Outcomes(k)
  PROVE  S!Finish(k, answer.outcome)
<1> DEFINE over == [c \in Callers |-> c = k \/ Waits[c] = k]
<1>1. ASSUME NEW c \in Callers
      PROVE  /\ Waits'[c] = IF over[c] THEN NoKey ELSE Waits[c]
             /\ Leads'[c] = IF over[c] THEN NoKey ELSE Leads[c]
             /\ Heard'[c] = IF c = k THEN "none"
                            ELSE IF over[c] THEN answer.outcome ELSE Heard[c]
  <2>1. \A d \in Callers \ done :
          Waiting(d, k) => calls'[d].answer.outcome = answer.outcome
    BY ToldOutcome
  <2>2. c \in done <=> c = k
    OBVIOUS
  <2>3. LET gone == c \in done \/ Waits[c] = k
        IN /\ Waits'[c] = IF gone THEN NoKey ELSE Waits[c]
           /\ Leads'[c] = IF gone THEN NoKey ELSE Leads[c]
           /\ Heard'[c] = IF c \in done THEN "none"
                          ELSE IF gone THEN answer.outcome ELSE Heard[c]
    BY <2>1, ToldViews
  <2> QED
    BY <2>2, <2>3
<1>2. /\ Waits' = [c \in Callers |-> IF over[c] THEN NoKey ELSE Waits[c]]
      /\ Leads' = [c \in Callers |-> IF over[c] THEN NoKey ELSE Leads[c]]
      /\ Heard' = [c \in Callers |-> IF c = k THEN "none"
                                     ELSE IF over[c] THEN answer.outcome ELSE Heard[c]]
  BY <1>1, ViewsAreFunctions
<1> QED
  BY <1>2 DEF S!Finish, Under

LEMMA JoinShares ==
  ASSUME IInv, NEW b \in Callers, Join(b), NEW k \in Keys, k = calls[b].key
  PROVE  S!Wait(b, k)
<1>1. /\ k \in Under /\ Under' = Under /\ Under \cup {k} = Under
  BY JoinWaiting DEF Join, IInv, Under
<1>2. /\ Waits[b] = NoKey /\ Leads[b] = NoKey /\ Heard[b] = "none"
  BY Views DEF Join, IInv, ToldAnswers
<1>3. /\ Waits'[b] = k /\ Leads'[b] = NoKey /\ Heard'[b] = "none"
  <2>1. calls'[b].answer = calls[b].answer
    BY IdleShape, CallShape DEF Join, IInv, TypeOK
  <2> QED
    BY <1>2, <2>1, Views, ViewsNext, JoinWaiting DEF IInv, Waiting
<1>4. ASSUME NEW c \in Callers \ {b}
      PROVE  Waits'[c] = Waits[c] /\ Leads'[c] = Leads[c] /\ Heard'[c] = Heard[c]
  BY JoinWaiting, SameView DEF IInv
<1>5. Waits' = [Waits EXCEPT ![b] = k] /\ Leads' = Leads /\ Heard' = Heard
  BY <1>2, <1>3, <1>4, ViewsAreFunctions, OneUpdated
<1> QED
  BY <1>1, <1>2, <1>5 DEF S!Wait, Under

LEMMA StartShares ==
  ASSUME IInv, NEW b \in Callers, Start(b), NEW k \in Keys, k = calls[b].key
  PROVE  S!Wait(b, k)
<1>0. calls[b] # NoCall
  BY IdleShape DEF Start
<1>1. k \notin Under /\ Under' = Under \cup {k}
  BY <1>0 DEF Start, IInv, TypeOK, Under
<1>2. /\ Waits[b] = NoKey /\ Leads[b] = NoKey /\ Heard[b] = "none"
  BY Views DEF Start, IInv, ToldAnswers
<1>3. /\ Waits'[b] = k /\ Leads'[b] = k /\ Heard'[b] = "none"
  <2>1. calls'[b].answer = calls[b].answer /\ calls'[b].joined = calls[b].joined
    BY <1>0, CallShape, StartWaiting DEF IInv
  <2>2. ~calls[b].joined
    BY DEF Start, IInv, QueuedFresh
  <2> QED
    <3>1. calls'[b].stage = "waiting" /\ calls'[b].key = k
      BY StartWaiting DEF IInv, Waiting
    <3>2. ~calls'[b].joined /\ calls'[b].answer.outcome = "none"
      BY <1>2, <2>1, <2>2, Views
    <3> QED
      BY <3>1, <3>2, ViewsNext
<1>4. ASSUME NEW c \in Callers \ {b}
      PROVE  Waits'[c] = Waits[c] /\ Leads'[c] = Leads[c] /\ Heard'[c] = Heard[c]
  <2>1. CASE c = k
    <3>1. c \in Nested /\ calls[c] = NoCall /\ calls'[c] = Queued(Inner[c])
      BY <2>1, StartWaiting DEF IInv
    <3> QED
      BY <3>1, IdleShape, InnerKey, QueuedShape, SameView
  <2>2. CASE c # k
    <3>1. calls'[c] = calls[c]
      BY <2>2 DEF Start
    <3> QED
      BY <3>1, SameView
  <2> QED
    BY <2>1, <2>2
<1>5. /\ Waits' = [Waits EXCEPT ![b] = k] /\ Leads' = [Leads EXCEPT ![b] = k]
      /\ Heard' = Heard
  BY <1>2, <1>3, <1>4, ViewsAreFunctions, OneUpdated
<1> QED
  BY <1>1, <1>2, <1>5 DEF S!Wait, Under

LEMMA LeaveShares ==
  ASSUME IInv, NEW b \in Clients, Leave(b) PROVE S!Depart(b)
<1>1. b \in Callers /\ b \notin Keys
  BY FlightAssumption DEF Callers
<1>2. Under' = Under
  <2>1. \A k \in Keys : Waiting(b, k) => flights[k] # "none"
    BY <1>1 DEF IInv, LoadsLed, Waiting
  <2> QED
    BY <2>1 DEF Leave, Abandoned, Under
<1>3. Waits'[b] = NoKey /\ Leads'[b] = NoKey /\ Heard'[b] = "none"
  BY <1>1, IdleShape, ViewsNext DEF Leave, IInv, TypeOK
<1>4. ASSUME NEW c \in Callers \ {b}
      PROVE  Waits'[c] = Waits[c] /\ Leads'[c] = Leads[c] /\ Heard'[c] = Heard[c]
  BY SameView DEF Leave, IInv, TypeOK
<1>5. /\ Waits' = [Waits EXCEPT ![b] = NoKey] /\ Leads' = [Leads EXCEPT ![b] = NoKey]
      /\ Heard' = [Heard EXCEPT ![b] = "none"]
  BY <1>1, <1>3, <1>4, ViewsAreFunctions, OneUpdated
<1> QED
  BY <1>1, <1>2, <1>5 DEF S!Depart, Under

(* A query is cancelled only when the call that began it has left. *)
LEMMA DoneShares ==
  ASSUME IInv, NEW k \in Keys, Done(k)
  PROVE  \E outcome \in S!Outcomes(k) : S!Finish(k, outcome)
<1>1. PICK outcome \in Outcomes(k) : Told(k, Answer(outcome), {})
  BY DEF Done
<1>2. k \notin Callers
  BY FlightAssumption DEF Done, Callers, Keys
<1>3. outcome \in S!Outcomes(k)
  <2>1. outcome = "cancelled" => flights[k] = "ended"
    BY DEF Outcomes
  <2>2. flights[k] = "ended" => ~S!Led(k)
    BY WaitsWaiting DEF IInv, OneStarter, S!Led
  <2> QED
    BY <1>2, <2>1, <2>2 DEF Outcomes, S!Outcomes
<1>4. k \in Under /\ Under' = Under \ {k}
  BY DEF Done, Under, IInv, TypeOK
<1> QED
  BY <1>1, <1>2, <1>3, <1>4, OutcomesTyped, LoadOver DEF IInv

LEMMA NestedShares ==
  ASSUME IInv, NEW k \in Keys, NestedDone(k) \/ NestedDeadline(k)
  PROVE  \E outcome \in S!Outcomes(k) : S!Finish(k, outcome)
<1>1. k \in Callers /\ k \in Nested
  BY DEF NestedDone, NestedDeadline, Callers
<1>2. flights[k] # "none" /\ calls[k] # NoCall
  BY <1>1, IdleShape DEF NestedDone, NestedDeadline, IInv, NestedCalls
<1>3. PICK answer \in Answers : Told(k, answer, {k}) /\ answer.outcome \in S!Outcomes(k)
  <2>1. CASE NestedDone(k)
    <3>1. calls[k].answer \in Answers
      BY <1>1, <1>2, CallShape DEF IInv
    <3>2. Heard[k] = calls[k].answer.outcome /\ Heard[k] # "none"
      BY <1>1, <2>1, Views DEF NestedDone, IInv, ToldAnswers
    <3> QED
      BY <1>1, <2>1, <3>1, <3>2 DEF NestedDone, S!Outcomes
  <2>2. CASE NestedDeadline(k)
    <3>1. Answer("failed") \in Answers /\ Answer("failed").outcome = "failed"
      BY DEF Answer, Answers
    <3>2. Heard[k] = "none"
      BY <1>1, <2>2, Views DEF NestedDeadline, IInv, ToldAnswers
    <3> QED
      BY <1>1, <2>2, <3>1, <3>2 DEF NestedDeadline, S!Outcomes
  <2> QED
    BY <2>1, <2>2
<1>4. Under' = Under \ {k}
  <2>1. CASE NestedDone(k)
    BY <2>1 DEF NestedDone, Under, IInv, TypeOK
  <2>2. CASE NestedDeadline(k)
    <3>1. \A j \in Keys : Waiting(k, j) => flights[j] # "none"
      BY <1>1 DEF IInv, LoadsLed, Waiting
    <3> QED
      BY <2>2, <3>1 DEF NestedDeadline, Abandoned, Under
  <2> QED
    BY <2>1, <2>2
<1>5. {k} = {k} \cap Callers /\ {k} \in SUBSET Callers /\ k \in Under
  BY <1>1, <1>2 DEF Under
<1> QED
  BY <1>3, <1>4, <1>5, LoadOver DEF IInv

LEMMA StepShares == IInv /\ [Next]_vars => [S!Next]_(S!vars)
<1> SUFFICES ASSUME IInv, [Next]_vars PROVE [S!Next]_(S!vars)
  OBVIOUS
<1>1. ASSUME NEW c \in Clients, NEW k \in Keys, Ask(c, k) PROVE UNCHANGED S!vars
  <2>1. \A d \in Callers \ {c} : calls'[d] = calls[d]
    BY <1>1 DEF Ask, IInv, TypeOK
  <2>2. c \in Callers => calls[c] = NoCall /\ calls'[c] = Queued(k)
    BY <1>1 DEF Ask, IInv, TypeOK
  <2>3. Waits' = Waits /\ Leads' = Leads /\ Heard' = Heard
    <3>1. /\ NoCall.stage # "waiting" /\ Queued(k).stage # "waiting"
          /\ Queued(k).answer.outcome = NoCall.answer.outcome
      BY IdleShape, QueuedShape
    <3> QED
      BY <2>1, <2>2, <3>1, SameViews
  <2> QED
    BY <1>1, <2>3 DEF Ask, S!vars
<1>2. ASSUME NEW c \in Clients, Leave(c) PROVE S!Next
  <2>1. c \in Callers
    BY DEF Callers
  <2> QED
    BY <1>2, <2>1, LeaveShares DEF S!Next
<1>3. ASSUME NEW c \in Callers, Enter(c) PROVE S!Next
  <2>1. PICK k \in Keys : k = calls[c].key
    BY <1>3, JoinWaiting, StartWaiting DEF Enter, IInv
  <2>2. S!Wait(c, k)
    BY <1>3, <2>1, JoinShares, StartShares DEF Enter
  <2> QED
    BY <2>1, <2>2 DEF S!Next
<1>4. ASSUME NEW k \in Keys, Load(k) PROVE S!Next
  BY <1>4, DoneShares, NestedShares DEF Load, S!Next
<1>5. CASE UNCHANGED vars
  <2>1. Waits' = Waits /\ Leads' = Leads /\ Heard' = Heard
    BY <1>5, SameViews DEF vars
  <2> QED
    BY <1>5, <2>1 DEF vars, S!vars
<1> QED
  BY <1>1, <1>2, <1>3, <1>4, <1>5 DEF Next

(* GetDataWithSF implements SharedLoad for any number of callers, keys,    *)
(* nested loads and places: whatever the semaphore and the contexts do, a  *)
(* load ends once, for everybody who waits, and with one answer.           *)
THEOREM SharingImplemented == Spec => LoadsShared
<1>1. Init => S!Init
  <2> SUFFICES ASSUME Init PROVE S!Init
    OBVIOUS
  <2>1. ASSUME NEW c \in Callers
        PROVE  Waits[c] = NoKey /\ Leads[c] = NoKey /\ Heard[c] = "none"
    BY IdleShape, Views DEF Init
  <2> QED
    BY <2>1 DEF Init, S!Init, Waits, Leads, Heard
<1> QED
  BY <1>1, Invariance, StepShares, PTL DEF Spec, LoadsShared, S!Spec
=============================================================================
