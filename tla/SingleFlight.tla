---------------------------- MODULE SingleFlight ----------------------------
(***************************************************************************)
(* GetDataWithSF, through which the repositories and the home timeline     *)
(* read the database: one load per key answers all who ask for the key     *)
(* meanwhile, and a semaphore of the process bounds how many calls are     *)
(* inside at once, over all keys and repositories.                         *)
(*                                                                         *)
(* A call takes a place in the semaphore, joins the load of its key or     *)
(* starts it, and gives the place back when it returns.  A load runs under *)
(* a context that ends with the call that started it, whoever else waits   *)
(* for the answer; the query for a relation alone runs under a context     *)
(* that nobody ends.  The rebuild of a home timeline is a load that makes  *)
(* such a call itself, with a deadline of its own, and takes a second      *)
(* place for it.                                                           *)
(*                                                                         *)
(* golang.org/x/sync/singleflight is modelled from how src/ uses it: a key *)
(* is in flight until its function returns, whoever has left meanwhile.    *)
(***************************************************************************)
EXTENDS Naturals, FiniteSets

CONSTANTS
  Clients,     \* goroutines that may be calling at the same time
  Plain,       \* keys whose load is a query
  Nested,      \* keys whose load is a call (rebuildTimeLine)
  Inner,       \* of a nested key, the key its load asks for
  Detached,    \* plain keys whose query ignores the context it is given
  Slots,       \* 100: places in the semaphore
  NoKey

Keys == Plain \cup Nested

(* A nested load is a caller too, and goes by the name of its key. *)
Callers == Clients \cup Nested

ASSUME FlightAssumption ==
  /\ IsFiniteSet(Clients) /\ IsFiniteSet(Nested)
  /\ Clients \cap Keys = {} /\ Plain \cap Nested = {} /\ NoKey \notin Keys
  /\ Inner \in [Nested -> Plain] /\ Detached \subseteq Plain
  /\ Slots \in Nat

VARIABLES
  slots,    \* places taken
  calls,    \* by caller, the call it is in
  flights   \* by key, the load under way, and whether its context has ended

vars == <<slots, calls, flights>>

(* "shared": history, whether the answer, or the answer it is made of, is  *)
(* that of a load another call had started.                                *)
Answer(outcome) == [outcome |-> outcome, shared |-> FALSE]
Answers == [outcome : {"none", "ok", "failed", "cancelled"}, shared : BOOLEAN]

NoCall == [stage |-> "idle", key |-> NoKey, joined |-> FALSE, answer |-> Answer("none")]
Calls == [stage : {"queued", "waiting", "told"}, key : Keys, joined : BOOLEAN,
          answer : Answers] \cup {NoCall}

Flights == {"none", "running", "ended"}

Init ==
  /\ slots = 0
  /\ calls = [c \in Callers |-> NoCall]
  /\ flights = [k \in Keys |-> "none"]

Inside(c) == calls[c].stage \in {"waiting", "told"}

Waiting(c, k) == calls[c].stage = "waiting" /\ calls[c].key = k

Queued(k) ==
  [stage |-> "queued", key |-> k, joined |-> FALSE, answer |-> Answer("none")]

-----------------------------------------------------------------------------
(* A call. *)

Ask(c, k) ==
  /\ calls[c] = NoCall
  /\ calls' = [calls EXCEPT ![c] = Queued(k)]
  /\ UNCHANGED <<slots, flights>>

Place == slots < Slots /\ slots' = slots + 1

(* DoChan with a load of the key under way... *)
Join(c) ==
  LET k == calls[c].key
  IN /\ calls[c].stage = "queued" /\ flights[k] # "none" /\ Place
     /\ calls' = [calls EXCEPT ![c].stage = "waiting", ![c].joined = TRUE]
     /\ UNCHANGED flights

(* ... and without: the load begins, a nested one with a call of its own. *)
Start(c) ==
  LET k == calls[c].key
  IN /\ calls[c].stage = "queued" /\ flights[k] = "none" /\ Place
     /\ flights' = [flights EXCEPT ![k] = "running"]
     /\ calls' = [d \in Callers |->
                    IF d = c THEN [calls[c] EXCEPT !.stage = "waiting"]
                    ELSE IF d = k THEN Queued(Inner[k]) ELSE calls[d]]

Enter(c) == Join(c) \/ Start(c)

(* Mutant: a call whose context ends does not give its place back. *)
PlaceKept(c) == IF calls[c].stage = "told" THEN slots - 1 ELSE slots

(* Mutant: the place is given back before it is taken. *)
PlaceBackEarly(c) == slots - 1

(* The deferred receive. *)
PlaceBack(c) == IF Inside(c) THEN slots - 1 ELSE slots

(* Mutant: the context of a load ends with any of the calls it serves. *)
AbandonedByAny(c) ==
  [k \in Keys |-> IF Waiting(c, k) THEN "ended" ELSE flights[k]]

(* Mutant: a call that leaves takes the load it started out of the table. *)
AbandonedForgotten(c) ==
  [k \in Keys |-> IF Waiting(c, k) /\ ~calls[c].joined
                  THEN "none" ELSE flights[k]]

(* The deferred cancel: the context of the load that the call started. *)
Abandoned(c) ==
  [k \in Keys |-> IF Waiting(c, k) /\ ~calls[c].joined
                  THEN "ended" ELSE flights[k]]

(* A call returns with its answer, or as the request's context ends. *)
Leave(c) ==
  /\ c \in Clients /\ calls[c] # NoCall
  /\ slots' = PlaceBack(c) /\ flights' = Abandoned(c)
  /\ calls' = [calls EXCEPT ![c] = NoCall]

Return(c) == calls[c].stage = "told" /\ Leave(c)

-----------------------------------------------------------------------------
(* A load. *)

(* Who waits for k is told; "done" are the callers that return with it. *)
Told(k, answer, done) ==
  calls' = [c \in Callers |->
              IF c \in done THEN NoCall
              ELSE IF Waiting(c, k)
              THEN [calls[c] EXCEPT !.stage = "told",
                      !.answer = [answer EXCEPT !.shared = @ \/ calls[c].joined]]
              ELSE calls[c]]

Outcomes(k) ==
  {"ok", "failed"} \cup (IF flights[k] = "ended" /\ k \notin Detached
                         THEN {"cancelled"} ELSE {})

(* Mutant: the key stays in flight after its answer. *)
DoneKept(k) ==
  /\ k \in Plain /\ flights[k] # "none"
  /\ \E outcome \in Outcomes(k) : Told(k, Answer(outcome), {})
  /\ UNCHANGED <<slots, flights>>

(* The query answers, or it fails: in the database, after two seconds, or  *)
(* with the call that started it.  Who waits is told, the key is free.     *)
Done(k) ==
  /\ k \in Plain /\ flights[k] # "none"
  /\ \E outcome \in Outcomes(k) : Told(k, Answer(outcome), {})
  /\ flights' = [flights EXCEPT ![k] = "none"]
  /\ UNCHANGED slots

(* The nested call returns, and the load with what it was told. *)
NestedDone(k) ==
  /\ k \in Nested /\ calls[k].stage = "told"
  /\ Told(k, calls[k].answer, {k})
  /\ flights' = [flights EXCEPT ![k] = "none"]
  /\ slots' = PlaceBack(k)

(* Mutant: the nested call has no deadline. *)
NestedPatient(k) == FALSE /\ UNCHANGED vars

(* The twenty seconds of a rebuild end while its call waits for a place or *)
(* for an answer.                                                          *)
NestedDeadline(k) ==
  /\ k \in Nested /\ calls[k].stage \in {"queued", "waiting"}
  /\ Told(k, Answer("failed"), {k})
  /\ flights' = [Abandoned(k) EXCEPT ![k] = "none"]
  /\ slots' = PlaceBack(k)

-----------------------------------------------------------------------------
Load(k) == Done(k) \/ NestedDone(k) \/ NestedDeadline(k)

Next ==
  \/ \E c \in Clients : Leave(c) \/ \E k \in Keys : Ask(c, k)
  \/ \E c \in Callers : Enter(c)
  \/ \E k \in Keys : Load(k)

(* Queries and the calls of loads have deadlines, and a channel serves the *)
(* goroutines that wait for it in order of arrival.  A request's context   *)
(* need never end.                                                         *)
Fairness ==
  /\ \A c \in Callers : SF_vars(Enter(c))
  /\ \A c \in Clients : WF_vars(Return(c))
  /\ \A k \in Keys : WF_vars(Load(k))

Spec == Init /\ [][Next]_vars
FairSpec == Spec /\ Fairness

-----------------------------------------------------------------------------
(* Types of the state, history included. *)
TypeOK ==
  /\ slots \in Nat
  /\ calls \in [Callers -> Calls]
  /\ flights \in [Keys -> Flights]

(* Every place is held by a call that is inside, however the calls before  *)
(* it ended: none is lost and there are never more than there are places,  *)
(* nested calls and abandoned loads included.                              *)
SlotsCounted ==
  slots = Cardinality({c \in Callers : Inside(c)}) /\ slots <= Slots

(* Whoever waits, waits for a load that is under way, and a load that is   *)
(* under way has the call that started it waiting, unless that one left:   *)
(* nobody is left behind when a load ends, by any of its ways, and nobody  *)
(* is answered by a load that had its answer before the question.          *)
LoadsLed ==
  /\ \A c \in Callers :
       calls[c].stage = "waiting" => flights[calls[c].key] # "none"
  /\ \A k \in Keys :
       flights[k] = "running" => \E c \in Callers : Waiting(c, k) /\ ~calls[c].joined

(* A call is told that a context was cancelled only if it shares the load  *)
(* of another call, which left: the starter's own load does not end with   *)
(* the others.                                                             *)
CancelledOnlyShared ==
  \A c \in Callers :
    calls[c].answer.outcome = "cancelled" => calls[c].answer.shared

(* What SharedLoad speaks of.  Who waits for a place in the semaphore does *)
(* not wait for a load yet.                                                *)
Waits == [c \in Callers |->
            IF calls[c].stage = "waiting" THEN calls[c].key ELSE NoKey]
Leads == [c \in Callers |-> IF calls[c].joined THEN NoKey ELSE Waits[c]]
Heard == [c \in Callers |-> calls[c].answer.outcome]

S == INSTANCE SharedLoad WITH
       under <- {k \in Keys : flights[k] # "none"},
       waits <- Waits, leads <- Leads, heard <- Heard

(* GetDataWithSF shares loads as SharedLoad says: each ends once, for all  *)
(* who wait, with one answer that nobody else is told, and goes on for the *)
(* others when its starter leaves.                                         *)
LoadsShared == S!Spec

(* Every call ends, though the calls of nested loads need places too while *)
(* those who wait for them keep theirs.                                    *)
CallsEnd == \A c \in Clients : calls[c] # NoCall ~> calls[c] = NoCall
=============================================================================
