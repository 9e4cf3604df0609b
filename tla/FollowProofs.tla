---------------------------- MODULE FollowProofs ----------------------------
(***************************************************************************)
(* Proofs about the follow relation, for any number of users, requests,    *)
(* connections and faults.                                                 *)
(*                                                                         *)
(* A cached relation was inserted by some Follow because whatever may end  *)
(* up in the cache or in an answer was (Known): the table, the loads, the  *)
(* shared queries, the tasks.  A cached relation without a row is covered  *)
(* because UnFollow deletes the row first and drops the lists afterwards.  *)
(* The counts follow the rows because a transaction changes both its       *)
(* counters, and owes them as long as its DELETE is ahead of them          *)
(* (CountInv).                                                             *)
(***************************************************************************)
EXTENDS Follow, FiniteSetTheorems, TLAPS

-----------------------------------------------------------------------------
(* Relations, their lists and their queries. *)

LEMMA PairFacts ==
  ASSUME NEW p \in Pairs
  PROVE  /\ p[1] \in Users /\ p[2] \in Users /\ p = <<p[1], p[2]>>
         /\ Reversed(p) \in Pairs /\ SfKey(p) \in Duos
         /\ \A kind \in Kinds : KeyOf(kind, p) \in Keys
         /\ KeysOf(p) \subseteq Keys
<1>1. PICK a \in Users, b \in Users : p = <<a, b>> /\ a # b
  BY DEF Pairs
<1>2. p[1] = a /\ p[2] = b
  BY <1>1
<1>3. Reversed(p) \in Pairs
  BY <1>1, <1>2 DEF Reversed, Pairs
<1>4. \A kind \in Kinds : KeyOf(kind, p) \in Keys
  BY <1>2 DEF KeyOf, Keys
<1> QED
  BY <1>1, <1>2, <1>3, <1>4 DEF Duos, KeysOf

(* A request that has arrived and not ended. *)
Active == [op : {"follow", "unfollow", "relation"}, pair : Pairs,
           stage : Stages, hit : BOOLEAN, own : BOOLEAN, claims : SUBSET Pairs]

LEMMA ActiveFacts ==
  ASSUME TypeOK, NEW c \in Clients, reqs[c].stage # "free"
  PROVE  reqs[c] \in Active
<1>1. reqs[c] \in Active \/ reqs[c] = Idle
  BY DEF TypeOK, Requests, Active
<1>2. Idle.stage = "free"
  BY DEF Idle
<1> QED
  BY <1>1, <1>2

LEMMA GoesTypes ==
  ASSUME TypeOK, NEW c \in Clients, reqs[c].stage # "free",
         NEW stage \in Stages, Goes(c, stage)
  PROVE  reqs' \in [Clients -> Requests]
<1>1. reqs[c] \in Active
  BY ActiveFacts
<1>2. [reqs[c] EXCEPT !.stage = stage] \in Requests
  BY <1>1 DEF Active, Requests
<1> QED
  BY <1>2 DEF Goes, TypeOK

LEMMA EndsTypes ==
  ASSUME TypeOK, NEW c \in Clients, Ends(c)
  PROVE  reqs' \in [Clients -> Requests]
BY DEF Ends, TypeOK, Requests

LEMMA DroppedTypes ==
  ASSUME TypeOK, NEW p, NEW n
  PROVE  Dropped(p, n) \in [Kinds -> SUBSET Pairs]
BY DEF Dropped, TypeOK

LEMMA OwingFinite ==
  ASSUME NEW k
  PROVE  IsFiniteSet(Owing(k)) /\ Cardinality(Owing(k)) \in Nat
<1>1. IsFiniteSet(Owing(k))
  BY FS_Subset, FollowAssumption DEF Owing
<1> QED
  BY <1>1, FS_CardinalityType

-----------------------------------------------------------------------------
(* The types hold at the start and are kept by every step. *)
LEMMA TypeInit == Init => TypeOK
<1> SUFFICES ASSUME Init PROVE TypeOK
  OBVIOUS
<1>1. NoLoad \in Loads /\ NoFlight \in Flights /\ Idle \in Requests
  BY DEF NoLoad, Loads, NoFlight, Flights, Requests
<1> QED
  BY <1>1, FollowAssumption DEF Init, TypeOK

LEMMA FaultType == TypeOK /\ Fault => faults' \in Nat
BY DEF TypeOK, Fault

LEMMA TransactionTypes ==
  ASSUME TypeOK, NEW c \in Clients, Transaction(c)
  PROVE  TypeOK'
<1> USE DEF db, history
<1>a. ASSUME reqs[c].stage # "free" PROVE reqs[c].pair \in Pairs /\ reqs[c].op \in {"follow", "unfollow", "relation"}
  BY <1>a, ActiveFacts DEF Active
<1>1. CASE Panic(c)
  BY <1>1, GoesTypes DEF Panic, TypeOK, Stages
<1>2. CASE Begin(c)
  <2>1. reqs' \in [Clients -> Requests]
    BY <1>2, GoesTypes DEF Begin, Stages
  <2> QED
    BY <1>2, <2>1 DEF Begin, TypeOK
<1>3. CASE BeginFail(c)
  BY <1>3, EndsTypes, FaultType DEF BeginFail, TypeOK
<1>4. CASE Insert(c)
  <2>1. reqs' \in [Clients -> Requests]
    BY <1>4, GoesTypes DEF Insert, At, Stages
  <2>2. AddTask(reqs[c].pair) \in Tasks
    BY <1>4, <1>a DEF Insert, At, AddTask, Tasks, Kinds
  <2> QED
    BY <1>4, <1>a, <2>1, <2>2 DEF Insert, At, Submit, TypeOK
<1>5. CASE InsertRefused(c)
  BY <1>5, EndsTypes DEF InsertRefused, TypeOK
<1>6. CASE Delete(c)
  <2>1. reqs[c] \in Active
    BY <1>6, ActiveFacts DEF Delete, At
  <2>2. ASSUME NEW hit \in BOOLEAN
        PROVE  [reqs[c] EXCEPT !.stage = "drop", !.hit = hit] \in Requests
    BY <2>1 DEF Active, Requests, Stages
  <2>3. (reqs[c].pair \in follows) \in BOOLEAN
    OBVIOUS
  <2>4. [reqs[c] EXCEPT !.stage = "drop", !.hit = reqs[c].pair \in follows] \in Requests
    BY <2>2, <2>3
  <2> QED
    BY <1>6, <2>4 DEF Delete, TypeOK
<1>7. CASE Drop(c)
  <2>1. reqs' \in [Clients -> Requests]
    BY <1>7, GoesTypes DEF Drop, At, Stages
  <2> QED
    BY <1>7, <1>a, <2>1, DroppedTypes, FaultType DEF Drop, At, TypeOK
<1>8. CASE First(c)
  BY <1>8, GoesTypes DEF First, TypeOK, Stages
<1>9. CASE Second(c)
  BY <1>9, GoesTypes DEF Second, TypeOK, Stages
<1>10. CASE Commit(c)
  <2>1. count' \in [Keys -> Nat]
    BY <1>10 DEF Commit, Adjusted, TypeOK
  <2>2. spurious' \in [Keys -> Nat]
    BY <1>10 DEF Commit, Plus, TypeOK
  <2>3. follows' \subseteq Pairs
    BY <1>10, <1>a DEF Commit, TypeOK
  <2> QED
    BY <1>10, <2>1, <2>2, <2>3, EndsTypes DEF Commit, TypeOK
<1>11. CASE Rollback(c)
  <2>1. lost' \in [Keys -> Nat]
    BY <1>11 DEF Rollback, Plus, TypeOK
  <2>2. faults' \in Nat
    BY <1>11, FaultType DEF Rollback, TypeOK
  <2>3. late' \subseteq Pairs
    BY <1>11, <1>a DEF Rollback, InTx, TypeOK
  <2> QED
    BY <1>11, <2>1, <2>2, <2>3, EndsTypes DEF Rollback, TypeOK
<1> QED
  BY <1>1, <1>2, <1>3, <1>4, <1>5, <1>6, <1>7, <1>8, <1>9, <1>10, <1>11
  DEF Transaction

(* What an answer may say. *)
LEMMA ClaimFacts ==
  ASSUME NEW p \in Pairs, NEW view \in Pairs, NEW rows
  PROVE  /\ Claims(p, view, rows) \subseteq Pairs
         /\ p = view => Claims(p, view, rows) \subseteq rows
BY PairFacts DEF Claims

LEMMA SaysFacts ==
  ASSUME TypeOK, NEW p \in Pairs
  PROVE  /\ CacheSays(p) \subseteq Pairs
         /\ CacheSays(p) \subseteq cached["followings"] \cup cached["followers"]
BY PairFacts DEF CacheSays

LEMMA ToldType ==
  ASSUME TypeOK, NEW c \in Clients, reqs[c].stage # "free",
         NEW own \in BOOLEAN, NEW claims \in SUBSET Pairs
  PROVE  Told(c, own, claims) \in Requests
BY ActiveFacts DEF Told, Active, Requests, Stages

LEMMA RelationTypes ==
  ASSUME TypeOK,
         \/ \E c \in Clients : AskHit(c) \/ AskMiss(c) \/ Answer(c)
         \/ \E s \in Duos : Relation(s)
  PROVE  TypeOK'
<1> USE DEF db, history
<1>1. ASSUME NEW c \in Clients, AskHit(c) PROVE TypeOK'
  <2>1. reqs[c].pair \in Pairs /\ reqs[c].stage # "free"
    BY <1>1, ActiveFacts DEF AskHit, Active
  <2>2. Told(c, TRUE, CacheSays(reqs[c].pair)) \in Requests
    BY <2>1, ToldType, SaysFacts
  <2> QED
    BY <1>1, <2>2 DEF AskHit, TypeOK
<1>2. ASSUME NEW c \in Clients, AskMiss(c) PROVE TypeOK'
  <2>1. reqs[c].pair \in Pairs
    BY <1>2, ActiveFacts DEF AskMiss, Active
  <2>2. reqs' \in [Clients -> Requests]
    BY <1>2, GoesTypes DEF AskMiss, Stages
  <2>3. [NoFlight EXCEPT !.stage = "started", !.view = {reqs[c].pair}] \in Flights
    BY <2>1 DEF NoFlight, Flights
  <2>4. flight' \in [Duos -> Flights]
    BY <1>2, <2>3 DEF AskMiss, TypeOK
  <2>5. faults' \in Nat
    BY <1>2, FaultType DEF AskMiss, TypeOK
  <2> QED
    BY <1>2, <2>2, <2>4, <2>5 DEF AskMiss, TypeOK
<1>3. ASSUME NEW c \in Clients, Answer(c) PROVE TypeOK'
  BY <1>3, EndsTypes DEF Answer, TypeOK
<1>4. ASSUME NEW s \in Duos, RelationRead(s) PROVE TypeOK'
  <2>1. [flight[s] EXCEPT !.stage = "read", !.rows = {p \in follows : SfKey(p) = s}] \in Flights
    BY DEF TypeOK, Flights
  <2> QED
    BY <1>4, <2>1 DEF RelationRead, TypeOK
<1>5. ASSUME NEW s \in Duos, RelationDone(s) PROVE TypeOK'
  <2>1. PICK view \in flight[s].view :
          reqs' = [c \in Clients |->
                     IF reqs[c].stage = "wait" /\ SfKey(reqs[c].pair) = s
                     THEN Told(c, reqs[c].pair = view,
                               Claims(reqs[c].pair, view, flight[s].rows))
                     ELSE reqs[c]]
    BY <1>5 DEF RelationDone
  <2>2. view \in Pairs
    BY <2>1 DEF TypeOK, Flights
  <2>3. ASSUME NEW c \in Clients, reqs[c].stage = "wait"
        PROVE  Told(c, reqs[c].pair = view,
                    Claims(reqs[c].pair, view, flight[s].rows)) \in Requests
    <3>1. reqs[c].pair \in Pairs
      BY <2>3, ActiveFacts DEF Active
    <3>2. Claims(reqs[c].pair, view, flight[s].rows) \in SUBSET Pairs
      BY <2>2, <3>1, ClaimFacts
    <3>3. (reqs[c].pair = view) \in BOOLEAN
      OBVIOUS
    <3> QED
      BY <2>3, <3>2, <3>3, ToldType
  <2>4. reqs' \in [Clients -> Requests]
    BY <2>1, <2>3 DEF TypeOK
  <2>5. NoFlight \in Flights
    BY DEF NoFlight, Flights
  <2> QED
    BY <1>5, <2>4, <2>5 DEF RelationDone, TypeOK
<1>6. ASSUME NEW s \in Duos, RelationFail(s) PROVE TypeOK'
  <2>1. NoFlight \in Flights /\ Idle \in Requests
    BY DEF NoFlight, Flights, Requests
  <2> QED
    BY <1>6, <2>1, FaultType DEF RelationFail, TypeOK
<1> QED
  BY <1>1, <1>2, <1>3, <1>4, <1>5, <1>6 DEF Relation

LEMMA ListTypes ==
  ASSUME TypeOK,
         \/ \E k \in Keys : ListMiss(k) \/ ListLoad(k) \/ Expire(k)
         \/ \E k \in tasks : RunTask(k)
         \/ Crash
  PROVE  TypeOK'
<1> USE DEF db, history
<1>1. ASSUME NEW k \in Keys, ListMiss(k) PROVE TypeOK'
  <2>1. [load[k] EXCEPT !.stage = "missed"] \in Loads
    BY DEF TypeOK, Loads
  <2>2. faults' \in Nat
    BY <1>1, FaultType DEF ListMiss, TypeOK
  <2> QED
    BY <1>1, <2>1, <2>2 DEF ListMiss, TypeOK
<1>2. ASSUME NEW k \in Keys, ListRead(k) PROVE TypeOK'
  <2>1. PICK list \in Listed(Side(k, follows)) :
          load' = [load EXCEPT ![k] = [stage |-> "read", list |-> list]]
    BY <1>2 DEF ListRead
  <2>2. list \subseteq Pairs
    BY <2>1 DEF Listed, Side, TypeOK
  <2>3. [stage |-> "read", list |-> list] \in Loads
    BY <2>2 DEF Loads
  <2> QED
    BY <1>2, <2>1, <2>3 DEF ListRead, TypeOK
<1>3. ASSUME NEW k \in Keys, ListDone(k) PROVE TypeOK'
  <2>1. FillTask(k[1], load[k].list) \in Tasks
    BY DEF FillTask, Tasks, Keys, TypeOK, Loads
  <2>2. NoLoad \in Loads
    BY DEF NoLoad, Loads
  <2> QED
    BY <1>3, <2>1, <2>2 DEF ListDone, Submit, TypeOK
<1>4. ASSUME NEW k \in Keys, ListFail(k) PROVE TypeOK'
  <2>1. NoLoad \in Loads
    BY DEF NoLoad, Loads
  <2> QED
    BY <1>4, <2>1, FaultType DEF ListFail, TypeOK
<1>5. ASSUME NEW k \in Keys, Expire(k) PROVE TypeOK'
  BY <1>5 DEF Expire, TypeOK, Keys
<1>6. ASSUME NEW k \in tasks, RunTask(k) PROVE TypeOK'
  <2>1. k.pairs \subseteq Pairs /\ k.kind \in Kinds
    BY DEF TypeOK, Tasks
  <2>2. {p \in k.pairs : p \notin follows /\ ~Covered(p)} \subseteq Pairs
    BY <2>1
  <2>3. Lingering(k.pairs) => late' \subseteq Pairs
    BY <2>2 DEF Lingering, TypeOK
  <2>4. CASE RunAdd(k)
    <3>1. PICK p \in k.pairs : cached' = Added(p)
      BY <2>4 DEF RunAdd
    <3>2. cached' \in [Kinds -> SUBSET Pairs]
      BY <2>1, <3>1 DEF Added, TypeOK
    <3> QED
      BY <2>3, <2>4, <3>2 DEF RunAdd, TypeOK
  <2>5. CASE RunAddFail(k)
    BY <2>5, DroppedTypes, FaultType DEF RunAddFail, TypeOK
  <2>6. CASE RunFill(k)
    BY <2>1, <2>3, <2>6 DEF RunFill, TypeOK
  <2>7. CASE RunFillFail(k)
    BY <2>7, FaultType DEF RunFillFail, TypeOK
  <2> QED
    BY <1>6, <2>4, <2>5, <2>6, <2>7 DEF RunTask
<1>7. CASE Crash
  <2>1. lost' \in [Keys -> Nat]
    BY <1>7, OwingFinite DEF Crash, TypeOK
  <2>2. NoLoad \in Loads /\ NoFlight \in Flights /\ Idle \in Requests
    BY DEF NoLoad, Loads, NoFlight, Flights, Requests
  <2> QED
    BY <1>7, <2>1, <2>2, FaultType DEF Crash, TypeOK
<1> QED
  BY <1>1, <1>2, <1>3, <1>4, <1>5, <1>6, <1>7 DEF ListLoad

LEMMA ArriveTypes ==
  ASSUME TypeOK, NEW c \in Clients, NEW w \in Wanted, Arrive(c, w[1], w[2])
  PROVE  TypeOK'
<1> USE DEF db, history
<1>1. w[2] \in Pairs /\ w[1] \in {"follow", "unfollow", "relation"}
  BY FollowAssumption DEF Arrive, Kinds
<1>2. ASSUME NEW stage \in Stages
      PROVE  [Idle EXCEPT !.op = w[1], !.pair = w[2], !.stage = stage] \in Requests
  BY <1>1 DEF Idle, Requests
<1>3. [Idle EXCEPT !.op = w[1], !.pair = w[2],
                   !.stage = IF w[1] = "relation" THEN "ask" ELSE "begin"] \in Requests
  BY <1>2 DEF Stages
<1> QED
  BY <1>3 DEF Arrive, TypeOK

LEMMA TypeNext == TypeOK /\ [Next]_vars => TypeOK'
<1> SUFFICES ASSUME TypeOK, [Next]_vars PROVE TypeOK'
  OBVIOUS
<1>1. CASE UNCHANGED vars
  BY <1>1 DEF vars, TypeOK
<1>2. CASE \E c \in Clients : Refused(c)
  BY <1>1, <1>2 DEF Refused
<1>3. ASSUME NEW c \in Clients, Serve(c) PROVE TypeOK'
  BY <1>3, TransactionTypes, RelationTypes DEF Serve
<1> QED
  BY <1>1, <1>2, <1>3, ArriveTypes, RelationTypes, ListTypes DEF Next

(* Types are an invariant of the specification. *)
THEOREM TypeCorrect == Spec => []TypeOK
BY TypeInit, TypeNext, PTL DEF Spec

-----------------------------------------------------------------------------
(* Whatever may be cached or told later was inserted: the rows, what the   *)
(* loads and the shared queries have read, and what is to be committed.    *)
Known ==
  /\ NothingInvented
  /\ follows \subseteq inserted
  /\ \A k \in Keys : load[k].list \subseteq inserted
  /\ \A s \in Duos : flight[s].rows \subseteq inserted
  /\ \A c \in Clients, p \in Pairs : Inserting(c, p) => p \in inserted

LEMMA KnownInit == Init => Known
BY DEF Init, Known, NothingInvented, NoLoad, NoFlight, Idle, Inserting

(* A step that adds nothing but what was inserted keeps Known. *)
LEMMA KnownKept ==
  ASSUME Known, inserted \subseteq inserted',
         follows' \subseteq inserted',
         \A kind \in Kinds : cached'[kind] \subseteq inserted',
         \A k \in tasks' : k \in tasks \/ k.pairs \subseteq inserted',
         \A k \in Keys : load'[k] = load[k] \/ load'[k].list \subseteq inserted',
         \A s \in Duos : flight'[s] = flight[s] \/ flight'[s].rows \subseteq inserted',
         \A c \in Clients :
           \/ reqs'[c] = reqs[c]
           \/ /\ reqs'[c].own => reqs'[c].claims \subseteq inserted'
              /\ \A p \in Pairs : Inserting(c, p)' => p \in inserted'
  PROVE  Known'
<1>1. ASSUME NEW c \in Clients, NEW p \in Pairs, reqs'[c] = reqs[c], Inserting(c, p)'
      PROVE  Inserting(c, p)
  BY <1>1 DEF Inserting
<1> QED
  BY <1>1 DEF Known, NothingInvented

(* The same for a step of one client that only moves on or ends. *)
LEMMA KnownMoves ==
  ASSUME TypeOK, Known, NEW c \in Clients, NEW stage \in Stages, Goes(c, stage),
         reqs[c].stage # "free",
         inserted \subseteq inserted',
         reqs[c].op = "follow" /\ stage \in {"first", "second", "commit"}
           => reqs[c].pair \in inserted'
  PROVE  \A d \in Clients :
           \/ reqs'[d] = reqs[d]
           \/ /\ reqs'[d].own => reqs'[d].claims \subseteq inserted'
              /\ \A p \in Pairs : Inserting(d, p)' => p \in inserted'
<1>1. reqs[c] \in Active
  BY ActiveFacts
<1>2. /\ reqs'[c].own = reqs[c].own /\ reqs'[c].claims = reqs[c].claims
      /\ reqs'[c].op = reqs[c].op /\ reqs'[c].pair = reqs[c].pair
      /\ reqs'[c].stage = stage
  BY <1>1 DEF Goes, Active, TypeOK
<1>3. \A d \in Clients \ {c} : reqs'[d] = reqs[d]
  BY DEF Goes, TypeOK
<1>4. reqs'[c].own => reqs'[c].claims \subseteq inserted'
  BY <1>2 DEF Known, NothingInvented
<1>5. \A p \in Pairs : Inserting(c, p)' => p \in inserted'
  BY <1>2 DEF Inserting
<1> QED
  BY <1>3, <1>4, <1>5

LEMMA KnownEnds ==
  ASSUME TypeOK, NEW c \in Clients, Ends(c)
  PROVE  \A d \in Clients :
           \/ reqs'[d] = reqs[d]
           \/ /\ reqs'[d].own => reqs'[d].claims \subseteq inserted'
              /\ \A p \in Pairs : Inserting(d, p)' => p \in inserted'
<1>1. reqs'[c] = Idle /\ \A d \in Clients \ {c} : reqs'[d] = reqs[d]
  BY DEF Ends, TypeOK
<1>2. ~reqs'[c].own /\ \A p : ~Inserting(c, p)'
  BY <1>1 DEF Idle, Inserting
<1> QED
  BY <1>1, <1>2

LEMMA KnownTransaction ==
  ASSUME TypeOK, Known, NEW c \in Clients, Transaction(c)
  PROVE  Known'
<1> USE DEF db, history
<1>a. follows \subseteq inserted /\ \A kind \in Kinds : cached[kind] \subseteq inserted
  BY DEF Known, NothingInvented
<1>b. ASSUME reqs[c].stage # "free" PROVE reqs[c].pair \in Pairs
  BY <1>b, ActiveFacts DEF Active
<1>1. CASE Panic(c)
  BY <1>1, <1>a, KnownKept, KnownMoves DEF Panic, Stages
<1>2. CASE Begin(c)
  <2>1. PICK stage \in {"insert", "delete"} : Goes(c, stage)
    BY <1>2 DEF Begin
  <2> QED
    BY <1>2, <1>a, <2>1, KnownKept, KnownMoves DEF Begin, Stages
<1>3. CASE BeginFail(c)
  BY <1>3, <1>a, KnownKept, KnownEnds DEF BeginFail
<1>4. CASE Insert(c)
  <2>1. /\ reqs[c].pair \in inserted' /\ inserted \subseteq inserted'
        /\ Goes(c, "first") /\ reqs[c].stage # "free"
    BY <1>4 DEF Insert, At
  <2>2. AddTask(reqs[c].pair).pairs \subseteq inserted'
    BY <2>1 DEF AddTask
  <2>3. \A k \in tasks' : k \in tasks \/ k.pairs \subseteq inserted'
    BY <1>4, <2>2 DEF Insert, Submit
  <2>4. /\ follows' \subseteq inserted' /\ \A kind \in Kinds : cached'[kind] \subseteq inserted'
        /\ load' = load /\ flight' = flight
    BY <1>4, <1>a DEF Insert
  <2> QED
    BY <2>1, <2>3, <2>4, KnownKept, KnownMoves DEF Stages
<1>5. CASE InsertRefused(c)
  BY <1>5, <1>a, KnownKept, KnownEnds DEF InsertRefused
<1>6. CASE Delete(c)
  <2>1. reqs[c] \in Active /\ reqs[c].op = "unfollow"
    BY <1>6, ActiveFacts DEF Delete, At
  <2>2. /\ reqs'[c].own = reqs[c].own /\ reqs'[c].claims = reqs[c].claims
        /\ reqs'[c].stage = "drop"
        /\ \A d \in Clients \ {c} : reqs'[d] = reqs[d]
    BY <1>6, <2>1 DEF Delete, Active, TypeOK
  <2>3. \A p : ~Inserting(c, p)'
    BY <2>2 DEF Inserting
  <2>4. reqs'[c].own => reqs'[c].claims \subseteq inserted'
    BY <1>6, <2>2 DEF Delete, Known, NothingInvented
  <2> QED
    BY <1>6, <1>a, <2>2, <2>3, <2>4, KnownKept DEF Delete
<1>7. CASE Drop(c)
  <2>1. \A n, p : \A kind \in Kinds : Dropped(p, n)[kind] \subseteq inserted
    BY <1>a DEF Dropped
  <2>2. \A kind \in Kinds : cached'[kind] \subseteq inserted
    BY <1>7, <2>1 DEF Drop
  <2> QED
    BY <1>7, <1>a, <2>2, KnownKept, KnownMoves DEF Drop, At, Stages
<1>8. CASE First(c)
  <2>1. reqs[c].op = "follow" => Inserting(c, reqs[c].pair)
    BY <1>8 DEF First, Inserting
  <2> QED
    BY <1>8, <1>a, <1>b, <2>1, KnownKept, KnownMoves DEF First, Stages, Known
<1>9. CASE Second(c)
  <2>1. reqs[c].op = "follow" => Inserting(c, reqs[c].pair)
    BY <1>9 DEF Second, Inserting
  <2> QED
    BY <1>9, <1>a, <1>b, <2>1, KnownKept, KnownMoves DEF Second, Stages, Known
<1>10. CASE Commit(c)
  <2>1. reqs[c].op = "follow" => reqs[c].pair \in inserted
    BY <1>10, <1>b DEF Commit, Inserting, Known
  <2>2. follows' \subseteq inserted'
    BY <1>10, <1>a, <2>1 DEF Commit
  <2> QED
    BY <1>10, <1>a, <2>2, KnownKept, KnownEnds DEF Commit
<1>11. CASE Rollback(c)
  BY <1>11, <1>a, KnownKept, KnownEnds DEF Rollback
<1> QED
  BY <1>1, <1>2, <1>3, <1>4, <1>5, <1>6, <1>7, <1>8, <1>9, <1>10, <1>11
  DEF Transaction

LEMMA KnownRelation ==
  ASSUME TypeOK, Known,
         \/ \E c \in Clients : AskHit(c) \/ AskMiss(c) \/ Answer(c)
         \/ \E s \in Duos : Relation(s)
  PROVE  Known'
<1> USE DEF db, history
<1>a. follows \subseteq inserted /\ \A kind \in Kinds : cached[kind] \subseteq inserted
  BY DEF Known, NothingInvented
<1>b. NoFlight.rows = {}
  BY DEF NoFlight
<1>1. ASSUME NEW c \in Clients, AskHit(c) PROVE Known'
  <2>1. reqs[c] \in Active
    BY <1>1, ActiveFacts DEF AskHit
  <2>2. CacheSays(reqs[c].pair) \subseteq inserted
    BY <1>a, <2>1, SaysFacts DEF Active, Kinds
  <2>3. /\ reqs'[c].claims = CacheSays(reqs[c].pair) /\ reqs'[c].stage = "told"
        /\ \A d \in Clients \ {c} : reqs'[d] = reqs[d]
    BY <1>1, <2>1 DEF AskHit, Told, Active, TypeOK
  <2>4. \A p : ~Inserting(c, p)'
    BY <2>3 DEF Inserting
  <2> QED
    BY <1>1, <1>a, <2>2, <2>3, <2>4, KnownKept DEF AskHit
<1>2. ASSUME NEW c \in Clients, AskMiss(c) PROVE Known'
  <2>1. \A s \in Duos : flight'[s] = flight[s] \/ flight'[s].rows = {}
    BY <1>2, <1>b DEF AskMiss, NoFlight, TypeOK
  <2> QED
    BY <1>2, <1>a, <2>1, KnownKept, KnownMoves DEF AskMiss, Stages
<1>3. ASSUME NEW c \in Clients, Answer(c) PROVE Known'
  BY <1>3, <1>a, KnownKept, KnownEnds DEF Answer
<1>4. ASSUME NEW s \in Duos, RelationRead(s) PROVE Known'
  <2>1. \A z \in Duos : flight'[z] = flight[z] \/ flight'[z].rows \subseteq follows
    BY <1>4 DEF RelationRead, TypeOK, Flights
  <2> QED
    BY <1>4, <1>a, <2>1, KnownKept DEF RelationRead
<1>5. ASSUME NEW s \in Duos, RelationDone(s) PROVE Known'
  <2>1. PICK view \in flight[s].view :
          reqs' = [c \in Clients |->
                     IF reqs[c].stage = "wait" /\ SfKey(reqs[c].pair) = s
                     THEN Told(c, reqs[c].pair = view,
                               Claims(reqs[c].pair, view, flight[s].rows))
                     ELSE reqs[c]]
    BY <1>5 DEF RelationDone
  <2>2. view \in Pairs /\ flight[s].rows \subseteq inserted
    BY <2>1 DEF TypeOK, Flights, Known
  <2>3. ASSUME NEW c \in Clients, reqs[c].stage = "wait", SfKey(reqs[c].pair) = s
        PROVE  /\ reqs'[c].own => reqs'[c].claims \subseteq inserted
               /\ \A p \in Pairs : ~Inserting(c, p)'
    <3>1. reqs[c] \in Active
      BY <2>3, ActiveFacts
    <3>2. /\ reqs'[c].own = (reqs[c].pair = view) /\ reqs'[c].stage = "told"
          /\ reqs'[c].claims = Claims(reqs[c].pair, view, flight[s].rows)
      BY <2>1, <2>3, <3>1 DEF Told, Active
    <3>3. reqs[c].pair = view => Claims(reqs[c].pair, view, flight[s].rows) \subseteq inserted
      BY <2>2, ClaimFacts
    <3>4. reqs'[c].own => reqs[c].pair = view
      BY <3>2
    <3>5. reqs'[c].own => reqs'[c].claims \subseteq inserted
      BY <3>2, <3>3, <3>4
    <3>6. \A p \in Pairs : ~Inserting(c, p)'
      BY <3>2 DEF Inserting
    <3> QED
      BY <3>5, <3>6
  <2>4. \A z \in Duos : flight'[z] = flight[z] \/ flight'[z].rows = {}
    BY <1>5, <1>b DEF RelationDone, TypeOK
  <2>5. inserted' = inserted /\ follows' = follows /\ cached' = cached /\ tasks' = tasks
        /\ load' = load
    BY <1>5 DEF RelationDone
  <2>6. \A c \in Clients :
           \/ reqs'[c] = reqs[c]
           \/ /\ reqs'[c].own => reqs'[c].claims \subseteq inserted'
              /\ \A p \in Pairs : Inserting(c, p)' => p \in inserted'
    BY <2>1, <2>3, <2>5
  <2> QED
    BY <1>a, <2>4, <2>5, <2>6, KnownKept
<1>6. ASSUME NEW s \in Duos, RelationFail(s) PROVE Known'
  <2>1. \A z \in Duos : flight'[z] = flight[z] \/ flight'[z].rows = {}
    BY <1>6, <1>b DEF RelationFail, TypeOK
  <2>2. \A c \in Clients : reqs'[c] = reqs[c] \/ reqs'[c] = Idle
    BY <1>6 DEF RelationFail
  <2>3. \A c \in Clients : reqs'[c] = Idle => ~reqs'[c].own /\ \A p : ~Inserting(c, p)'
    BY DEF Idle, Inserting
  <2> QED
    BY <1>6, <1>a, <2>1, <2>2, <2>3, KnownKept DEF RelationFail
<1> QED
  BY <1>1, <1>2, <1>3, <1>4, <1>5, <1>6 DEF Relation

LEMMA KnownList ==
  ASSUME TypeOK, Known,
         \/ \E k \in Keys : ListMiss(k) \/ ListLoad(k) \/ Expire(k)
         \/ \E k \in tasks : RunTask(k)
         \/ Crash
  PROVE  Known'
<1> USE DEF db, history
<1>a. /\ follows \subseteq inserted /\ \A kind \in Kinds : cached[kind] \subseteq inserted
      /\ \A k \in Keys : load[k].list \subseteq inserted
      /\ \A k \in tasks : k.pairs \subseteq inserted
  BY DEF Known, NothingInvented
<1>b. NoLoad.list = {} /\ NoFlight.rows = {}
  BY DEF NoLoad, NoFlight
<1>1. ASSUME NEW k \in Keys, ListMiss(k) PROVE Known'
  <2>1. \A z \in Keys : load'[z].list \subseteq inserted
    BY <1>1, <1>a DEF ListMiss, TypeOK, Loads
  <2> QED
    BY <1>1, <1>a, <2>1, KnownKept DEF ListMiss
<1>2. ASSUME NEW k \in Keys, ListRead(k) PROVE Known'
  <2>1. PICK list \in Listed(Side(k, follows)) :
          load' = [load EXCEPT ![k] = [stage |-> "read", list |-> list]]
    BY <1>2 DEF ListRead
  <2>2. list \subseteq inserted
    BY <1>a, <2>1 DEF Listed, Side
  <2>3. \A z \in Keys : load'[z].list \subseteq inserted
    BY <1>a, <2>1, <2>2 DEF TypeOK
  <2> QED
    BY <1>2, <1>a, <2>3, KnownKept DEF ListRead
<1>3. ASSUME NEW k \in Keys, ListDone(k) PROVE Known'
  <2>1. FillTask(k[1], load[k].list).pairs \subseteq inserted
    BY <1>a DEF FillTask
  <2>2. \A z \in tasks' : z \in tasks \/ z.pairs \subseteq inserted
    BY <1>3, <2>1 DEF ListDone, Submit
  <2>3. \A z \in Keys : load'[z] = load[z] \/ load'[z].list \subseteq inserted
    BY <1>3, <1>b DEF ListDone, TypeOK
  <2> QED
    BY <1>3, <1>a, <2>2, <2>3, KnownKept DEF ListDone
<1>4. ASSUME NEW k \in Keys, ListFail(k) PROVE Known'
  <2>1. \A z \in Keys : load'[z] = load[z] \/ load'[z].list \subseteq inserted
    BY <1>4, <1>b DEF ListFail, TypeOK
  <2> QED
    BY <1>4, <1>a, <2>1, KnownKept DEF ListFail
<1>5. ASSUME NEW k \in Keys, Expire(k) PROVE Known'
  <2>1. \A kind \in Kinds : cached'[kind] \subseteq inserted
    BY <1>5, <1>a DEF Expire, TypeOK
  <2> QED
    BY <1>5, <1>a, <2>1, KnownKept DEF Expire
<1>6. ASSUME NEW k \in tasks, RunTask(k) PROVE Known'
  <2>1. /\ inserted' = inserted /\ follows' = follows /\ load' = load
        /\ flight' = flight /\ reqs' = reqs /\ tasks' \subseteq tasks
    BY <1>6 DEF RunTask, RunAdd, RunAddFail, RunFill, RunFillFail
  <2>2. \A kind \in Kinds : cached'[kind] \subseteq inserted
    <3>1. CASE RunAdd(k)
      BY <3>1, <1>a DEF RunAdd, Added
    <3>2. CASE RunAddFail(k)
      BY <3>2, <1>a DEF RunAddFail, Dropped
    <3>3. CASE RunFill(k)
      BY <3>3, <1>a DEF RunFill, TypeOK
    <3>4. CASE RunFillFail(k)
      BY <3>4, <1>a DEF RunFillFail
    <3> QED
      BY <1>6, <3>1, <3>2, <3>3, <3>4 DEF RunTask
  <2> QED
    BY <1>a, <2>1, <2>2, KnownKept
<1>7. CASE Crash
  <2>1. \A c \in Clients : ~reqs'[c].own /\ \A p : ~Inserting(c, p)'
    BY <1>7 DEF Crash, Idle, Inserting
  <2> QED
    BY <1>7, <1>a, <1>b, <2>1, KnownKept DEF Crash
<1> QED
  BY <1>1, <1>2, <1>3, <1>4, <1>5, <1>6, <1>7 DEF ListLoad

LEMMA KnownNext == TypeOK /\ Known /\ [Next]_vars => Known'
<1> SUFFICES ASSUME TypeOK, Known, [Next]_vars PROVE Known'
  OBVIOUS
<1>1. CASE UNCHANGED vars
  BY <1>1 DEF vars, Known, NothingInvented, Inserting
<1>2. CASE \E c \in Clients : Refused(c)
  BY <1>1, <1>2 DEF Refused
<1>3. ASSUME NEW c \in Clients, Serve(c) PROVE Known'
  BY <1>3, KnownTransaction, KnownRelation DEF Serve
<1>4. ASSUME NEW c \in Clients, NEW w \in Wanted, Arrive(c, w[1], w[2]) PROVE Known'
  <2>1. /\ reqs'[c] = [Idle EXCEPT !.op = w[1], !.pair = w[2],
                                   !.stage = IF w[1] = "relation" THEN "ask" ELSE "begin"]
        /\ \A d \in Clients \ {c} : reqs'[d] = reqs[d]
    BY <1>4 DEF Arrive, TypeOK
  <2>2. ~reqs'[c].own /\ \A p : ~Inserting(c, p)'
    BY <2>1 DEF Idle, Inserting
  <2> QED
    BY <1>4, <2>1, <2>2, KnownKept DEF Arrive, Known, NothingInvented, db, history
<1> QED
  BY <1>1, <1>2, <1>3, <1>4, KnownRelation, KnownList DEF Next

(* No relation is cached, or told to one who asked for it himself, that no *)
(* Follow has inserted.                                                    *)
THEOREM NothingIsInvented == Spec => []NothingInvented
<1>1. Init => TypeOK /\ Known
  BY TypeInit, KnownInit
<1>2. TypeOK /\ Known /\ [Next]_vars => (TypeOK /\ Known)'
  BY TypeNext, KnownNext
<1>3. Known => NothingInvented
  BY DEF Known
<1> QED
  BY <1>1, <1>2, <1>3, PTL DEF Spec

-----------------------------------------------------------------------------
(* A question that joined somebody else's is the reverse of it, since both *)
(* go by the same key; so what it is told is what was read, reversed.      *)
Viewed == \A s \in Duos : \A view \in flight[s].view : SfKey(view) = s

SwapInv == Viewed /\ SharedOnlySwapped

LEMMA SameDuo ==
  ASSUME NEW p \in Pairs, NEW q \in Pairs, SfKey(p) = SfKey(q), p # q
  PROVE  p = Reversed(q) /\ q = Reversed(p)
<1>1. p = <<p[1], p[2]>> /\ q = <<q[1], q[2]>> /\ {p[1], p[2]} = {q[1], q[2]}
      /\ p[1] # p[2] /\ q[1] # q[2]
  BY PairFacts DEF SfKey, Pairs
<1>2. p[1] = q[2] /\ p[2] = q[1]
  <2>1. p[1] = q[1] => p[2] = q[2]
    BY <1>1
  <2>2. p[1] # q[1]
    BY <1>1, <2>1
  <2> QED
    BY <1>1, <2>2
<1> QED
  BY <1>1, <1>2 DEF Reversed

LEMMA SwapKept ==
  ASSUME SwapInv, inserted \subseteq inserted',
         \A s \in Duos : flight'[s].view \subseteq flight[s].view,
         \A c \in Clients :
           \/ reqs'[c].own \/ reqs'[c].claims = {}
           \/ reqs'[c].own = reqs[c].own /\ reqs'[c].claims = reqs[c].claims
  PROVE  SwapInv'
BY DEF SwapInv, Viewed, SharedOnlySwapped

LEMMA SwapMoves ==
  ASSUME TypeOK, NEW c \in Clients, reqs[c].stage # "free",
         (\E stage : Goes(c, stage)) \/ Ends(c)
  PROVE  \A d \in Clients :
           \/ reqs'[d].claims = {}
           \/ reqs'[d].own = reqs[d].own /\ reqs'[d].claims = reqs[d].claims
<1>1. reqs[c] \in Active
  BY ActiveFacts
<1>2. CASE Ends(c)
  BY <1>2 DEF Ends, Idle, TypeOK
<1>3. ASSUME NEW stage, Goes(c, stage)
      PROVE  /\ reqs'[c].own = reqs[c].own /\ reqs'[c].claims = reqs[c].claims
             /\ \A d \in Clients \ {c} : reqs'[d] = reqs[d]
  BY <1>1, <1>3 DEF Goes, Active, TypeOK
<1> QED
  BY <1>2, <1>3

LEMMA SwapServe ==
  ASSUME TypeOK, SwapInv, NEW c \in Clients, Serve(c)
  PROVE  SwapInv'
<1> USE DEF db, history
<1>1. ASSUME reqs[c].stage # "free", (\E stage : Goes(c, stage)) \/ Ends(c),
             inserted \subseteq inserted', UNCHANGED flight
      PROVE  SwapInv'
  BY <1>1, SwapMoves, SwapKept
<1>2. CASE Panic(c) \/ Begin(c) \/ BeginFail(c) \/ Insert(c) \/ InsertRefused(c) \/ Drop(c)
  BY <1>1, <1>2 DEF Panic, Begin, BeginFail, Insert, InsertRefused, Drop, At
<1>3. CASE First(c) \/ Second(c) \/ Commit(c) \/ Rollback(c) \/ Answer(c)
  BY <1>1, <1>3 DEF First, Second, Commit, Rollback, InTx, Answer
<1>4. CASE Delete(c)
  <2>1. reqs[c] \in Active
    BY <1>4, ActiveFacts DEF Delete, At
  <2>2. /\ reqs'[c].own = reqs[c].own /\ reqs'[c].claims = reqs[c].claims
        /\ \A d \in Clients \ {c} : reqs'[d] = reqs[d]
    BY <1>4, <2>1 DEF Delete, Active, TypeOK
  <2> QED
    BY <1>4, <2>2, SwapKept DEF Delete
<1>5. CASE AskHit(c)
  <2>1. reqs[c] \in Active
    BY <1>5, ActiveFacts DEF AskHit
  <2>2. reqs'[c].own /\ \A d \in Clients \ {c} : reqs'[d] = reqs[d]
    BY <1>5, <2>1 DEF AskHit, Told, Active, TypeOK
  <2> QED
    BY <1>5, <2>2, SwapKept DEF AskHit
<1>6. CASE AskMiss(c)
  <2>1. reqs[c].stage = "ask" /\ Goes(c, "wait") /\ inserted' = inserted
    BY <1>6 DEF AskMiss
  <2>2. \A d \in Clients :
          \/ reqs'[d].claims = {}
          \/ reqs'[d].own = reqs[d].own /\ reqs'[d].claims = reqs[d].claims
    BY <2>1, SwapMoves
  <2>3. SharedOnlySwapped'
    BY <2>1, <2>2 DEF SwapInv, SharedOnlySwapped
  <2>4. \A s \in Duos : \/ flight'[s] = flight[s]
                        \/ s = SfKey(reqs[c].pair) /\ flight'[s].view = {reqs[c].pair}
    BY <1>6 DEF AskMiss, NoFlight, TypeOK
  <2> QED
    BY <2>3, <2>4 DEF SwapInv, Viewed
<1> QED
  BY <1>2, <1>3, <1>4, <1>5, <1>6 DEF Serve, Transaction

LEMMA SwapRelation ==
  ASSUME TypeOK, Known, SwapInv, NEW s \in Duos, Relation(s)
  PROVE  SwapInv'
<1> USE DEF db, history
<1>1. CASE RelationRead(s)
  <2>1. \A z \in Duos : flight'[z].view = flight[z].view
    BY <1>1 DEF RelationRead, TypeOK, Flights
  <2> QED
    BY <1>1, <2>1, SwapKept DEF RelationRead
<1>2. ASSUME flight' = [flight EXCEPT ![s] = NoFlight]
      PROVE  \A z \in Duos : flight'[z].view \subseteq flight[z].view
  BY <1>2 DEF NoFlight, TypeOK
<1>3. CASE RelationFail(s)
  <2>1. \A c \in Clients : reqs'[c] = reqs[c] \/ reqs'[c].claims = {}
    BY <1>3 DEF RelationFail, Idle
  <2> QED
    BY <1>2, <1>3, <2>1, SwapKept DEF RelationFail
<1>4. CASE RelationDone(s)
  <2>1. PICK view \in flight[s].view :
          reqs' = [c \in Clients |->
                     IF reqs[c].stage = "wait" /\ SfKey(reqs[c].pair) = s
                     THEN Told(c, reqs[c].pair = view,
                               Claims(reqs[c].pair, view, flight[s].rows))
                     ELSE reqs[c]]
    BY <1>4 DEF RelationDone
  <2>2. view \in Pairs /\ SfKey(view) = s /\ flight[s].rows \subseteq inserted
    BY <2>1 DEF TypeOK, Flights, Known, SwapInv, Viewed
  <2>3. /\ inserted' = inserted
        /\ \A z \in Duos : flight'[z].view \subseteq flight[z].view
    BY <1>2, <1>4 DEF RelationDone
  <2>4. ASSUME NEW c \in Clients, ~reqs'[c].own
        PROVE  {Reversed(p) : p \in reqs'[c].claims} \subseteq inserted
    <3>1. CASE reqs'[c] = reqs[c]
      BY <2>4, <3>1 DEF SwapInv, SharedOnlySwapped
    <3>2. CASE reqs'[c] # reqs[c]
      <4>1. /\ reqs[c].stage = "wait" /\ SfKey(reqs[c].pair) = s
            /\ reqs'[c] = Told(c, reqs[c].pair = view,
                               Claims(reqs[c].pair, view, flight[s].rows))
        BY <2>1, <3>2
      <4>2. reqs[c] \in Active
        BY <4>1, ActiveFacts
      <4>3. /\ reqs'[c].own = (reqs[c].pair = view) /\ reqs[c].pair \in Pairs
            /\ reqs'[c].claims = Claims(reqs[c].pair, view, flight[s].rows)
        BY <4>1, <4>2 DEF Told, Active
      <4>4. reqs[c].pair # view
        BY <2>4, <4>3
      <4>5. reqs[c].pair = Reversed(view) /\ view = Reversed(reqs[c].pair)
        BY <2>2, <4>1, <4>3, <4>4, SameDuo
      <4> QED
        BY <2>2, <4>3, <4>5 DEF Claims
    <3> QED
      BY <3>1, <3>2
  <2> QED
    BY <2>3, <2>4 DEF SwapInv, Viewed, SharedOnlySwapped
<1> QED
  BY <1>1, <1>3, <1>4 DEF Relation

LEMMA SwapNext == TypeOK /\ Known /\ SwapInv /\ [Next]_vars => SwapInv'
<1> SUFFICES ASSUME TypeOK, Known, SwapInv, [Next]_vars PROVE SwapInv'
  OBVIOUS
<1> USE DEF db, history
<1>1. ASSUME UNCHANGED <<inserted, flight, reqs>> PROVE SwapInv'
  BY <1>1, SwapKept
<1>2. CASE UNCHANGED vars \/ \E c \in Clients : Refused(c)
  BY <1>1, <1>2 DEF Refused, vars
<1>3. ASSUME NEW k \in Keys, ListMiss(k) \/ ListLoad(k) \/ Expire(k) PROVE SwapInv'
  BY <1>1, <1>3 DEF ListMiss, ListLoad, ListRead, ListDone, ListFail, Expire
<1>4. ASSUME NEW k \in tasks, RunTask(k) PROVE SwapInv'
  BY <1>1, <1>4 DEF RunTask, RunAdd, RunAddFail, RunFill, RunFillFail
<1>5. ASSUME NEW c \in Clients, NEW w \in Wanted, Arrive(c, w[1], w[2]) PROVE SwapInv'
  <2>1. reqs'[c].claims = {} /\ \A d \in Clients \ {c} : reqs'[d] = reqs[d]
    BY <1>5 DEF Arrive, Idle, TypeOK
  <2> QED
    BY <1>5, <2>1, SwapKept DEF Arrive
<1>6. CASE Crash
  BY <1>6, SwapKept DEF Crash, Idle, NoFlight
<1> QED
  BY <1>2, <1>3, <1>4, <1>5, <1>6, SwapServe, SwapRelation DEF Next

(* The most a shared answer gets wrong is the direction, whoever asks      *)
(* about whom and whatever is followed and unfollowed meanwhile.           *)
THEOREM SharedAreSwapped == Spec => []SharedOnlySwapped
<1>1. Init => TypeOK /\ Known /\ SwapInv
  <2>1. Init => SwapInv
    BY DEF Init, SwapInv, Viewed, SharedOnlySwapped, NoFlight, Idle
  <2> QED
    BY <2>1, TypeInit, KnownInit
<1>2. TypeOK /\ Known /\ SwapInv /\ [Next]_vars => (TypeOK /\ Known /\ SwapInv)'
  BY TypeNext, KnownNext, SwapNext
<1> QED
  BY <1>1, <1>2, PTL DEF Spec, SwapInv

-----------------------------------------------------------------------------
(* Why a cached relation may be without a row: c is about to commit the    *)
(* row, or to drop the lists.                                              *)
CoveredBy(c, p) ==
  Inserting(c, p) \/ (At(c, "unfollow", "drop") /\ reqs[c].pair = p)

(* A step keeps PhantomCovered if what it caches has a row or an excuse,   *)
(* and whoever loses his row or his excuse has another or is not cached.   *)
LEMMA PhantomKept ==
  ASSUME TypeOK, PhantomCovered,
         \A kind \in Kinds : \A p \in cached'[kind] :
           p \in cached[kind] \/ p \in follows' \cup late' \/ Covered(p)',
         \A p \in Pairs :
           /\ p \in follows \cup late => p \in follows' \cup late' \/ Covered(p)'
           /\ Covered(p) => \/ p \in follows' \cup late' \/ Covered(p)'
                            \/ \A kind \in Kinds : p \notin cached'[kind]
  PROVE  PhantomCovered'
<1> SUFFICES ASSUME NEW kind \in Kinds, NEW p \in cached'[kind], p \notin follows' \cup late'
             PROVE  Covered(p)'
  BY DEF PhantomCovered
<1>1. CASE p \notin cached[kind]
  BY <1>1
<1>2. CASE p \in cached[kind]
  <2>1. p \in Pairs
    BY <1>2 DEF TypeOK
  <2>2. p \in follows \cup late \/ Covered(p)
    BY <1>2 DEF PhantomCovered
  <2> QED
    BY <2>1, <2>2
<1> QED
  BY <1>1, <1>2

(* Only the requests that move can lose their excuse. *)
LEMMA CoveredKept ==
  ASSUME NEW p, Covered(p),
         \A c \in Clients :
           reqs'[c] = reqs[c] \/ (CoveredBy(c, p) => CoveredBy(c, p)')
  PROVE  Covered(p)'
<1>1. PICK c \in Clients : CoveredBy(c, p)
  BY DEF Covered, CoveredBy
<1>2. CoveredBy(c, p)'
  BY <1>1 DEF CoveredBy, Inserting, At
<1> QED
  BY <1>2 DEF Covered, CoveredBy

(* The step of a request that leaves the tables and the lists alone. *)
LEMMA PhantomQuiet ==
  ASSUME TypeOK, PhantomCovered, follows' = follows, late' = late,
         \A kind \in Kinds : cached'[kind] \subseteq cached[kind],
         \A c \in Clients :
           reqs'[c] = reqs[c] \/ \A p \in Pairs : CoveredBy(c, p) => CoveredBy(c, p)'
  PROVE  PhantomCovered'
BY PhantomKept, CoveredKept

(* The step of one request: what matters is what it covered itself. *)
LEMMA OwnStep ==
  ASSUME TypeOK, NEW c \in Clients, Ends(c) \/ \E stage : Goes(c, stage)
  PROVE  \A d \in Clients \ {c} : reqs'[d] = reqs[d]
BY DEF Ends, Goes, TypeOK

LEMMA OwnStage ==
  ASSUME TypeOK, NEW c \in Clients, NEW stage, Goes(c, stage), reqs[c].stage # "free"
  PROVE  /\ reqs'[c].stage = stage /\ reqs'[c].op = reqs[c].op
         /\ reqs'[c].pair = reqs[c].pair
<1>1. reqs[c] \in Active
  BY ActiveFacts
<1> QED
  BY <1>1 DEF Goes, Active, TypeOK

LEMMA NotCovering ==
  ASSUME NEW c \in Clients,
         reqs[c].stage \notin {"drop", "first", "second", "commit"}
  PROVE  \A p : ~CoveredBy(c, p)
BY DEF CoveredBy, Inserting, At

LEMMA PhantomTransaction ==
  ASSUME TypeOK, PhantomCovered, NEW c \in Clients, Transaction(c)
  PROVE  PhantomCovered'
<1> USE DEF db, history
<1>1. CASE Panic(c) \/ Begin(c) \/ BeginFail(c) \/ InsertRefused(c) \/ Insert(c)
  <2>1. \A p : ~CoveredBy(c, p)
    BY <1>1, NotCovering DEF Panic, Begin, BeginFail, InsertRefused, Insert, At
  <2>2. \A d \in Clients \ {c} : reqs'[d] = reqs[d]
    BY <1>1, OwnStep DEF Panic, Begin, BeginFail, InsertRefused, Insert
  <2>3. follows' = follows /\ late' = late /\ cached' = cached
    BY <1>1 DEF Panic, Begin, BeginFail, InsertRefused, Insert
  <2> QED
    BY <2>1, <2>2, <2>3, PhantomQuiet
<1>2. CASE First(c) \/ Second(c)
  <2>1. PICK stage \in {"second", "commit"} :
          Goes(c, stage) /\ reqs[c].stage \in {"first", "second"}
    BY <1>2 DEF First, Second
  <2>2. \A p : CoveredBy(c, p) => CoveredBy(c, p)'
    BY <2>1, OwnStage DEF CoveredBy, Inserting, At
  <2>3. \A d \in Clients \ {c} : reqs'[d] = reqs[d]
    BY <2>1, OwnStep
  <2>4. follows' = follows /\ late' = late /\ cached' = cached
    BY <1>2 DEF First, Second
  <2> QED
    BY <2>2, <2>3, <2>4, PhantomQuiet
<1>3. CASE Delete(c)
  <2>1. reqs[c] \in Active /\ reqs[c].op = "unfollow"
    BY <1>3, ActiveFacts DEF Delete, At
  <2>2. /\ reqs'[c].stage = "drop" /\ reqs'[c].op = "unfollow"
        /\ reqs'[c].pair = reqs[c].pair
        /\ \A d \in Clients \ {c} : reqs'[d] = reqs[d]
    BY <1>3, <2>1 DEF Delete, Active, TypeOK
  <2>3. \A p : p = reqs[c].pair => Covered(p)'
    BY <2>2 DEF Covered, At
  <2>4. \A p : ~CoveredBy(c, p)
    BY <1>3, NotCovering DEF Delete, At
  <2>5. \A p : Covered(p) => Covered(p)'
    BY <2>2, <2>4, CoveredKept
  <2>6. /\ late' = late /\ cached' = cached
        /\ \A p \in follows : p \in follows' \/ p = reqs[c].pair
    BY <1>3 DEF Delete
  <2> QED
    BY <2>3, <2>5, <2>6, PhantomKept
<1>4. CASE Drop(c)
  <2>1. /\ \A d \in Clients \ {c} : reqs'[d] = reqs[d]
        /\ \A p : CoveredBy(c, p) => p = reqs[c].pair
        /\ reqs[c].pair \in Pairs
    BY <1>4, OwnStep, ActiveFacts DEF Drop, At, CoveredBy, Inserting, Active
  <2>2. \A p : Covered(p) => p = reqs[c].pair \/ Covered(p)'
    BY <2>1, CoveredKept
  <2>3. follows' = follows /\ late \subseteq late'
    BY <1>4 DEF Drop
  <2>4. \A kind \in Kinds : cached'[kind] \subseteq cached[kind]
    BY <1>4 DEF Drop, Dropped
  <2>5. \/ reqs[c].pair \in late'
        \/ \A kind \in Kinds : reqs[c].pair \notin cached'[kind]
    <3>1. \A kind \in Kinds : reqs[c].pair \notin Dropped(reqs[c].pair, 2)[kind]
      BY <2>1 DEF Dropped, Side, KeyOf
    <3> QED
      BY <1>4, <3>1 DEF Drop
  <2> QED
    BY <2>2, <2>3, <2>4, <2>5, PhantomKept
<1>5. CASE Commit(c)
  <2>1. /\ \A d \in Clients \ {c} : reqs'[d] = reqs[d]
        /\ \A p : CoveredBy(c, p) => reqs[c].op = "follow" /\ p = reqs[c].pair
    BY <1>5, OwnStep DEF Commit, At, CoveredBy, Inserting
  <2>2. \A p : CoveredBy(c, p) => p \in follows'
    BY <1>5, <2>1 DEF Commit
  <2>3. \A p : Covered(p) => p \in follows' \/ Covered(p)'
    BY <2>1, <2>2, CoveredKept
  <2>4. follows \subseteq follows' /\ late' = late /\ cached' = cached
    BY <1>5 DEF Commit
  <2> QED
    BY <2>3, <2>4, PhantomKept
<1>6. CASE Rollback(c)
  <2>1. /\ \A d \in Clients \ {c} : reqs'[d] = reqs[d]
        /\ \A p : CoveredBy(c, p) => p \in late'
    BY <1>6, OwnStep DEF Rollback, At, CoveredBy, Inserting
  <2>2. \A p : Covered(p) => p \in late' \/ Covered(p)'
    BY <2>1, CoveredKept
  <2>3. follows' = follows /\ late \subseteq late' /\ cached' = cached
    BY <1>6 DEF Rollback
  <2> QED
    BY <2>2, <2>3, PhantomKept
<1> QED
  BY <1>1, <1>2, <1>3, <1>4, <1>5, <1>6 DEF Transaction

LEMMA PhantomRelation ==
  ASSUME TypeOK, PhantomCovered,
         \/ \E c \in Clients : AskHit(c) \/ AskMiss(c) \/ Answer(c)
         \/ \E s \in Duos : Relation(s)
  PROVE  PhantomCovered'
<1> USE DEF db, history
<1>1. follows' = follows /\ late' = late /\ cached' = cached
  BY DEF AskHit, AskMiss, Answer, Relation, RelationRead, RelationDone, RelationFail
<1>2. \A c \in Clients :
        reqs'[c] = reqs[c] \/ reqs[c].stage \in {"ask", "wait", "told", "panicked"}
  <2>1. ASSUME NEW c \in Clients, AskHit(c) \/ AskMiss(c) \/ Answer(c)
        PROVE  /\ \A d \in Clients \ {c} : reqs'[d] = reqs[d]
               /\ reqs[c].stage \in {"ask", "told", "panicked"}
    BY <2>1, OwnStep DEF AskHit, AskMiss, Answer, TypeOK
  <2>2. ASSUME NEW s \in Duos, Relation(s), NEW c \in Clients
        PROVE  reqs'[c] = reqs[c] \/ reqs[c].stage = "wait"
    BY <2>2 DEF Relation, RelationRead, RelationDone, RelationFail
  <2> QED
    BY <2>1, <2>2
<1>3. \A c \in Clients :
        reqs'[c] = reqs[c] \/ \A p \in Pairs : CoveredBy(c, p) => CoveredBy(c, p)'
  BY <1>2, NotCovering
<1> QED
  BY <1>1, <1>3, PhantomQuiet

LEMMA PhantomList ==
  ASSUME TypeOK, PhantomCovered,
         \/ \E k \in Keys : ListMiss(k) \/ ListLoad(k) \/ Expire(k)
         \/ \E k \in tasks : RunTask(k)
         \/ Crash
  PROVE  PhantomCovered'
<1> USE DEF db, history
<1>1. ASSUME NEW k \in Keys, ListMiss(k) \/ ListLoad(k) \/ Expire(k) PROVE PhantomCovered'
  <2>1. follows' = follows /\ late' = late /\ reqs' = reqs
    BY <1>1 DEF ListMiss, ListLoad, ListRead, ListDone, ListFail, Expire
  <2>2. \A kind \in Kinds : cached'[kind] \subseteq cached[kind]
    BY <1>1 DEF ListMiss, ListLoad, ListRead, ListDone, ListFail, Expire, TypeOK
  <2> QED
    BY <2>1, <2>2, PhantomQuiet
<1>2. ASSUME NEW k \in tasks, RunTask(k) PROVE PhantomCovered'
  <2>1. follows' = follows /\ reqs' = reqs
    BY <1>2 DEF RunTask, RunAdd, RunAddFail, RunFill, RunFillFail
  <2>2. CASE RunAdd(k) \/ RunFill(k)
    <3>1. /\ late \subseteq late'
          /\ \A p \in k.pairs : p \in follows \cup late' \/ Covered(p)
      BY <2>2 DEF RunAdd, RunFill, Lingering
    <3>2. \A kind \in Kinds : cached'[kind] \subseteq cached[kind] \cup k.pairs
      BY <2>2 DEF RunAdd, RunFill, Added, TypeOK
    <3>3. \A p : Covered(p) => Covered(p)'
      BY <2>1, CoveredKept
    <3> QED
      BY <2>1, <3>1, <3>2, <3>3, PhantomKept
  <2>3. CASE RunAddFail(k) \/ RunFillFail(k)
    <3>1. late' = late /\ \A kind \in Kinds : cached'[kind] \subseteq cached[kind]
      BY <2>3 DEF RunAddFail, RunFillFail, Dropped
    <3> QED
      BY <2>1, <3>1, PhantomQuiet
  <2> QED
    BY <1>2, <2>2, <2>3 DEF RunTask
<1>3. CASE Crash
  <2>1. /\ follows' = follows /\ late \subseteq late' /\ cached' = cached
        /\ \A p \in Pairs : Covered(p) => p \in late'
    BY <1>3 DEF Crash
  <2> QED
    BY <2>1, PhantomKept
<1> QED
  BY <1>1, <1>2, <1>3

LEMMA PhantomNext == TypeOK /\ PhantomCovered /\ [Next]_vars => PhantomCovered'
<1> SUFFICES ASSUME TypeOK, PhantomCovered, [Next]_vars PROVE PhantomCovered'
  OBVIOUS
<1>1. CASE UNCHANGED vars
  BY <1>1, PhantomQuiet DEF vars
<1>2. CASE \E c \in Clients : Refused(c)
  BY <1>1, <1>2 DEF Refused
<1>3. ASSUME NEW c \in Clients, Serve(c) PROVE PhantomCovered'
  BY <1>3, PhantomTransaction, PhantomRelation DEF Serve
<1>4. ASSUME NEW c \in Clients, NEW w \in Wanted, Arrive(c, w[1], w[2]) PROVE PhantomCovered'
  <2>1. /\ \A d \in Clients \ {c} : reqs'[d] = reqs[d]
        /\ reqs[c].stage = "free"
        /\ follows' = follows /\ late' = late /\ cached' = cached
    BY <1>4 DEF Arrive, Idle, TypeOK, db, history
  <2>2. \A p : ~CoveredBy(c, p)
    BY <2>1, NotCovering
  <2> QED
    BY <2>1, <2>2, PhantomQuiet
<1> QED
  BY <1>1, <1>2, <1>3, <1>4, PhantomRelation, PhantomList DEF Next

(* A cached relation without a row is about to get one or to be dropped,   *)
(* unless a rollback, a failure or a late cache write left it.             *)
THEOREM PhantomsCovered == Spec => []PhantomCovered
<1>1. Init => TypeOK /\ PhantomCovered
  BY TypeInit DEF Init, PhantomCovered
<1>2. TypeOK /\ PhantomCovered /\ [Next]_vars => (TypeOK /\ PhantomCovered)'
  BY TypeNext, PhantomNext
<1> QED
  BY <1>1, <1>2, PTL DEF Spec

-----------------------------------------------------------------------------
(* The counts.  Two facts about the transactions carry the argument: one   *)
(* whose DELETE removed a row is between that and its end, and a relation  *)
(* has no row while some transaction, the only one, inserts it.            *)

HitsOwed ==
  \A c \in Clients : reqs[c].hit =>
    /\ reqs[c].op = "unfollow"
    /\ reqs[c].stage \in {"drop", "first", "second", "commit"}

OneInserts ==
  \A c \in Clients, p \in Pairs : Inserting(c, p) =>
    p \notin follows /\ \A d \in Clients : Inserting(d, p) => d = c

(* A question is never in a transaction. *)
NoQuestion ==
  \A c \in Clients : reqs[c].op = "relation" => reqs[c].stage \in {"ask", "wait", "told"}

CountInv == HitsOwed /\ OneInserts /\ NoQuestion /\ CountsExplained

Rows(k) == Cardinality(Side(k, follows))
Owed(k) == Cardinality(Owing(k))

LEMMA KeyFacts ==
  ASSUME NEW p \in Pairs, NEW k \in Keys
  PROVE  k \in KeysOf(p) <=> KeyOf(k[1], p) = k
<1>1. PICK kind \in Kinds, u \in Users : k = <<kind, u>>
  BY DEF Keys
<1>2. k[1] = kind
  BY <1>1
<1>3. \A other \in Kinds : KeyOf(other, p) = k => other = kind
  BY <1>1 DEF KeyOf, Kinds
<1> QED
  BY <1>2, <1>3 DEF KeysOf

LEMMA SideFinite ==
  ASSUME NEW S \in SUBSET Pairs, NEW k
  PROVE  IsFiniteSet(Side(k, S)) /\ Cardinality(Side(k, S)) \in Nat
<1>1. IsFiniteSet(Users \X Users)
  BY FS_Product, FollowAssumption
<1>2. Side(k, S) \in SUBSET (Users \X Users)
  BY DEF Side, Pairs
<1>3. IsFiniteSet(Side(k, S))
  BY <1>1, <1>2, FS_Subset
<1> QED
  BY <1>3, FS_CardinalityType

(* One relation more is one row more for its two lists. *)
LEMMA SideAdd ==
  ASSUME NEW S \in SUBSET Pairs, NEW p \in Pairs, p \notin S, NEW k \in Keys
  PROVE  Cardinality(Side(k, S \cup {p})) =
           Cardinality(Side(k, S)) + (IF k \in KeysOf(p) THEN 1 ELSE 0)
<1>1. IsFiniteSet(Side(k, S)) /\ Cardinality(Side(k, S)) \in Nat
  BY SideFinite
<1>2. CASE k \in KeysOf(p)
  <2>1. Side(k, S \cup {p}) = Side(k, S) \cup {p} /\ p \notin Side(k, S)
    BY <1>2, KeyFacts DEF Side
  <2>2. Cardinality(Side(k, S) \cup {p}) = Cardinality(Side(k, S)) + 1
    BY <1>1, <2>1, FS_AddElement
  <2> QED
    BY <1>2, <2>1, <2>2
<1>3. CASE k \notin KeysOf(p)
  <2>1. Side(k, S \cup {p}) = Side(k, S)
    BY <1>3, KeyFacts DEF Side
  <2> QED
    BY <1>1, <1>3, <2>1
<1> QED
  BY <1>2, <1>3

LEMMA SideRemove ==
  ASSUME NEW S \in SUBSET Pairs, NEW p \in S, NEW k \in Keys
  PROVE  Cardinality(Side(k, S)) =
           Cardinality(Side(k, S \ {p})) + (IF k \in KeysOf(p) THEN 1 ELSE 0)
<1>1. (S \ {p}) \in SUBSET Pairs /\ p \in Pairs /\ p \notin S \ {p}
      /\ (S \ {p}) \cup {p} = S
  OBVIOUS
<1> QED
  BY <1>1, SideAdd

LEMMA CountTypes ==
  ASSUME TypeOK, NEW k \in Keys
  PROVE  /\ count[k] \in Nat /\ lost[k] \in Nat /\ spurious[k] \in Nat
         /\ Rows(k) \in Nat /\ Owed(k) \in Nat /\ IsFiniteSet(Owing(k))
BY SideFinite, OwingFinite DEF TypeOK, Rows, Owed

(* What CountsExplained says of one counter. *)
Explained(k) ==
  /\ count[k] <= Rows(k) + Owed(k) + lost[k]
  /\ Rows(k) + Owed(k) <= count[k] + spurious[k]

LEMMA CountsAsExplained == CountsExplained <=> \A k \in Keys : Explained(k)
BY DEF CountsExplained, Explained, Rows, Owed

(* A request that goes on, or begins or ends, without touching what counts. *)
Aside(c) ==
  /\ reqs'[c].hit => reqs[c].hit
  /\ reqs[c].hit =>
       /\ reqs'[c].hit /\ reqs'[c].pair = reqs[c].pair /\ reqs'[c].op = reqs[c].op
       /\ reqs'[c].stage \in {"drop", "first", "second", "commit"}
  /\ \A p \in Pairs : Inserting(c, p)' => Inserting(c, p)
  /\ reqs'[c].op = "relation" => reqs'[c].stage \in {"ask", "wait", "told"}

LEMMA AsideSame ==
  ASSUME HitsOwed, NoQuestion, NEW c \in Clients, reqs'[c] = reqs[c]
  PROVE  Aside(c)
BY DEF Aside, HitsOwed, NoQuestion, Inserting

LEMMA AsideIdle ==
  ASSUME NEW c \in Clients, ~reqs[c].hit, reqs'[c] = Idle
  PROVE  Aside(c)
BY DEF Aside, Idle, Inserting

LEMMA CountQuiet ==
  ASSUME CountInv, UNCHANGED <<follows, count, lost, spurious>>,
         \A c \in Clients : Aside(c)
  PROVE  CountInv'
<1>1. HitsOwed'
  BY DEF CountInv, HitsOwed, Aside
<1>2. OneInserts'
  BY DEF CountInv, OneInserts, Aside
<1>3. NoQuestion'
  BY DEF NoQuestion, Aside
<1>4. ASSUME NEW k PROVE Owing(k)' = Owing(k)
  BY DEF Owing, Aside
<1>5. CountsExplained'
  BY <1>4 DEF CountInv, CountsExplained
<1> QED
  BY <1>1, <1>2, <1>3, <1>5 DEF CountInv

(* One client moves on from a stage to the next. *)
LEMMA CountMoves ==
  ASSUME TypeOK, CountInv, NEW c \in Clients, NEW stage \in Stages, Goes(c, stage),
         reqs[c].stage # "free",
         reqs[c].hit => stage \in {"drop", "first", "second", "commit"},
         reqs[c].op = "follow" /\ stage \in {"first", "second", "commit"}
           => reqs[c].stage \in {"first", "second", "commit"},
         reqs[c].op = "relation" => stage \in {"ask", "wait", "told"},
         UNCHANGED <<follows, count, lost, spurious>>
  PROVE  CountInv'
<1>1. reqs[c] \in Active
  BY ActiveFacts
<1>2. /\ reqs'[c].hit = reqs[c].hit /\ reqs'[c].op = reqs[c].op
      /\ reqs'[c].pair = reqs[c].pair /\ reqs'[c].stage = stage
  BY <1>1 DEF Goes, Active, TypeOK
<1>3. Aside(c)
  BY <1>2 DEF Aside, Inserting
<1>4. \A d \in Clients \ {c} : reqs'[d] = reqs[d]
  BY DEF Goes, TypeOK
<1> QED
  BY <1>3, <1>4, AsideSame, CountQuiet DEF CountInv

(* One client's request ends that owes nothing. *)
LEMMA CountEnds ==
  ASSUME TypeOK, CountInv, NEW c \in Clients, Ends(c), ~reqs[c].hit,
         UNCHANGED <<follows, count, lost, spurious>>
  PROVE  CountInv'
<1>1. reqs'[c] = Idle /\ \A d \in Clients \ {c} : reqs'[d] = reqs[d]
  BY DEF Ends, TypeOK
<1> QED
  BY <1>1, AsideIdle, AsideSame, CountQuiet DEF CountInv

(* The end of a request that owes: one less to come for its two lists. *)
LEMMA OwedPaid ==
  ASSUME TypeOK, NEW c \in Clients, Ends(c), NEW k \in Keys
  PROVE  /\ Owed(k)' \in Nat
         /\ Owed(k) = Owed(k)' + (IF c \in Owing(k) THEN 1 ELSE 0)
<1>1. Owing(k)' = Owing(k) \ {c}
  BY DEF Owing, Ends, Idle, TypeOK
<1>2. IsFiniteSet(Owing(k)) /\ Cardinality(Owing(k)) \in Nat
  BY OwingFinite
<1>3. /\ IsFiniteSet(Owing(k) \ {c})
      /\ Cardinality(Owing(k) \ {c}) =
           IF c \in Owing(k) THEN Cardinality(Owing(k)) - 1 ELSE Cardinality(Owing(k))
  BY <1>2, FS_RemoveElement
<1>4. Cardinality(Owing(k) \ {c}) \in Nat
  BY <1>3, FS_CardinalityType
<1> QED
  BY <1>1, <1>2, <1>3, <1>4 DEF Owed

LEMMA CountInsert ==
  ASSUME TypeOK, CountInv, NEW c \in Clients, Insert(c)
  PROVE  CountInv'
<1> USE DEF db, history
<1>1. reqs[c] \in Active /\ reqs[c].op = "follow" /\ reqs[c].stage = "insert"
  BY ActiveFacts DEF Insert, At
<1>2. /\ reqs'[c].hit = reqs[c].hit /\ reqs'[c].op = "follow"
      /\ reqs'[c].pair = reqs[c].pair /\ reqs'[c].stage = "first"
      /\ \A d \in Clients \ {c} : reqs'[d] = reqs[d]
  BY <1>1 DEF Insert, Goes, Active, TypeOK
<1>3. ~reqs[c].hit /\ UNCHANGED <<follows, count, lost, spurious>>
  BY <1>1 DEF CountInv, HitsOwed, Insert
<1>4. /\ reqs[c].pair \notin follows
      /\ \A d \in Clients \ {c} : ~Inserting(d, reqs[c].pair)
  BY DEF Insert, Blockers
<1>5. HitsOwed'
  BY <1>2, <1>3 DEF CountInv, HitsOwed
<1>6. OneInserts'
  <2>1. \A d \in Clients, p \in Pairs : Inserting(d, p)' =>
          (d = c /\ p = reqs[c].pair) \/ (d # c /\ Inserting(d, p))
    BY <1>2 DEF Inserting
  <2> QED
    BY <1>3, <1>4, <2>1 DEF CountInv, OneInserts
<1>7. ASSUME NEW k PROVE Owing(k)' = Owing(k)
  BY <1>2, <1>3 DEF Owing
<1>8. CountsExplained'
  BY <1>3, <1>7 DEF CountInv, CountsExplained
<1>9. NoQuestion'
  BY <1>2 DEF CountInv, NoQuestion
<1> QED
  BY <1>5, <1>6, <1>8, <1>9 DEF CountInv

LEMMA CountDelete ==
  ASSUME TypeOK, CountInv, NEW c \in Clients, Delete(c)
  PROVE  CountInv'
<1> USE DEF db, history
<1> DEFINE p == reqs[c].pair
<1>1. reqs[c] \in Active /\ reqs[c].op = "unfollow" /\ reqs[c].stage = "delete"
  BY ActiveFacts DEF Delete, At
<1>2. /\ reqs'[c].hit = (p \in follows) /\ reqs'[c].op = "unfollow"
      /\ reqs'[c].pair = p /\ reqs'[c].stage = "drop"
      /\ \A d \in Clients \ {c} : reqs'[d] = reqs[d]
  BY <1>1 DEF Delete, Active, TypeOK
<1>3. /\ ~reqs[c].hit /\ p \in Pairs
      /\ follows' = follows \ {p} /\ UNCHANGED <<count, lost, spurious>>
  BY <1>1 DEF CountInv, HitsOwed, Delete, Active
<1>4. HitsOwed'
  BY <1>2 DEF CountInv, HitsOwed
<1>5. OneInserts'
  <2>1. \A d \in Clients, q \in Pairs : Inserting(d, q)' => Inserting(d, q)
    BY <1>2 DEF Inserting
  <2> QED
    BY <1>3, <2>1 DEF CountInv, OneInserts
<1>6. ASSUME NEW k \in Keys PROVE Explained(k)'
  <2>1. Explained(k)
    BY CountsAsExplained DEF CountInv
  <2>2. CASE p \in follows
    <3>1. Owing(k)' = Owing(k) \cup (IF k \in KeysOf(p) THEN {c} ELSE {})
      BY <1>2, <1>3, <2>2 DEF Owing
    <3>2. c \notin Owing(k)
      BY <1>3 DEF Owing
    <3>3. Owed(k)' = Owed(k) + (IF k \in KeysOf(p) THEN 1 ELSE 0)
      <4>1. CASE k \in KeysOf(p)
        <5>1. Cardinality(Owing(k) \cup {c}) = Cardinality(Owing(k)) + 1
          BY <3>2, OwingFinite, FS_AddElement
        <5> QED
          BY <3>1, <4>1, <5>1 DEF Owed
      <4>2. CASE k \notin KeysOf(p)
        BY <3>1, <4>2, CountTypes DEF Owed
      <4> QED
        BY <4>1, <4>2
    <3>4. Rows(k) = Rows(k)' + (IF k \in KeysOf(p) THEN 1 ELSE 0)
      BY <1>3, <2>2, SideRemove DEF TypeOK, Rows
    <3>5. Rows(k)' \in Nat
      BY <1>3, SideFinite DEF TypeOK, Rows
    <3>6. Rows(k)' + Owed(k)' = Rows(k) + Owed(k)
      BY <3>3, <3>4, <3>5, CountTypes
    <3>7. Explained(k)' <=> /\ count[k] <= (Rows(k)' + Owed(k)') + lost[k]
                            /\ Rows(k)' + Owed(k)' <= count[k] + spurious[k]
      BY <1>3 DEF Explained
    <3> QED
      BY <2>1, <3>6, <3>7 DEF Explained
  <2>3. CASE p \notin follows
    <3>1. Owing(k)' = Owing(k)
      BY <1>2, <1>3, <2>3 DEF Owing
    <3>2. follows' = follows
      BY <1>3, <2>3
    <3> QED
      BY <1>3, <2>1, <3>1, <3>2 DEF Explained, Rows, Owed
  <2> QED
    BY <2>2, <2>3
<1>7. CountsExplained'
  BY <1>6 DEF CountsExplained, Explained, Rows, Owed
<1>8. NoQuestion'
  BY <1>2 DEF CountInv, NoQuestion
<1> QED
  BY <1>4, <1>5, <1>7, <1>8 DEF CountInv

LEMMA CountCommit ==
  ASSUME TypeOK, CountInv, NEW c \in Clients, Commit(c)
  PROVE  CountInv'
<1> USE DEF db, history
<1> DEFINE p == reqs[c].pair
           due(k) == IF k \in KeysOf(p) THEN 1 ELSE 0
<1>1. /\ reqs[c] \in Active /\ p \in Pairs /\ reqs[c].stage = "commit" /\ Ends(c)
      /\ UNCHANGED lost
  BY ActiveFacts DEF Commit, Active
<1>2. reqs'[c] = Idle /\ \A d \in Clients \ {c} : reqs'[d] = reqs[d]
  BY <1>1 DEF Ends, TypeOK
<1>3. HitsOwed' /\ NoQuestion'
  BY <1>2 DEF CountInv, HitsOwed, NoQuestion, Idle
<1>4. \A d \in Clients, q \in Pairs : Inserting(d, q)' => d # c /\ Inserting(d, q)
  BY <1>2 DEF Inserting, Idle
<1>5. ASSUME NEW k \in Keys
      PROVE  /\ Explained(k) /\ due(k) \in {0, 1}
             /\ Owed(k)' \in Nat
             /\ Owed(k) = Owed(k)' + (IF reqs[c].hit THEN due(k) ELSE 0)
             /\ count'[k] = IF due(k) = 1 THEN Adjusted(reqs[c].op, count[k]) ELSE count[k]
  <2>1. Explained(k)
    BY CountsAsExplained DEF CountInv
  <2>2. c \in Owing(k) <=> reqs[c].hit /\ k \in KeysOf(p)
    BY DEF Owing
  <2>3. /\ Owed(k)' \in Nat
        /\ Owed(k) = Owed(k)' + (IF c \in Owing(k) THEN 1 ELSE 0)
    BY <1>1, OwedPaid
  <2>4. count'[k] = IF k \in KeysOf(p) THEN Adjusted(reqs[c].op, count[k]) ELSE count[k]
    BY DEF Commit
  <2> QED
    BY <2>1, <2>2, <2>3, <2>4
<1>6. CASE reqs[c].op = "follow"
  <2>1. Inserting(c, p) /\ ~reqs[c].hit
    BY <1>1, <1>6 DEF Inserting, CountInv, HitsOwed
  <2>2. /\ p \notin follows /\ follows' = follows \cup {p} /\ spurious' = spurious
    BY <1>1, <1>6, <2>1 DEF Commit, CountInv, OneInserts
  <2>3. OneInserts'
    BY <1>1, <1>4, <2>1, <2>2 DEF CountInv, OneInserts
  <2>4. ASSUME NEW k \in Keys PROVE Explained(k)'
    <3>1. Rows(k)' = Rows(k) + due(k)
      BY <1>1, <2>2, SideAdd DEF TypeOK, Rows
    <3>2. Owed(k)' = Owed(k) /\ count'[k] = count[k] + due(k)
      <4>1. count'[k] = IF due(k) = 1 THEN count[k] + 1 ELSE count[k]
        BY <1>5, <1>6 DEF Adjusted
      <4> QED
        BY <1>5, <2>1, <4>1, CountTypes
    <3> HIDE DEF due
    <3>3. /\ due(k) \in {0, 1} /\ lost'[k] = lost[k] /\ spurious'[k] = spurious[k]
          /\ Explained(k)
      BY <1>1, <1>5, <2>2
    <3> QED
      BY <3>1, <3>2, <3>3, CountTypes DEF Explained
  <2>5. CountsExplained'
    BY <2>4 DEF CountsExplained, Explained, Rows, Owed
  <2> QED
    BY <1>3, <2>3, <2>5 DEF CountInv
<1>7. CASE reqs[c].op = "unfollow"
  <2>1. /\ follows' = follows
        /\ spurious' = IF reqs[c].hit THEN spurious ELSE Plus(spurious, KeysOf(p))
    BY <1>7 DEF Commit
  <2>2. OneInserts'
    BY <1>4, <2>1 DEF CountInv, OneInserts
  <2>3. ASSUME NEW k \in Keys PROVE Explained(k)'
    <3>1. Rows(k)' = Rows(k) /\ lost'[k] = lost[k]
      BY <1>1, <2>1 DEF Rows
    <3>2. spurious'[k] = IF reqs[c].hit THEN spurious[k] ELSE spurious[k] + due(k)
      BY <2>1, CountTypes DEF Plus
    <3>3. /\ count'[k] \in Nat /\ count'[k] <= count[k]
          /\ count[k] <= count'[k] + due(k)
          /\ count[k] = 0 \/ count[k] = count'[k] + due(k)
      BY <1>5, <1>7, CountTypes DEF Adjusted
    <3>4. /\ due(k) \in {0, 1} /\ Explained(k) /\ Owed(k)' \in Nat
          /\ Owed(k) = Owed(k)' + (IF reqs[c].hit THEN due(k) ELSE 0)
      BY <1>5
    <3> HIDE DEF due
    <3>5. /\ count[k] \in Nat /\ lost[k] \in Nat /\ spurious[k] \in Nat
          /\ Rows(k) \in Nat /\ Owed(k) \in Nat
      BY CountTypes
    <3>6. Explained(k)' <=> /\ count'[k] <= Rows(k) + Owed(k)' + lost[k]
                            /\ Rows(k) + Owed(k)' <= count'[k] + spurious'[k]
      BY <3>1 DEF Explained
    <3>7. CASE reqs[c].hit
      BY <3>2, <3>3, <3>4, <3>5, <3>6, <3>7 DEF Explained
    <3>8. CASE ~reqs[c].hit
      BY <3>2, <3>3, <3>4, <3>5, <3>6, <3>8 DEF Explained
    <3> QED
      BY <3>7, <3>8
  <2>4. CountsExplained'
    BY <2>3 DEF CountsExplained, Explained, Rows, Owed
  <2> QED
    BY <1>3, <2>2, <2>4 DEF CountInv
<1>8. reqs[c].op # "relation"
  BY <1>1 DEF CountInv, NoQuestion
<1> QED
  BY <1>1, <1>6, <1>7, <1>8 DEF Active

LEMMA CountRollback ==
  ASSUME TypeOK, CountInv, NEW c \in Clients, Rollback(c)
  PROVE  CountInv'
<1> USE DEF db, history
<1>1. CASE ~reqs[c].hit
  BY <1>1, CountEnds DEF Rollback
<1>2. CASE reqs[c].hit
  <2> DEFINE due(k) == IF k \in KeysOf(reqs[c].pair) THEN 1 ELSE 0
  <2>1. /\ Ends(c) /\ UNCHANGED <<follows, count, spurious>>
        /\ lost' = Plus(lost, KeysOf(reqs[c].pair))
    BY <1>2 DEF Rollback
  <2>2. reqs'[c] = Idle /\ \A d \in Clients \ {c} : reqs'[d] = reqs[d]
    BY <2>1 DEF Ends, TypeOK
  <2>3. HitsOwed' /\ NoQuestion'
    BY <2>2 DEF CountInv, HitsOwed, NoQuestion, Idle
  <2>4. \A d \in Clients, q \in Pairs : Inserting(d, q)' => Inserting(d, q)
    BY <2>2 DEF Inserting, Idle
  <2>5. OneInserts'
    BY <2>1, <2>4 DEF CountInv, OneInserts
  <2>6. ASSUME NEW k \in Keys PROVE Explained(k)'
    <3>1. Explained(k)
      BY CountsAsExplained DEF CountInv
    <3>2. lost'[k] = lost[k] + due(k)
      BY <2>1, CountTypes DEF Plus
    <3>3. c \in Owing(k) <=> k \in KeysOf(reqs[c].pair)
      BY <1>2 DEF Owing
    <3>4. Owed(k)' \in Nat /\ Owed(k) = Owed(k)' + due(k) /\ due(k) \in {0, 1}
      BY <2>1, <3>3, OwedPaid
    <3>5. Explained(k)' <=> /\ count[k] <= Rows(k) + Owed(k)' + lost'[k]
                            /\ Rows(k) + Owed(k)' <= count[k] + spurious[k]
      BY <2>1 DEF Explained, Rows
    <3> HIDE DEF due
    <3> QED
      BY <3>1, <3>2, <3>4, <3>5, CountTypes DEF Explained
  <2>7. CountsExplained'
    BY <2>6 DEF CountsExplained, Explained, Rows, Owed
  <2> QED
    BY <2>3, <2>5, <2>7 DEF CountInv
<1> QED
  BY <1>1, <1>2

LEMMA CountCrash ==
  ASSUME TypeOK, CountInv, Crash
  PROVE  CountInv'
<1> USE DEF db, history
<1>1. /\ \A c \in Clients : reqs'[c] = Idle
      /\ UNCHANGED <<follows, count, spurious>>
      /\ \A k \in Keys : lost'[k] = lost[k] + Owed(k)
  BY DEF Crash, Owed
<1>2. HitsOwed' /\ NoQuestion' /\ OneInserts'
  BY <1>1 DEF HitsOwed, NoQuestion, OneInserts, Inserting, Idle
<1>3. ASSUME NEW k \in Keys PROVE Explained(k)'
  <2>1. Explained(k)
    BY CountsAsExplained DEF CountInv
  <2>2. Owing(k)' = {}
    BY <1>1 DEF Owing, Idle
  <2>3. Owed(k)' = 0
    BY <2>2, FS_EmptySet DEF Owed
  <2>4. Explained(k)' <=> /\ count[k] <= Rows(k) + 0 + (lost[k] + Owed(k))
                          /\ Rows(k) + 0 <= count[k] + spurious[k]
    BY <1>1, <2>3 DEF Explained, Rows
  <2> QED
    BY <2>1, <2>4, CountTypes DEF Explained
<1>4. CountsExplained'
  BY <1>3 DEF CountsExplained, Explained, Rows, Owed
<1> QED
  BY <1>2, <1>4 DEF CountInv

LEMMA CountTransaction ==
  ASSUME TypeOK, CountInv, NEW c \in Clients, Transaction(c)
  PROVE  CountInv'
<1> USE DEF db, history
<1>a. reqs[c].hit => reqs[c].op = "unfollow"
                     /\ reqs[c].stage \in {"drop", "first", "second", "commit"}
  BY DEF CountInv, HitsOwed
<1>b. reqs[c].op = "relation" => reqs[c].stage \in {"ask", "wait", "told"}
  BY DEF CountInv, NoQuestion
<1>1. CASE Panic(c)
  BY <1>1, <1>a, <1>b, CountMoves DEF Panic, Stages
<1>2. CASE Begin(c)
  <2>1. PICK stage \in {"insert", "delete"} : Goes(c, stage)
    BY <1>2 DEF Begin
  <2> QED
    BY <1>2, <1>a, <1>b, <2>1, CountMoves DEF Begin, Stages
<1>3. CASE BeginFail(c)
  BY <1>3, <1>a, CountEnds DEF BeginFail
<1>4. CASE InsertRefused(c)
  BY <1>4, <1>a, CountEnds DEF InsertRefused, At
<1>5. CASE Drop(c)
  BY <1>5, CountMoves DEF Drop, At, Stages
<1>6. CASE First(c)
  BY <1>6, <1>b, CountMoves DEF First, Stages
<1>7. CASE Second(c)
  BY <1>7, <1>b, CountMoves DEF Second, Stages
<1> QED
  BY <1>1, <1>2, <1>3, <1>4, <1>5, <1>6, <1>7, CountInsert, CountDelete, CountCommit,
     CountRollback DEF Transaction

(* Questions do not touch the counts. *)
LEMMA CountRelation ==
  ASSUME TypeOK, CountInv,
         \/ \E c \in Clients : AskHit(c) \/ AskMiss(c) \/ Answer(c)
         \/ \E s \in Duos : Relation(s)
  PROVE  CountInv'
<1> USE DEF db, history
<1>1. ASSUME NEW c \in Clients, reqs[c].stage \in {"ask", "wait"},
             NEW own, NEW claims, reqs'[c] = Told(c, own, claims)
      PROVE  Aside(c)
  <2>1. reqs[c] \in Active /\ ~reqs[c].hit
    BY <1>1, ActiveFacts DEF CountInv, HitsOwed
  <2>2. reqs'[c].hit = reqs[c].hit /\ reqs'[c].stage = "told"
    BY <1>1, <2>1 DEF Told, Active
  <2> QED
    BY <2>1, <2>2 DEF Aside, Inserting
<1>2. ASSUME NEW c \in Clients, AskHit(c) PROVE CountInv'
  <2>1. reqs'[c] = Told(c, TRUE, CacheSays(reqs[c].pair)) /\ reqs[c].stage = "ask"
        /\ \A d \in Clients \ {c} : reqs'[d] = reqs[d]
    BY <1>2 DEF AskHit, TypeOK
  <2> QED
    BY <1>1, <1>2, <2>1, AsideSame, CountQuiet DEF AskHit, CountInv
<1>3. ASSUME NEW c \in Clients, AskMiss(c) PROVE CountInv'
  BY <1>3, CountMoves DEF AskMiss, Stages, CountInv, HitsOwed
<1>4. ASSUME NEW c \in Clients, Answer(c) PROVE CountInv'
  BY <1>4, CountEnds DEF Answer, CountInv, HitsOwed
<1>5. ASSUME NEW s \in Duos, RelationRead(s) PROVE CountInv'
  BY <1>5, AsideSame, CountQuiet DEF RelationRead, CountInv
<1>6. ASSUME NEW s \in Duos, RelationDone(s) PROVE CountInv'
  <2>1. \A c \in Clients :
          \/ reqs'[c] = reqs[c]
          \/ reqs[c].stage = "wait" /\ \E own, claims : reqs'[c] = Told(c, own, claims)
    BY <1>6 DEF RelationDone
  <2> QED
    BY <1>1, <1>6, <2>1, AsideSame, CountQuiet DEF RelationDone, CountInv
<1>7. ASSUME NEW s \in Duos, RelationFail(s) PROVE CountInv'
  <2>1. \A c \in Clients :
          reqs'[c] = reqs[c] \/ (reqs[c].stage = "wait" /\ reqs'[c] = Idle)
    BY <1>7 DEF RelationFail
  <2>2. \A c \in Clients : reqs[c].stage = "wait" => ~reqs[c].hit
    BY DEF CountInv, HitsOwed
  <2> QED
    BY <1>7, <2>1, <2>2, AsideIdle, AsideSame, CountQuiet DEF RelationFail, CountInv
<1> QED
  BY <1>2, <1>3, <1>4, <1>5, <1>6, <1>7 DEF Relation

LEMMA CountNext == TypeOK /\ CountInv /\ [Next]_vars => CountInv'
<1> SUFFICES ASSUME TypeOK, CountInv, [Next]_vars PROVE CountInv'
  OBVIOUS
<1> USE DEF db, history
<1>1. ASSUME UNCHANGED <<follows, count, lost, spurious, reqs>> PROVE CountInv'
  BY <1>1, AsideSame, CountQuiet DEF CountInv
<1>2. ASSUME NEW k \in Keys, ListMiss(k) \/ ListLoad(k) \/ Expire(k) PROVE CountInv'
  BY <1>1, <1>2 DEF ListMiss, ListLoad, ListRead, ListDone, ListFail, Expire
<1>3. ASSUME NEW k \in tasks, RunTask(k) PROVE CountInv'
  BY <1>1, <1>3 DEF RunTask, RunAdd, RunAddFail, RunFill, RunFillFail
<1>4. CASE UNCHANGED vars \/ \E c \in Clients : Refused(c)
  BY <1>1, <1>4 DEF Refused, vars
<1>5. ASSUME NEW c \in Clients, Serve(c) PROVE CountInv'
  BY <1>5, CountTransaction, CountRelation DEF Serve
<1>6. ASSUME NEW c \in Clients, NEW w \in Wanted, Arrive(c, w[1], w[2]) PROVE CountInv'
  <2>1. /\ reqs[c] = Idle /\ \A d \in Clients \ {c} : reqs'[d] = reqs[d]
        /\ UNCHANGED <<follows, count, lost, spurious>>
    BY <1>6 DEF Arrive, TypeOK
  <2>2. /\ ~reqs'[c].hit /\ reqs'[c].op = w[1]
        /\ reqs'[c].stage = IF w[1] = "relation" THEN "ask" ELSE "begin"
    BY <1>6 DEF Arrive, Idle, TypeOK
  <2>3. Aside(c)
    BY <2>1, <2>2 DEF Aside, Inserting, Idle
  <2> QED
    BY <2>1, <2>3, AsideSame, CountQuiet DEF CountInv
<1> QED
  BY <1>2, <1>3, <1>4, <1>5, <1>6, CountRelation, CountCrash DEF Next

(* The counts at the start. *)
LEMMA CountInit == Init => CountInv
<1> SUFFICES ASSUME Init PROVE CountInv
  OBVIOUS
<1>1. HitsOwed /\ OneInserts /\ NoQuestion
  BY DEF Init, HitsOwed, OneInserts, NoQuestion, Inserting, Idle
<1>2. ASSUME NEW k \in Keys PROVE Side(k, follows) = {} /\ Owing(k) = {}
  BY DEF Init, Side, Owing, Idle
<1>3. ASSUME NEW k \in Keys PROVE Explained(k)
  <2>1. Rows(k) = 0 /\ Owed(k) = 0
    BY <1>2, FS_EmptySet DEF Rows, Owed
  <2>2. count[k] = 0 /\ lost[k] = 0 /\ spurious[k] = 0
    BY DEF Init
  <2> QED
    BY <2>1, <2>2 DEF Explained
<1> QED
  BY <1>1, <1>3, CountsAsExplained DEF CountInv

-----------------------------------------------------------------------------
(* Row locks.  A row's holder had no other holder of it before him, since  *)
(* an update waits for whoever holds the row.                              *)
RowsHeld ==
  \A c, d \in Clients, u \in Users : Holds(c, u) /\ Holds(d, u) => c = d

LEMMA RowsKept ==
  ASSUME RowsHeld,
         \A c \in Clients :
           reqs'[c] = reqs[c] \/ reqs'[c].stage \notin {"second", "commit"}
  PROVE  RowsHeld'
<1>1. ASSUME NEW c \in Clients, NEW u, Holds(c, u)' PROVE Holds(c, u)
  BY <1>1 DEF Holds
<1> QED
  BY <1>1 DEF RowsHeld

(* One client moves on without taking a row, or takes a free one. *)
LEMMA RowsMoves ==
  ASSUME TypeOK, RowsHeld, NEW c \in Clients, NEW stage, Goes(c, stage),
         \A u \in Users :
           Holds(c, u)' => Holds(c, u) \/ \A d \in Clients \ {c} : ~Holds(d, u)
  PROVE  RowsHeld'
<1>1. \A d \in Clients \ {c} : reqs'[d] = reqs[d]
  BY DEF Goes, TypeOK
<1>2. \A d \in Clients \ {c}, u \in Users : Holds(d, u)' => Holds(d, u)
  BY <1>1 DEF Holds
<1> QED
  BY <1>2 DEF RowsHeld

LEMMA RowsTransaction ==
  ASSUME TypeOK, RowsHeld, NEW c \in Clients, Transaction(c)
  PROVE  RowsHeld'
<1>1. ASSUME NEW stage \in {"panicked", "insert", "delete", "first"}, Goes(c, stage),
             reqs[c].stage # "free"
      PROVE  RowsHeld'
  <2>1. reqs[c] \in Active
    BY <1>1, ActiveFacts
  <2>2. reqs'[c].stage = stage /\ \A d \in Clients \ {c} : reqs'[d] = reqs[d]
    BY <1>1, <2>1 DEF Goes, Active, TypeOK
  <2> QED
    BY <2>2, RowsKept
<1>2. ASSUME Ends(c) PROVE RowsHeld'
  <2>1. reqs'[c].stage = "free" /\ \A d \in Clients \ {c} : reqs'[d] = reqs[d]
    BY <1>2 DEF Ends, Idle, TypeOK
  <2> QED
    BY <2>1, RowsKept
<1>3. CASE Panic(c) \/ Begin(c) \/ Insert(c) \/ Drop(c)
  BY <1>1, <1>3 DEF Panic, Begin, Insert, Drop, At
<1>4. CASE BeginFail(c) \/ InsertRefused(c) \/ Commit(c) \/ Rollback(c)
  BY <1>2, <1>4 DEF BeginFail, InsertRefused, Commit, Rollback
<1>5. CASE Delete(c)
  <2>1. reqs[c] \in Active
    BY <1>5, ActiveFacts DEF Delete, At
  <2>2. reqs'[c].stage = "drop" /\ \A d \in Clients \ {c} : reqs'[d] = reqs[d]
    BY <1>5, <2>1 DEF Delete, Active, TypeOK
  <2> QED
    BY <2>2, RowsKept
<1>6. ASSUME NEW stage \in {"second", "commit"}, Goes(c, stage), reqs[c].stage # "free"
      PROVE  /\ reqs'[c].stage = stage /\ reqs'[c].pair = reqs[c].pair
             /\ reqs[c].pair \in Pairs
  <2>1. reqs[c] \in Active
    BY <1>6, ActiveFacts
  <2> QED
    BY <1>6, <2>1 DEF Goes, Active, TypeOK
<1>7. CASE First(c)
  <2>1. /\ reqs[c].stage = "first" /\ Goes(c, "second")
        /\ \A d \in Clients \ {c} : ~Holds(d, reqs[c].pair[2])
    BY <1>7 DEF First, Blockers
  <2>2. \A u \in Users : Holds(c, u)' => u = reqs[c].pair[2]
    BY <1>6, <2>1 DEF Holds
  <2> QED
    BY <2>1, <2>2, RowsMoves
<1>8. CASE Second(c)
  <2>1. /\ reqs[c].stage = "second" /\ Goes(c, "commit")
        /\ \A d \in Clients \ {c} : ~Holds(d, reqs[c].pair[1])
    BY <1>8 DEF Second, Blockers
  <2>2. \A u \in Users : Holds(c, u)' => u = reqs[c].pair[1] \/ Holds(c, u)
    BY <1>6, <2>1 DEF Holds
  <2> QED
    BY <2>1, <2>2, RowsMoves
<1> QED
  BY <1>3, <1>4, <1>5, <1>7, <1>8 DEF Transaction

LEMMA RowsNext == TypeOK /\ RowsHeld /\ [Next]_vars => RowsHeld'
<1> SUFFICES ASSUME TypeOK, RowsHeld, [Next]_vars PROVE RowsHeld'
  OBVIOUS
<1>1. ASSUME UNCHANGED reqs PROVE RowsHeld'
  BY <1>1, RowsKept
<1>2. CASE UNCHANGED vars \/ \E c \in Clients : Refused(c)
  BY <1>1, <1>2 DEF Refused, vars
<1>3. ASSUME NEW k \in Keys, ListMiss(k) \/ ListLoad(k) \/ Expire(k) PROVE RowsHeld'
  BY <1>1, <1>3 DEF ListMiss, ListLoad, ListRead, ListDone, ListFail, Expire
<1>4. ASSUME NEW k \in tasks, RunTask(k) PROVE RowsHeld'
  BY <1>1, <1>4 DEF RunTask, RunAdd, RunAddFail, RunFill, RunFillFail
<1>5. ASSUME NEW c \in Clients, AskHit(c) \/ AskMiss(c) \/ Answer(c) PROVE RowsHeld'
  <2>1. reqs[c] \in Active
    BY <1>5, ActiveFacts DEF AskHit, AskMiss, Answer
  <2>2. reqs'[c].stage \in {"told", "wait", "free"}
    <3>1. CASE AskHit(c)
      BY <2>1, <3>1 DEF AskHit, Told, Active, TypeOK
    <3>2. CASE AskMiss(c)
      BY <2>1, <3>2 DEF AskMiss, Goes, Active, TypeOK
    <3>3. CASE Answer(c)
      BY <3>3 DEF Answer, Ends, Idle, TypeOK
    <3> QED
      BY <1>5, <3>1, <3>2, <3>3
  <2>3. \A d \in Clients \ {c} : reqs'[d] = reqs[d]
    BY <1>5 DEF AskHit, AskMiss, Answer, Goes, Ends, TypeOK
  <2> QED
    BY <2>2, <2>3, RowsKept
<1>6. ASSUME NEW s \in Duos, RelationDone(s) PROVE RowsHeld'
  <2>1. ASSUME NEW c \in Clients, reqs'[c] # reqs[c] PROVE reqs'[c].stage = "told"
    <3>1. reqs[c].stage = "wait" /\ \E own, claims : reqs'[c] = Told(c, own, claims)
      BY <1>6, <2>1 DEF RelationDone
    <3>2. reqs[c] \in Active
      BY <3>1, ActiveFacts
    <3> QED
      BY <3>1, <3>2 DEF Told, Active
  <2> QED
    BY <2>1, RowsKept
<1>7. ASSUME NEW s \in Duos, RelationRead(s) \/ RelationFail(s) PROVE RowsHeld'
  BY <1>7, RowsKept DEF RelationRead, RelationFail, Idle
<1>8. ASSUME NEW c \in Clients, NEW w \in Wanted, Arrive(c, w[1], w[2]) PROVE RowsHeld'
  <2>1. /\ reqs'[c].stage = IF w[1] = "relation" THEN "ask" ELSE "begin"
        /\ \A d \in Clients \ {c} : reqs'[d] = reqs[d]
    BY <1>8 DEF Arrive, Idle, TypeOK
  <2> QED
    BY <2>1, RowsKept
<1>9. CASE Crash
  BY <1>9, RowsKept DEF Crash, Idle
<1> QED
  BY <1>2, <1>3, <1>4, <1>5, <1>6, <1>7, <1>8, <1>9, RowsTransaction
     DEF Next, Serve, Relation

(* The types, the counts and the locks hold together. *)
THEOREM CountsInductive == Spec => [](TypeOK /\ CountInv /\ RowsHeld)
<1>1. Init => RowsHeld
  BY DEF Init, RowsHeld, Holds, Idle
<1>2. TypeOK /\ CountInv /\ RowsHeld /\ [Next]_vars => (TypeOK /\ CountInv /\ RowsHeld)'
  BY TypeNext, CountNext, RowsNext
<1> QED
  BY <1>1, <1>2, TypeInit, CountInit, PTL DEF Spec

(* A user's counts differ from the rows only as the UnFollow calls         *)
(* account for, for any number of users, requests, rollbacks and crashes.  *)
THEOREM CountsAreExplained == Spec => []CountsExplained
BY CountsInductive, PTL DEF CountInv

(* No row and no relation is in the hands of two transactions, and nobody  *)
(* waits for more than one, however many there are and however they end.   *)
THEOREM LocksAreExclusive == Spec => []LocksExclusive
<1>1. TypeOK /\ CountInv /\ RowsHeld => LocksExclusive
  <2> SUFFICES ASSUME TypeOK, CountInv, RowsHeld PROVE LocksExclusive
    OBVIOUS
  <2>1. \A c, d \in Clients, p \in Pairs : Inserting(c, p) /\ Inserting(d, p) => c = d
    BY DEF CountInv, OneInserts
  <2>2. ASSUME NEW c \in Clients, NEW d \in Blockers(c), NEW e \in Blockers(c)
        PROVE  d = e
    <3>1. reqs[c].stage # "free" /\ d \in Clients /\ e \in Clients
      BY <2>2 DEF Blockers, At
    <3>2. reqs[c].pair \in Pairs
      BY <3>1, ActiveFacts DEF Active
    <3>3. reqs[c].pair[1] \in Users /\ reqs[c].pair[2] \in Users
      BY <3>2, PairFacts
    <3>4. CASE reqs[c].stage = "insert"
      BY <2>1, <2>2, <3>1, <3>2, <3>4 DEF Blockers
    <3>5. CASE reqs[c].stage = "first"
      BY <2>2, <3>1, <3>3, <3>5 DEF Blockers, At, RowsHeld
    <3>6. CASE reqs[c].stage = "second"
      BY <2>2, <3>1, <3>3, <3>6 DEF Blockers, At, RowsHeld
    <3> QED
      BY <2>2, <3>4, <3>5, <3>6 DEF Blockers, At
  <2> QED
    BY <2>1, <2>2 DEF LocksExclusive, RowsHeld
<1> QED
  BY <1>1, CountsInductive, PTL

(* Only a commit changes a counter, and it holds the rows of both users    *)
(* whose counters it changes: nobody else can hold them then.              *)
THEOREM RowsAreIsolated == Spec => RowsIsolated
<1>1. TypeOK /\ RowsHeld /\ [Next]_vars => [HolderChanges]_vars
  <2> SUFFICES ASSUME TypeOK, RowsHeld, [Next]_vars PROVE HolderChanges
    OBVIOUS
  <2> USE DEF db, history
  <2>1. ASSUME UNCHANGED count PROVE HolderChanges
    BY <2>1 DEF HolderChanges
  <2>2. ASSUME NEW c \in Clients, Commit(c) PROVE HolderChanges
    <3> SUFFICES ASSUME NEW u \in Users, NEW kind \in Kinds,
                        count'[<<kind, u>>] # count[<<kind, u>>]
                 PROVE  \E d \in Clients : Holds(d, u) /\ reqs'[d] = Idle
                                          /\ \A e \in Clients \ {d} : ~Holds(e, u)
      BY DEF HolderChanges
    <3>1. /\ reqs[c].stage = "commit" /\ Ends(c)
          /\ \A k \in Keys : k \notin KeysOf(reqs[c].pair) => count'[k] = count[k]
      BY <2>2 DEF Commit
    <3>2. <<kind, u>> \in Keys
      BY DEF Keys
    <3>3. <<kind, u>> \in KeysOf(reqs[c].pair)
      BY <3>1, <3>2
    <3>4. u = reqs[c].pair[1] \/ u = reqs[c].pair[2]
      BY <3>3 DEF KeysOf, KeyOf
    <3>5. Holds(c, u) /\ reqs'[c] = Idle
      BY <3>1, <3>4 DEF Holds, Ends, TypeOK
    <3> QED
      BY <3>5 DEF RowsHeld
  <2>3. ASSUME NEW c \in Clients, Serve(c), ~Commit(c) PROVE HolderChanges
    BY <2>1, <2>3 DEF Serve, Transaction, Panic, Begin, BeginFail, Insert, InsertRefused,
       Delete, Drop, First, Second, Rollback, AskHit, AskMiss, Answer
  <2>4. ASSUME NEW s \in Duos, Relation(s) PROVE HolderChanges
    BY <2>1, <2>4 DEF Relation, RelationRead, RelationDone, RelationFail
  <2>5. ASSUME NEW k \in Keys, ListMiss(k) \/ ListLoad(k) \/ Expire(k) PROVE HolderChanges
    BY <2>1, <2>5 DEF ListMiss, ListLoad, ListRead, ListDone, ListFail, Expire
  <2>6. ASSUME NEW k \in tasks, RunTask(k) PROVE HolderChanges
    BY <2>1, <2>6 DEF RunTask, RunAdd, RunAddFail, RunFill, RunFillFail
  <2>7. ASSUME NEW c \in Clients, Refused(c) \/ \E w \in Wanted : Arrive(c, w[1], w[2])
        PROVE  HolderChanges
    BY <2>1, <2>7 DEF Refused, Arrive, vars
  <2>8. CASE Crash \/ UNCHANGED vars
    BY <2>1, <2>8 DEF Crash, vars
  <2> QED
    BY <2>2, <2>3, <2>4, <2>5, <2>6, <2>7, <2>8 DEF Next
<1> QED
  BY <1>1, CountsInductive, PTL DEF Spec, RowsIsolated
=============================================================================
