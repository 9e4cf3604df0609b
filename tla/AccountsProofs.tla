---------------------------- MODULE AccountsProofs ----------------------------
(* Proofs about accounts, what is cached of them and who asks for them,    *)
(* for any users, requests, pool tasks and faults.                         *)
EXTENDS Accounts, TLAPS

-----------------------------------------------------------------------------
(* Shapes. *)

Busy ==
  [op : Ops, who : SUBSET Users, stage : {"ask", "wait", "told"},
   known : SUBSET Users, joined : BOOLEAN,
   reply : {"none", "ok", "missing", "refused", "error"}, given : SUBSET Users]

Replies == {"ok", "missing", "refused", "error"}

LEMMA IdleShape ==
  /\ Requests = Busy \cup {Idle}
  /\ Idle.op = "none" /\ Idle.stage = "free" /\ Idle.reply = "none" /\ Idle.known = {}
BY DEF Requests, Busy, Idle

LEMMA BusyIs ==
  ASSUME TypeOK, NEW c \in Clients, reqs[c].stage # "free"
  PROVE  reqs[c] \in Busy
BY IdleShape DEF TypeOK

LEMMA KeyShape ==
  /\ \A op \in Ops : \A u \in Users : op # "names" => SfKey(op, {u}) \in Keys
  /\ \A op \in Ops : \A who : /\ SfKey(op, who)[2] = who
                              /\ SfKey(op, who)[1] = IF op = "mistype" THEN "login" ELSE op
  /\ \A k \in Keys : k[1] \in Ops \ {"names", "mistype"} /\ k[2] \in SUBSET Users
BY DEF SfKey, Keys, Ops

LEMMA TaskShape ==
  /\ \A u \in Users : \A n \in Nat : /\ ProfileTask(u, n) \in Tasks /\ DropTask(u) \in Tasks
  /\ \A S \in SUBSET Users : NamesTask(S) \in Tasks
BY DEF ProfileTask, DropTask, NamesTask, Tasks

(* What a request keeps until it is answered.                              *)
Same(r, q) ==
  r.op = q.op /\ r.who = q.who /\ r.known = q.known

LEMMA ToldShape ==
  ASSUME NEW c \in Clients, reqs[c] \in Busy, NEW a \in Replies, NEW S \in SUBSET Users
  PROVE  LET r == Told(c, a, S)
         IN /\ r \in Busy /\ Same(r, reqs[c]) /\ r.joined = reqs[c].joined
            /\ r.stage = "told" /\ r.reply = a /\ r.given = S
BY DEF Told, Busy, Same, Replies

LEMMA GoesShape ==
  ASSUME TypeOK, NEW c \in Clients, reqs[c] \in Busy, NEW j \in BOOLEAN, Goes(c, "wait", j)
  PROVE  /\ reqs' \in [Clients -> Requests]
         /\ \A d \in Clients \ {c} : reqs'[d] = reqs[d]
         /\ reqs'[c] \in Busy /\ Same(reqs'[c], reqs[c]) /\ reqs'[c].joined = j
         /\ reqs'[c].stage = "wait" /\ reqs'[c].reply = reqs[c].reply
         /\ reqs'[c].given = reqs[c].given
<1>1. reqs' = [reqs EXCEPT ![c] = [reqs[c] EXCEPT !.stage = "wait", !.joined = j]]
  BY DEF Goes, TypeOK
<1> DEFINE r == [reqs[c] EXCEPT !.stage = "wait", !.joined = j]
<1>2. /\ r \in Busy /\ Same(r, reqs[c]) /\ r.joined = j /\ r.stage = "wait"
      /\ r.reply = reqs[c].reply /\ r.given = reqs[c].given
  BY DEF Busy, Same
<1> HIDE DEF r
<1>3. reqs' = [reqs EXCEPT ![c] = r]
  BY <1>1 DEF r
<1> QED
  BY <1>2, <1>3, IdleShape DEF TypeOK

-----------------------------------------------------------------------------
(* How requests move. *)

(* A request that comes.                                                   *)
Comes(c) ==
  /\ reqs[c] = Idle /\ reqs'[c] \in Busy /\ reqs'[c].stage = "ask"
  /\ reqs'[c].known = reqs'[c].who \cap rows /\ reqs'[c].reply = "none"

(* One that waits for a query.                                             *)
Waits(c) ==
  /\ reqs[c].stage = "ask" /\ reqs'[c] \in Busy /\ Same(reqs'[c], reqs[c])
  /\ reqs'[c].stage = "wait" /\ reqs'[c].reply = reqs[c].reply
  /\ reqs'[c].given = reqs[c].given

(* One that is told something.                                             *)
Hears(c) ==
  /\ reqs[c].stage \in {"ask", "wait"}
  /\ reqs'[c] \in Busy /\ Same(reqs'[c], reqs[c]) /\ reqs'[c].joined = reqs[c].joined
  /\ reqs'[c].stage = "told"

(* What it may be told: of the cache, of the table, or of a shared query.  *)
Heard(c) ==
  \/ reqs'[c].reply = "error"
  \/ /\ reqs'[c].reply = "ok" /\ reqs[c].op \in {"exists", "profile", "names"}
     /\ reqs[c].op = "names" => reqs'[c].given = reqs[c].who
  \/ /\ reqs'[c].reply = "ok" /\ reqs[c].op = "names"
     /\ reqs'[c].given = reqs[c].who \cap rows
  \/ \E k \in Keys : /\ reqs[c].stage = "wait" /\ SfKey(reqs[c].op, reqs[c].who) = k
                     /\ flights[k].stage = "read"
                     /\ reqs'[c].reply = Reply(c, flights[k].found)

Moves(c) ==
  \/ reqs'[c] = reqs[c] \/ reqs'[c] = Idle \/ Comes(c) \/ Waits(c)
  \/ (Hears(c) /\ Heard(c))

Joins(c, k) ==
  /\ reqs'[c].joined = (flights[k].stage # "none")
  /\ flights' = IF flights[k].stage = "none"
                THEN [flights EXCEPT ![k].stage = "started"] ELSE flights

LEMMA ReplyIs == \A c \in Clients : \A S : Reply(c, S) \in Replies
BY DEF Reply, Replies

LEMMA ToldMoves ==
  ASSUME TypeOK, NEW c \in Clients, reqs[c].stage \in {"ask", "wait"}, NEW a \in Replies,
         NEW S \in SUBSET Users, reqs'[c] = Told(c, a, S)
  PROVE  Hears(c) /\ reqs'[c].reply = a /\ reqs'[c].given = S
<1>1. reqs[c] \in Busy
  BY BusyIs
<1> QED
  BY <1>1, ToldShape DEF Hears

LEMMA OneTold ==
  ASSUME TypeOK, NEW c \in Clients, reqs[c].stage \in {"ask", "wait"}, NEW a \in Replies,
         NEW S \in SUBSET Users, reqs' = [reqs EXCEPT ![c] = Told(c, a, S)]
  PROVE  /\ reqs' \in [Clients -> Requests]
         /\ Hears(c) /\ reqs'[c].reply = a /\ reqs'[c].given = S
         /\ \A d \in Clients \ {c} : reqs'[d] = reqs[d]
<1>1. reqs'[c] = Told(c, a, S) /\ \A d \in Clients \ {c} : reqs'[d] = reqs[d]
  BY DEF TypeOK
<1>2. Told(c, a, S) \in Busy
  BY BusyIs, ToldShape
<1> QED
  BY <1>1, <1>2, ToldMoves, IdleShape DEF TypeOK

(* How the requests move in the steps that are about requests.             *)
LEMMA ServeMoves ==
  ASSUME TypeOK, NEW c \in Clients, Serve(c)
  PROVE  /\ reqs' \in [Clients -> Requests]
         /\ \A d \in Clients : Moves(d)
         /\ ~CacheMiss(c) => flights' = flights /\ \A d \in Clients : ~Waits(d)
<1>1. ASSUME CacheHit(c)
      PROVE  /\ reqs' \in [Clients -> Requests] /\ \A d \in Clients : Moves(d) /\ ~Waits(d)
             /\ flights' = flights
  <2> DEFINE S == IF reqs[c].op = "names" THEN reqs[c].who ELSE {}
  <2>1. /\ reqs[c].stage = "ask" /\ reqs' = [reqs EXCEPT ![c] = Told(c, "ok", S)]
        /\ flights' = flights
    BY <1>1 DEF CacheHit
  <2>2. S \in SUBSET Users
    BY <2>1, BusyIs DEF Busy
  <2>3. reqs[c].op \in {"exists", "profile", "names"}
    BY <1>1 DEF CacheHit, Cached
  <2>4. /\ reqs' \in [Clients -> Requests]
        /\ Hears(c) /\ reqs'[c].reply = "ok" /\ reqs'[c].given = S
        /\ \A d \in Clients \ {c} : reqs'[d] = reqs[d]
    <3> HIDE DEF S
    <3> QED
      BY <2>1, <2>2, OneTold DEF Replies
  <2>5. Moves(c)
    BY <2>3, <2>4 DEF Moves, Heard
  <2>6. \A d \in Clients : ~Waits(d)
    BY <2>4 DEF Waits, Hears
  <2> QED
    BY <2>1, <2>4, <2>5, <2>6 DEF Moves
<1>2. ASSUME NamesRead(c)
      PROVE  /\ reqs' \in [Clients -> Requests] /\ \A d \in Clients : Moves(d) /\ ~Waits(d)
             /\ flights' = flights
  <2>1. PICK S \in NamesFound(reqs[c].who) : reqs' = [reqs EXCEPT ![c] = Told(c, "ok", S)]
    BY <1>2 DEF NamesRead
  <2>2. reqs[c].stage = "wait" /\ reqs[c].op = "names" /\ flights' = flights
    BY <1>2 DEF NamesRead
  <2>3. S = reqs[c].who \cap rows
    BY <2>1 DEF NamesFound
  <2>4. S \in SUBSET Users
    BY <2>3 DEF TypeOK
  <2>5. /\ reqs' \in [Clients -> Requests]
        /\ Hears(c) /\ reqs'[c].reply = "ok" /\ reqs'[c].given = S
        /\ \A d \in Clients \ {c} : reqs'[d] = reqs[d]
    <3>1. reqs[c].stage \in {"ask", "wait"} /\ "ok" \in Replies
      BY <2>2 DEF Replies
    <3> QED
      BY <2>1, <2>4, <3>1, OneTold
  <2>6. Moves(c)
    BY <2>2, <2>3, <2>5 DEF Moves, Heard
  <2>7. \A d \in Clients : ~Waits(d)
    BY <2>2, <2>5 DEF Waits, Hears
  <2> QED
    BY <2>2, <2>5, <2>6, <2>7 DEF Moves
<1>3. ASSUME NamesFail(c)
      PROVE  /\ reqs' \in [Clients -> Requests] /\ \A d \in Clients : Moves(d) /\ ~Waits(d)
             /\ flights' = flights
  <2>1. /\ reqs[c].stage = "wait" /\ reqs' = [reqs EXCEPT ![c] = Told(c, "error", {})]
        /\ flights' = flights
    BY <1>3 DEF NamesFail
  <2>2. /\ reqs' \in [Clients -> Requests]
        /\ Hears(c) /\ reqs'[c].reply = "error"
        /\ \A d \in Clients \ {c} : reqs'[d] = reqs[d]
    <3>1. reqs[c].stage \in {"ask", "wait"} /\ "error" \in Replies
      BY <2>1 DEF Replies
    <3>2. PICK S \in SUBSET Users : S = {}
      OBVIOUS
    <3>3. reqs' = [reqs EXCEPT ![c] = Told(c, "error", S)]
      BY <2>1, <3>2
    <3> QED
      BY <3>1, <3>3, OneTold
  <2>3. Moves(c)
    BY <2>2 DEF Moves, Heard
  <2>4. \A d \in Clients : ~Waits(d)
    BY <2>1, <2>2 DEF Waits, Hears
  <2> QED
    BY <2>1, <2>2, <2>3, <2>4 DEF Moves
<1>4. ASSUME CacheMiss(c)
      PROVE  reqs' \in [Clients -> Requests] /\ \A d \in Clients : Moves(d)
  <2>1. reqs[c].stage = "ask" /\ reqs[c] \in Busy
    BY <1>4, BusyIs DEF CacheMiss
  <2>2. PICK j \in BOOLEAN : Goes(c, "wait", j)
    BY <1>4 DEF CacheMiss
  <2> QED
    BY <2>1, <2>2, GoesShape DEF Moves, Waits
<1>5. ASSUME Answer(c)
      PROVE  /\ reqs' \in [Clients -> Requests] /\ \A d \in Clients : Moves(d) /\ ~Waits(d)
             /\ flights' = flights
  BY <1>5, IdleShape DEF Answer, Moves, Waits, TypeOK
<1> QED
  BY <1>1, <1>2, <1>3, <1>4, <1>5 DEF Serve

LEMMA QueryMoves ==
  ASSUME TypeOK, NEW k \in Keys, Query(k)
  PROVE  /\ reqs' \in [Clients -> Requests]
         /\ \A c \in Clients : Moves(c) /\ ~Waits(c)
<1>1. CASE QueryRead(k)
  BY <1>1 DEF QueryRead, Moves, Waits, TypeOK
<1>2. ASSUME QueryDone(k), NEW c \in Clients
      PROVE  reqs'[c] \in Requests /\ Moves(c) /\ ~Waits(c)
  <2>1. CASE Waiting(c, k)
    <3>1. /\ reqs'[c] = Told(c, Reply(c, flights[k].found), {}) /\ flights[k].stage = "read"
          /\ reqs[c].stage = "wait" /\ SfKey(reqs[c].op, reqs[c].who) = k
      BY <1>2, <2>1 DEF QueryDone, Waiting
    <3>2. Hears(c) /\ reqs'[c].reply = Reply(c, flights[k].found)
      BY <3>1, ReplyIs, ToldMoves
    <3>3. Heard(c)
      BY <3>1, <3>2 DEF Heard
    <3> QED
      BY <3>2, <3>3, IdleShape DEF Moves, Waits, Hears
  <2>2. CASE ~Waiting(c, k)
    <3>1. reqs'[c] = reqs[c]
      BY <1>2, <2>2 DEF QueryDone
    <3> QED
      BY <3>1 DEF TypeOK, Moves, Waits
  <2> QED
    BY <2>1, <2>2
<1>3. ASSUME QueryFail(k), NEW c \in Clients
      PROVE  reqs'[c] \in Requests /\ Moves(c) /\ ~Waits(c)
  <2>1. CASE Waiting(c, k)
    <3>1. reqs'[c] = Told(c, "error", {}) /\ reqs[c].stage = "wait"
      BY <1>3, <2>1 DEF QueryFail, Waiting
    <3>2. Hears(c) /\ reqs'[c].reply = "error"
      BY <3>1, ToldMoves DEF Replies
    <3> QED
      BY <3>2, IdleShape DEF Moves, Waits, Hears, Heard
  <2>2. CASE ~Waiting(c, k)
    <3>1. reqs'[c] = reqs[c]
      BY <1>3, <2>2 DEF QueryFail
    <3> QED
      BY <3>1 DEF TypeOK, Moves, Waits
  <2> QED
    BY <2>1, <2>2
<1>4. ASSUME QueryDone(k) \/ QueryFail(k) PROVE reqs' \in [Clients -> Requests]
  <2>1. reqs' = [c \in Clients |-> reqs'[c]]
    BY <1>4 DEF QueryDone, QueryFail
  <2> QED
    BY <1>2, <1>3, <1>4, <2>1
<1> QED
  BY <1>1, <1>2, <1>3, <1>4 DEF Query

LEMMA ArriveMoves ==
  ASSUME TypeOK, NEW w \in Wanted, Arrive(w[1], w[2], w[3])
  PROVE  /\ reqs' \in [Clients -> Requests]
         /\ \A c \in Clients : Moves(c) /\ ~Waits(c)
<1>1. w[1] \in Clients /\ w[2] \in Ops /\ w[3] \in SUBSET Users
  BY AccountsAssumption
<1>2. PICK c \in Clients, op \in Ops, who \in SUBSET Users : c = w[1] /\ Arrive(c, op, who)
  BY <1>1
<1> DEFINE r == [Idle EXCEPT !.op = op, !.who = who, !.known = who \cap rows, !.stage = "ask"]
<1>3. /\ r \in Busy /\ r.stage = "ask" /\ r.known = r.who \cap rows /\ r.reply = "none"
  BY DEF Idle, Busy
<1>4. reqs[c] = Idle /\ reqs' = [reqs EXCEPT ![c] = r]
  BY <1>2 DEF Arrive
<1> HIDE DEF r
<1>5. reqs'[c] = r /\ \A d \in Clients \ {c} : reqs'[d] = reqs[d]
  BY <1>4 DEF TypeOK
<1>6. Comes(c)
  BY <1>3, <1>4, <1>5 DEF Comes
<1> QED
  BY <1>3, <1>4, <1>5, <1>6, IdleShape DEF TypeOK, Moves, Waits

(* Every other step leaves them, or ends them all.                         *)
LEMMA OthersKeep ==
  ASSUME TypeOK, [Next]_vars, ~\E c \in Clients : Serve(c), ~\E k \in Keys : Query(k),
         ~\E w \in Wanted : Arrive(w[1], w[2], w[3])
  PROVE  \/ UNCHANGED <<reqs, flights>>
         \/ /\ reqs' = [c \in Clients |-> Idle]
            /\ flights' = [k \in Keys |-> NoFlight]
<1>1. ASSUME NEW u \in Users,
             \/ Register(u) \/ Expire(u) \/ Update(u) \/ Invalidate(u) \/ Commit(u) \/ Rollback(u)
      PROVE  UNCHANGED <<reqs, flights>>
  BY <1>1 DEF Register, Expire, Update, Invalidate, Commit, Rollback
<1>2. ASSUME NEW k \in tasks, RunTask(k) PROVE UNCHANGED <<reqs, flights>>
  BY <1>2 DEF RunTask, RunProfile, RunDrop, RunNames
<1>3. CASE Crash
  BY <1>3 DEF Crash
<1>4. CASE UNCHANGED vars
  BY <1>4 DEF vars
<1> QED
  BY <1>1, <1>2, <1>3, <1>4 DEF Next

LEMMA RequestsMove ==
  ASSUME TypeOK, [Next]_vars
  PROVE  reqs' \in [Clients -> Requests] /\ \A c \in Clients : Moves(c)
<1>1. ASSUME UNCHANGED <<reqs, flights>> PROVE reqs' \in [Clients -> Requests] /\ \A c \in Clients : Moves(c)
  BY <1>1 DEF TypeOK, Moves
<1>2. ASSUME reqs' = [c \in Clients |-> Idle]
      PROVE  reqs' \in [Clients -> Requests] /\ \A c \in Clients : Moves(c)
  BY <1>2, IdleShape DEF Moves
<1> QED
  BY <1>1, <1>2, ServeMoves, QueryMoves, ArriveMoves, OthersKeep

-----------------------------------------------------------------------------
(* Types. *)

LEMMA InitTyped == Init => TypeOK
BY IdleShape DEF Init, TypeOK, NoFlight, Flights

LEMMA QueryTypes ==
  ASSUME TypeOK, NEW k \in Keys, Query(k)
  PROVE  /\ flights' \in [Keys -> Flights] /\ tasks' \subseteq Tasks /\ faults' \in Nat
         /\ UNCHANGED <<rows, count, tx, names, counts, exposed>>
<1>0. /\ UNCHANGED <<rows, count, tx, names, counts, exposed>>
      /\ faults' = faults \/ faults' = faults + 1
  BY DEF Query, QueryRead, QueryDone, QueryFail, Fault, db, redis
<1>1. CASE QueryRead(k)
  <2> DEFINE n == IF k[1] = "profile" /\ Selected(k) # {}
                  THEN count[CHOOSE u \in Selected(k) : TRUE] ELSE 0
             f == [stage |-> "read", found |-> Selected(k), count |-> n]
  <2>1. Selected(k) \in SUBSET Users
    BY DEF Selected, TypeOK
  <2>2. n \in Nat
    BY <2>1 DEF TypeOK
  <2>3. flights' = [flights EXCEPT ![k] = f] /\ tasks' = tasks
    BY <1>1 DEF QueryRead
  <2>4. f \in Flights
    BY <2>1, <2>2 DEF Flights
  <2> HIDE DEF f
  <2> QED
    BY <1>0, <2>3, <2>4 DEF TypeOK
<1>2. CASE QueryDone(k)
  <2>1. flights' = [flights EXCEPT ![k] = NoFlight] /\ NoFlight \in Flights
    BY <1>2 DEF QueryDone, NoFlight, Flights
  <2>2. tasks' = tasks \/ \E u \in Users : \E n \in Nat : tasks' = tasks \cup {ProfileTask(u, n)}
    <3>1. flights[k] \in Flights
      BY DEF TypeOK
    <3>2. flights[k].found \in SUBSET Users /\ flights[k].count \in Nat
      BY <3>1 DEF Flights
    <3> QED
      BY <1>2, <3>2 DEF QueryDone, Submit
  <2> QED
    BY <1>0, <2>1, <2>2, TaskShape DEF TypeOK
<1>3. CASE QueryFail(k)
  <2>1. /\ flights' = [flights EXCEPT ![k] = NoFlight] /\ NoFlight \in Flights /\ tasks' = tasks
    BY <1>3 DEF QueryFail, NoFlight, Flights
  <2> QED
    BY <1>0, <2>1 DEF TypeOK
<1> QED
  BY <1>1, <1>2, <1>3 DEF Query

LEMMA ServeTypes ==
  ASSUME TypeOK, NEW c \in Clients, Serve(c)
  PROVE  /\ flights' \in [Keys -> Flights] /\ tasks' \subseteq Tasks /\ faults' \in Nat
         /\ UNCHANGED <<rows, count, tx, names, counts, exposed>>
<1>0. /\ UNCHANGED <<rows, count, tx, names, counts, exposed>>
      /\ faults' = faults \/ faults' = faults + 1
  BY DEF Serve, CacheHit, CacheMiss, NamesRead, NamesFail, Answer, Fault, db, redis
<1>1. flights' \in [Keys -> Flights]
  <2>1. CASE CacheMiss(c)
    <3>1. flights' = flights \/ \E k : flights' = [flights EXCEPT ![k].stage = "started"]
      BY <2>1 DEF CacheMiss
    <3>2. \A f \in Flights : [f EXCEPT !.stage = "started"] \in Flights
      BY DEF Flights
    <3> QED
      BY <3>1, <3>2 DEF TypeOK
  <2>2. CASE ~CacheMiss(c)
    BY <2>2, ServeMoves DEF TypeOK
  <2> QED
    BY <2>1, <2>2
<1>2. tasks' \subseteq Tasks
  <2>1. CASE NamesRead(c)
    <3>1. PICK S \in NamesFound(reqs[c].who) :
            tasks' = tasks \/ tasks' = tasks \cup {NamesTask(S)}
      BY <2>1 DEF NamesRead, Submit
    <3>2. S \in SUBSET Users
      BY <3>1 DEF NamesFound, TypeOK
    <3> QED
      BY <3>1, <3>2, TaskShape DEF TypeOK
  <2>2. CASE ~NamesRead(c)
    <3>1. tasks' = tasks
      BY <2>2 DEF Serve, CacheHit, CacheMiss, NamesFail, Answer
    <3> QED
      BY <3>1 DEF TypeOK
  <2> QED
    BY <2>1, <2>2
<1> QED
  BY <1>0, <1>1, <1>2 DEF TypeOK

(* What a deletion of both keys does, and one that fails.                  *)
LEMMA DropMoves ==
  ASSUME TypeOK, NEW u \in Users, (Drop(u) /\ UNCHANGED faults) \/ DropFail(u)
  PROVE  /\ names' \subseteq Users /\ exposed' \subseteq Users /\ faults' \in Nat
         /\ counts' \in [Users -> Nat \cup {None}]
         /\ \A x \in Users \ {u} : counts'[x] = counts[x] /\ (x \in exposed' <=> x \in exposed)
         /\ counts'[u] = None \/ (counts'[u] = counts[u] /\ u \in exposed')
<1>1. CASE Drop(u) /\ UNCHANGED faults
  BY <1>1 DEF Drop, TypeOK
<1>2. CASE DropFail(u)
  <2>1. faults' \in Nat /\ names' \subseteq Users
    BY <1>2 DEF DropFail, Fault, TypeOK
  <2> QED
    BY <1>2, <2>1 DEF DropFail, TypeOK
<1> QED
  BY <1>1, <1>2

(* What the cache write of a profile does.                                 *)
LEMMA AddMoves ==
  ASSUME TypeOK, NEW u \in Users, NEW v \in Nat, NEW n \in 0 .. 3, AddProfile(u, v, n)
  PROVE  /\ names' \subseteq Users /\ exposed' \subseteq Users
         /\ counts' \in [Users -> Nat \cup {None}]
         /\ \A x \in Users \ {u} : counts'[x] = counts[x] /\ (x \in exposed' <=> x \in exposed)
         /\ \/ counts'[u] = counts[u] /\ (u \in exposed' <=> u \in exposed)
            \/ counts'[u] = v /\ (v # count[u] \/ tx[u] = "dropped" => u \in exposed')
<1>1. CASE n > 1
  BY <1>1 DEF AddProfile, TypeOK
<1>2. CASE ~(n > 1)
  BY <1>2 DEF AddProfile, TypeOK
<1> QED
  BY <1>1, <1>2

LEMMA TaskTypes ==
  ASSUME TypeOK, NEW k \in tasks, RunTask(k)
  PROVE  /\ names' \subseteq Users /\ exposed' \subseteq Users /\ faults' \in Nat
         /\ counts' \in [Users -> Nat \cup {None}] /\ tasks' \subseteq Tasks
         /\ UNCHANGED <<rows, count, tx, reqs, flights>>
<1>k. k \in Tasks /\ k.who \in SUBSET Users /\ k.count \in Nat
  BY DEF TypeOK, Tasks
<1>u. UNCHANGED <<rows, count, tx, reqs, flights>>
  BY DEF RunTask, RunProfile, RunDrop, RunNames, db
<1>1. CASE RunProfile(k)
  <2>1. PICK u \in k.who : \E n \in 0 .. 3 :
               /\ AddProfile(u, k.count, n)
               /\ faults' = faults \/ faults' = faults + 1
               /\ tasks' = tasks \ {k} \/ tasks' = (tasks \ {k}) \cup {DropTask(u)}
    <3>1. PICK u \in k.who :
             \/ AddProfile(u, k.count, 3) /\ tasks' = tasks \ {k} /\ faults' = faults
             \/ \E n \in 0 .. 2 : /\ AddProfile(u, k.count, n) /\ faults' = faults + 1
                                  /\ tasks' = (tasks \ {k}) \cup {DropTask(u)}
      BY <1>1 DEF RunProfile, Fault
    <3>2. 3 \in 0 .. 3 /\ 0 .. 2 \subseteq 0 .. 3
      OBVIOUS
    <3> QED
      BY <3>1, <3>2
  <2>2. u \in Users
    BY <1>k
  <2>3. tasks' \subseteq Tasks /\ faults' \in Nat
    BY <2>1, <2>2, TaskShape, <1>k DEF TypeOK
  <2> QED
    BY <1>k, <1>u, <2>1, <2>2, <2>3, AddMoves
<1>2. CASE RunDrop(k)
  <2>1. PICK u \in k.who : (Drop(u) /\ UNCHANGED faults) \/ DropFail(u)
    BY <1>2 DEF RunDrop
  <2>2. tasks' \subseteq Tasks
    BY <1>2 DEF RunDrop, TypeOK
  <2> QED
    BY <1>k, <1>u, <2>1, <2>2, DropMoves
<1>3. CASE RunNames(k)
  <2>1. names' \subseteq names \cup k.who /\ (faults' = faults \/ faults' = faults + 1)
    BY <1>3 DEF RunNames, Fault
  <2> QED
    BY <1>k, <1>u, <1>3, <2>1 DEF RunNames, TypeOK
<1> QED
  BY <1>1, <1>2, <1>3 DEF RunTask

LEMMA TypeNext == TypeOK /\ [Next]_vars => TypeOK'
<1> SUFFICES ASSUME TypeOK, [Next]_vars PROVE TypeOK'
  OBVIOUS
<1>r. reqs' \in [Clients -> Requests]
  BY RequestsMove
<1>1. ASSUME NEW u \in Users, Register(u) \/ Update(u) \/ Rollback(u) \/ Expire(u) PROVE TypeOK'
  BY <1>1, <1>r DEF Register, Update, Rollback, Expire, Fault, redis, db, TypeOK
<1>2. ASSUME NEW u \in Users, Invalidate(u) PROVE TypeOK'
  <2>1. /\ names' \subseteq Users /\ exposed' \subseteq Users /\ faults' \in Nat
        /\ counts' \in [Users -> Nat \cup {None}]
    BY <1>2, DropMoves DEF Invalidate
  <2> QED
    BY <1>2, <1>r, <2>1 DEF Invalidate, TypeOK
<1>3. ASSUME NEW u \in Users, Commit(u) PROVE TypeOK'
  <2>1. PICK n \in Adjusted(count[u]) : count' = [count EXCEPT ![u] = n]
    BY <1>3 DEF Commit
  <2>2. n \in Nat
    BY AccountsAssumption DEF Adjusted
  <2> QED
    BY <1>3, <1>r, <2>1, <2>2 DEF Commit, redis, TypeOK
<1>4. ASSUME NEW w \in Wanted, Arrive(w[1], w[2], w[3]) PROVE TypeOK'
  BY <1>4, <1>r DEF Arrive, db, redis, TypeOK
<1>5. ASSUME NEW c \in Clients, Serve(c) PROVE TypeOK'
  BY <1>5, <1>r, ServeTypes DEF TypeOK
<1>6. ASSUME NEW k \in Keys, Query(k) PROVE TypeOK'
  BY <1>6, <1>r, QueryTypes DEF TypeOK
<1>7. ASSUME NEW k \in tasks, RunTask(k) PROVE TypeOK'
  BY <1>7, <1>r, TaskTypes DEF TypeOK
<1>8. CASE Crash
  <2>1. NoFlight \in Flights
    BY DEF NoFlight, Flights
  <2> QED
    BY <1>8, <1>r, <2>1 DEF Crash, Fault, redis, TypeOK
<1>9. CASE UNCHANGED vars
  BY <1>9 DEF vars, TypeOK
<1> QED
  BY <1>1, <1>2, <1>3, <1>4, <1>5, <1>6, <1>7, <1>8, <1>9 DEF Next

(* Every reachable state of Accounts is well typed.                        *)
THEOREM TypeCorrect == Spec => []TypeOK
BY InitTyped, TypeNext, PTL DEF Spec

-----------------------------------------------------------------------------
(* Counts. *)

(* What is cached when a transaction has dropped the keys came after, or   *)
(* was not dropped.                                                        *)
DropsSeen == \A u \in Users : tx[u] = "dropped" /\ counts[u] # None => u \in exposed

CountsSeen(u) ==
  /\ counts[u] \notin {None, count[u]} => u \in exposed
  /\ tx[u] = "dropped" /\ counts[u] # None => u \in exposed

LEMMA SeenIs == CountsCovered /\ DropsSeen <=> \A u \in Users : CountsSeen(u)
BY DEF CountsCovered, DropsSeen, CountsSeen

LEMMA InitSeen == Init => CountsCovered /\ DropsSeen
BY DEF Init, CountsCovered, DropsSeen

LEMMA SeenNext ==
  ASSUME TypeOK, CountsCovered, DropsSeen, [Next]_vars
  PROVE  CountsCovered' /\ DropsSeen'
<1>s. SUFFICES ASSUME NEW u \in Users PROVE CountsSeen(u)'
  BY DEF CountsCovered, DropsSeen, CountsSeen
<1>i. CountsSeen(u)
  BY SeenIs
<1>k. ASSUME UNCHANGED <<count, tx, counts, exposed>> PROVE CountsSeen(u)'
  BY <1>i, <1>k DEF CountsSeen
<1>1. ASSUME NEW v \in Users, Invalidate(v) PROVE CountsSeen(u)'
  <2>1. count' = count /\ tx' = [tx EXCEPT ![v] = "dropped"]
    BY <1>1 DEF Invalidate
  <2>2. /\ \A x \in Users \ {v} : counts'[x] = counts[x] /\ (x \in exposed' <=> x \in exposed)
        /\ counts'[v] = None \/ (counts'[v] = counts[v] /\ v \in exposed')
    BY <1>1, DropMoves DEF Invalidate
  <2>3. CASE u = v
    BY <2>1, <2>2, <2>3 DEF CountsSeen
  <2>4. CASE u # v
    BY <1>i, <2>1, <2>2, <2>4 DEF CountsSeen, TypeOK
  <2> QED
    BY <2>3, <2>4
<1>2. ASSUME NEW v \in Users, Commit(v) PROVE CountsSeen(u)'
  <2>1. /\ tx[v] = "dropped" /\ tx' = [tx EXCEPT ![v] = "none"]
        /\ UNCHANGED <<counts, exposed>> /\ \A x \in Users \ {v} : count'[x] = count[x]
    BY <1>2 DEF Commit, redis, TypeOK
  <2>2. CASE u = v
    BY <1>i, <2>1, <2>2 DEF CountsSeen
  <2>3. CASE u # v
    BY <1>i, <2>1, <2>3 DEF CountsSeen, TypeOK
  <2> QED
    BY <2>2, <2>3
<1>3. ASSUME NEW v \in Users, Update(v) \/ Rollback(v) PROVE CountsSeen(u)'
  BY <1>i, <1>3 DEF Update, Rollback, redis, CountsSeen, TypeOK
<1>4. ASSUME NEW v \in Users, Expire(v) PROVE CountsSeen(u)'
  BY <1>i, <1>4 DEF Expire, db, CountsSeen, TypeOK
<1>5. ASSUME NEW v \in Users, Register(v) PROVE CountsSeen(u)'
  BY <1>k, <1>5 DEF Register, redis
<1>6. ASSUME NEW k \in tasks, RunTask(k) PROVE CountsSeen(u)'
  <2>k. k.who \in SUBSET Users /\ k.count \in Nat
    BY DEF TypeOK, Tasks
  <2>u. UNCHANGED <<count, tx>>
    BY <1>6, TaskTypes
  <2>1. CASE RunProfile(k)
    <3>1. PICK v \in k.who : \E n \in 0 .. 3 : AddProfile(v, k.count, n)
      BY <2>1 DEF RunProfile
    <3>2. /\ \A x \in Users \ {v} : counts'[x] = counts[x] /\ (x \in exposed' <=> x \in exposed)
          /\ \/ counts'[v] = counts[v] /\ (v \in exposed' <=> v \in exposed)
             \/ counts'[v] = k.count /\ (k.count # count[v] \/ tx[v] = "dropped" => v \in exposed')
      BY <2>k, <3>1, AddMoves
    <3> QED
      BY <1>i, <2>u, <3>2 DEF CountsSeen
  <2>2. CASE RunDrop(k)
    <3>1. PICK v \in k.who : (Drop(v) /\ UNCHANGED faults) \/ DropFail(v)
      BY <2>2 DEF RunDrop
    <3>2. /\ \A x \in Users \ {v} : counts'[x] = counts[x] /\ (x \in exposed' <=> x \in exposed)
          /\ counts'[v] = None \/ (counts'[v] = counts[v] /\ v \in exposed')
      BY <2>k, <3>1, DropMoves
    <3> QED
      BY <1>i, <2>u, <3>2 DEF CountsSeen
  <2>3. CASE RunNames(k)
    BY <1>k, <2>u, <2>3 DEF RunNames
  <2> QED
    BY <1>6, <2>1, <2>2, <2>3 DEF RunTask
<1>7. ASSUME NEW w \in Wanted, Arrive(w[1], w[2], w[3]) PROVE CountsSeen(u)'
  BY <1>k, <1>7 DEF Arrive, db, redis
<1>8. ASSUME NEW c \in Clients, Serve(c) PROVE CountsSeen(u)'
  BY <1>k, <1>8, ServeTypes
<1>9. ASSUME NEW k \in Keys, Query(k) PROVE CountsSeen(u)'
  BY <1>k, <1>9, QueryTypes
<1>10. CASE Crash
  BY <1>i, <1>10 DEF Crash, redis, CountsSeen
<1>11. CASE UNCHANGED vars
  BY <1>k, <1>11 DEF vars
<1> QED
  BY <1>1, <1>2, <1>3, <1>4, <1>5, <1>6, <1>7, <1>8, <1>9, <1>10, <1>11 DEF Next

(* A count that stays wrong was cached between the DEL of its transaction  *)
(* and the commit, from a row read before, or because a DEL failed.        *)
THEOREM CountsAreCovered == Spec => []CountsCovered
<1>1. TypeOK /\ CountsCovered /\ DropsSeen /\ [Next]_vars => CountsCovered' /\ DropsSeen'
  BY SeenNext
<1> QED
  BY <1>1, InitTyped, TypeNext, InitSeen, PTL DEF Spec

-----------------------------------------------------------------------------
(* Answers. *)

(* What is known of who is asked for was registered then.                  *)
Asked(c) == reqs[c].known \subseteq reqs[c].who \cap rows

Unanswered(c) == reqs[c].stage # "told" => reqs[c].reply = "none"

(* A query that a request has started, once read, found who was known.     *)
Led(c) ==
  reqs[c].stage = "wait" /\ ~reqs[c].joined =>
    \A k \in Keys : SfKey(reqs[c].op, reqs[c].who) = k /\ flights[k].stage = "read"
                      => reqs[c].known \subseteq flights[k].found

Truthful(c) ==
  /\ reqs[c].reply = "missing" /\ ~reqs[c].joined => reqs[c].known = {}
  /\ reqs[c].op = "names" /\ reqs[c].reply = "ok" => reqs[c].known \subseteq reqs[c].given

AnswersInv ==
  \A c \in Clients : Asked(c) /\ Unanswered(c) /\ Led(c) /\ Truthful(c)

LEMMA IdleTruthful ==
  ASSUME NEW c \in Clients, reqs[c] = Idle
  PROVE  Asked(c) /\ Unanswered(c) /\ Led(c) /\ Truthful(c)
BY IdleShape DEF Asked, Unanswered, Led, Truthful

LEMMA InitAnswers == Init => AnswersInv
BY IdleTruthful DEF Init, AnswersInv

LEMMA RowsGrow == ASSUME TypeOK, [Next]_vars PROVE rows \subseteq rows'
<1>1. ASSUME NEW u \in Users,
             \/ Register(u) \/ Expire(u) \/ Update(u) \/ Invalidate(u) \/ Commit(u) \/ Rollback(u)
      PROVE  rows \subseteq rows'
  BY <1>1 DEF Register, Expire, Update, Invalidate, Commit, Rollback, db
<1>2. ASSUME NEW w \in Wanted, Arrive(w[1], w[2], w[3]) PROVE rows \subseteq rows'
  BY <1>2 DEF Arrive, db
<1>3. CASE Crash \/ UNCHANGED vars
  BY <1>3 DEF Crash, vars
<1> QED
  BY <1>1, <1>2, <1>3, ServeTypes, QueryTypes, TaskTypes DEF Next

(* Who starts to wait as a leader starts a query; and what a query reads   *)
(* is there.                                                               *)
LEMMA FlightMoves ==
  ASSUME TypeOK, [Next]_vars, NEW k \in Keys, flights'[k].stage = "read"
  PROVE  /\ flights'[k] = flights[k] \/ flights'[k].found = rows \cap k[2]
         /\ \A c \in Clients :
              Waits(c) /\ SfKey(reqs[c].op, reqs[c].who) = k => reqs'[c].joined
<1>1. ASSUME NEW d \in Clients, CacheMiss(d)
      PROVE  /\ flights'[k] = flights[k]
             /\ \A c \in Clients :
                  Waits(c) /\ SfKey(reqs[c].op, reqs[c].who) = k => reqs'[c].joined
  <2>d. reqs[d].stage = "ask" /\ reqs[d] \in Busy
    BY <1>1, BusyIs DEF CacheMiss
  <2>1. CASE reqs[d].op = "names"
    <3>1. flights' = flights /\ Goes(d, "wait", FALSE)
      BY <1>1, <2>1 DEF CacheMiss
    <3>2. \A c \in Clients \ {d} : ~Waits(c)
      BY <2>d, <3>1, GoesShape DEF Waits
    <3>3. SfKey(reqs[d].op, reqs[d].who) # k
      BY <2>1, KeyShape DEF Ops
    <3> QED
      BY <3>1, <3>2, <3>3
  <2>2. CASE reqs[d].op # "names"
    <3> DEFINE m == SfKey(reqs[d].op, reqs[d].who)
    <3>1. /\ Goes(d, "wait", flights[m].stage # "none")
          /\ flights' = IF flights[m].stage = "none"
                        THEN [flights EXCEPT ![m].stage = "started"] ELSE flights
      BY <1>1, <2>2 DEF CacheMiss
    <3>2. \A c \in Clients \ {d} : ~Waits(c)
      BY <2>d, <3>1, GoesShape DEF Waits
    <3>3. reqs'[d].joined = (flights[m].stage # "none")
      BY <2>d, <3>1, GoesShape
    <3> HIDE DEF m
    <3>4. m = k => flights[k].stage # "none"
      BY <3>1 DEF TypeOK, Flights
    <3>5. flights'[k] = flights[k]
      BY <3>1, <3>4 DEF TypeOK
    <3> QED
      BY <3>2, <3>3, <3>4, <3>5 DEF m
  <2> QED
    BY <2>1, <2>2
<1>2. ASSUME NEW d \in Clients, Serve(d), ~CacheMiss(d)
      PROVE  flights' = flights /\ \A c \in Clients : ~Waits(c)
  BY <1>2, ServeMoves
<1>3. ASSUME NEW m \in Keys, Query(m)
      PROVE  /\ flights'[k] = flights[k] \/ flights'[k].found = rows \cap k[2]
             /\ \A c \in Clients : ~Waits(c)
  <2>1. CASE QueryRead(m)
    <3> DEFINE f == [stage |-> "read", found |-> Selected(m),
                     count |-> IF m[1] = "profile" /\ Selected(m) # {}
                               THEN count[CHOOSE u \in Selected(m) : TRUE] ELSE 0]
    <3>1. f.found = Selected(m) /\ flights' = [flights EXCEPT ![m] = f]
      BY <2>1 DEF QueryRead
    <3> HIDE DEF f
    <3> QED
      BY <1>3, <3>1, QueryMoves DEF Selected, TypeOK
  <2>2. CASE QueryDone(m) \/ QueryFail(m)
    <3>1. flights' = [flights EXCEPT ![m] = NoFlight] /\ NoFlight.stage = "none"
      BY <2>2 DEF QueryDone, QueryFail, NoFlight
    <3>2. m # k
      BY <3>1 DEF TypeOK
    <3> QED
      BY <1>3, <3>1, <3>2, QueryMoves DEF TypeOK
  <2> QED
    BY <1>3, <2>1, <2>2 DEF Query
<1>4. ASSUME NEW w \in Wanted, Arrive(w[1], w[2], w[3])
      PROVE  flights' = flights /\ \A c \in Clients : ~Waits(c)
  BY <1>4, ArriveMoves DEF Arrive
<1>5. CASE UNCHANGED <<reqs, flights>>
  BY <1>5 DEF Waits
<1>6. CASE flights' = [x \in Keys |-> NoFlight]
  BY <1>6 DEF NoFlight
<1> QED
  BY <1>1, <1>2, <1>3, <1>4, <1>5, <1>6, OthersKeep

LEMMA AnswersNext ==
  ASSUME TypeOK, AnswersInv, [Next]_vars
  PROVE  AnswersInv'
<1> SUFFICES ASSUME NEW c \in Clients PROVE (Asked(c) /\ Unanswered(c) /\ Led(c) /\ Truthful(c))'
  BY DEF AnswersInv
<1>i. Asked(c) /\ Unanswered(c) /\ Led(c) /\ Truthful(c)
  BY DEF AnswersInv
<1>m. Moves(c) /\ rows \subseteq rows'
  BY RequestsMove, RowsGrow
<1>1. CASE reqs'[c] = Idle
  BY <1>1, IdleShape DEF Asked, Unanswered, Led, Truthful
<1>2. CASE reqs'[c] = reqs[c]
  <2>1. Asked(c)' /\ Unanswered(c)' /\ Truthful(c)'
    BY <1>2, <1>i, <1>m DEF Asked, Unanswered, Truthful
  <2>2. ASSUME NEW k \in Keys, reqs[c].stage = "wait", ~reqs[c].joined,
               SfKey(reqs[c].op, reqs[c].who) = k, flights'[k].stage = "read"
        PROVE  reqs[c].known \subseteq flights'[k].found
    <3>1. flights'[k] = flights[k] \/ flights'[k].found = rows \cap k[2]
      BY <2>2, FlightMoves
    <3>2. k[2] = reqs[c].who
      <4>1. reqs[c] \in Busy
        BY <2>2, BusyIs
      <4> QED
        BY <2>2, <4>1, KeyShape DEF Busy
    <3>3. CASE flights'[k] = flights[k]
      BY <1>i, <2>2, <3>3 DEF Led
    <3>4. CASE flights'[k].found = rows \cap k[2]
      BY <1>i, <3>2, <3>4 DEF Asked
    <3> QED
      BY <3>1, <3>3, <3>4
  <2>3. Led(c)'
    BY <1>2, <2>2 DEF Led
  <2> QED
    BY <2>1, <2>3
<1>3. CASE Comes(c)
  BY <1>3, <1>m DEF Comes, Asked, Unanswered, Led, Truthful
<1>4. CASE Waits(c)
  <2>1. /\ Same(reqs'[c], reqs[c]) /\ reqs'[c].stage = "wait"
        /\ reqs[c].reply = "none" /\ reqs'[c].reply = "none"
    BY <1>4, <1>i DEF Waits, Unanswered
  <2>2. Asked(c)' /\ Unanswered(c)' /\ Truthful(c)'
    BY <1>i, <1>m, <2>1 DEF Asked, Unanswered, Truthful, Same
  <2>3. Led(c)'
    BY <1>4, <2>1, FlightMoves DEF Led, Same
  <2> QED
    BY <2>2, <2>3
<1>5. CASE Hears(c) /\ Heard(c)
  <2>1. /\ Same(reqs'[c], reqs[c]) /\ reqs'[c].joined = reqs[c].joined
        /\ reqs'[c].stage = "told"
    BY <1>5 DEF Hears
  <2>2. Asked(c)' /\ Unanswered(c)' /\ Led(c)'
    BY <1>i, <1>m, <2>1 DEF Asked, Unanswered, Led, Same
  <2>3. ASSUME reqs'[c].reply = "error" PROVE Truthful(c)'
    BY <2>3 DEF Truthful
  <2>4. ASSUME reqs'[c].reply = "ok", reqs[c].op \in {"exists", "profile", "names"},
               reqs[c].op = "names" => reqs'[c].given = reqs[c].who
        PROVE  Truthful(c)'
    BY <1>i, <2>1, <2>4 DEF Truthful, Same, Asked
  <2>5. ASSUME reqs'[c].reply = "ok", reqs[c].op = "names",
               reqs'[c].given = reqs[c].who \cap rows
        PROVE  Truthful(c)'
    BY <1>i, <2>1, <2>5 DEF Truthful, Same, Asked
  <2>6. ASSUME NEW k \in Keys, reqs[c].stage = "wait", SfKey(reqs[c].op, reqs[c].who) = k,
               flights[k].stage = "read", reqs'[c].reply = Reply(c, flights[k].found)
        PROVE  Truthful(c)'
    <3>1. reqs[c].op # "names"
      BY <2>6, KeyShape DEF Ops
    <3>2. ~reqs[c].joined => reqs[c].known \subseteq flights[k].found
      BY <1>i, <2>6 DEF Led
    <3> QED
      BY <2>1, <2>6, <3>1, <3>2 DEF Truthful, Reply, Same
  <2>7. Truthful(c)'
    BY <1>5, <2>3, <2>4, <2>5, <2>6 DEF Heard
  <2> QED
    BY <2>2, <2>7
<1> QED
  BY <1>m, <1>1, <1>2, <1>3, <1>4, <1>5 DEF Moves

LEMMA AnswersAlways == Spec => []AnswersInv
<1>1. TypeOK /\ AnswersInv /\ [Next]_vars => AnswersInv'
  BY AnswersNext
<1> QED
  BY <1>1, InitTyped, TypeNext, InitAnswers, PTL DEF Spec

(* Only a request that shares a query begun before it came is told that    *)
(* somebody who was registered by then is missing.                         *)
THEOREM MissingShared == Spec => []MissingOnlyShared
<1>1. AnswersInv => MissingOnlyShared
  BY DEF AnswersInv, Truthful, MissingOnlyShared
<1> QED
  BY <1>1, AnswersAlways, PTL

(* A list of names has everybody who was registered when it was asked for. *)
THEOREM NamesAreWhole == Spec => []NamesWhole
<1>1. AnswersInv => NamesWhole
  BY DEF AnswersInv, Truthful, NamesWhole
<1> QED
  BY <1>1, AnswersAlways, PTL

(* So nobody is missing from an answer who was there when the question     *)
(* came, however reads, registrations and the cache interleave.            *)
THEOREM NobodyIsMissing == Spec => []NobodyMissing
<1>1. MissingOnlyShared /\ NamesWhole => NobodyMissing
  BY DEF NobodyMissing
<1> QED
  BY <1>1, MissingShared, NamesAreWhole, PTL
=============================================================================
