------------------------------- MODULE Follow -------------------------------
(***************************************************************************)
(* The follow relation of AITA: the follow service and repository over the *)
(* follows table, the two counters of the users table, and the lists of    *)
(* followers and followings cached in Redis.                               *)
(*                                                                         *)
(* Follow runs in a transaction: the row, the target's follower count, the *)
(* user's following count, commit.  The task that adds the relation to the *)
(* cached lists is submitted right after the insert.  UnFollow runs in a   *)
(* transaction too, but its DELETE is given the connection pool and not    *)
(* the transaction: it takes a second connection and commits on its own.   *)
(*                                                                         *)
(* Postgres is modelled from how src/ uses it: READ COMMITTED, a row lock  *)
(* per updated user, an insert that waits for an equal uncommitted one,    *)
(* and the abort of a transaction found waiting in a circle.  In Redis an  *)
(* empty sorted set is no key: a list is cached if it has a member.        *)
(* Accounts are never deleted and their names never change, so the Exists  *)
(* check and the cache of names keep no state here.                        *)
(***************************************************************************)
EXTENDS Naturals, FiniteSets

CONSTANTS
  Users,
  Clients,      \* requests that may run at the same time
  Conns,        \* DBMaxOpenConns
  PoolSize,     \* BackfillPoolSize
  ListCap,      \* rows a list query returns (1000)
  Transactors,  \* "sql" or "nil": what NewFollowService is built with
  Wanted,       \* bound: the requests, <<operation, relation>>
  MaxCount,     \* bound: counters, when a request arrives
  MaxFaults     \* bound: infrastructure faults in a behaviour

(* A relation <<follower, following>>; no_self_follow excludes the rest. *)
Pairs == {p \in Users \X Users : p[1] # p[2]}

ASSUME FollowAssumption ==
  /\ IsFiniteSet(Users) /\ IsFiniteSet(Clients)
  /\ Conns \in Nat /\ PoolSize \in Nat /\ ListCap \in Nat /\ MaxCount \in Nat
  /\ MaxFaults \in Nat
  /\ Transactors \subseteq {"sql", "nil"}
  /\ Wanted \subseteq {"follow", "unfollow", "relation", "followers", "followings"} \X Pairs

VARIABLES
  transactor,  \* the service's transactionManager
  follows,     \* committed rows of the follows table
  count,       \* follower_count and following_count, committed
  cached,      \* per kind of list, the relations in Redis
  tasks,       \* cache writes submitted to the pool
  load,        \* list loads, one at a time per list
  flight,      \* relation queries, one at a time per two users
  reqs,        \* requests, by client
  faults,
  inserted, lost, spurious, late   \* history, see below

db      == <<follows, count>>
history == <<inserted, lost, spurious, late>>
vars == <<transactor, follows, count, cached, tasks, load, flight, reqs, faults,
          inserted, lost, spurious, late>>

(* inserted: relations some transaction has inserted, committed or not;    *)
(* lost, spurious: decrements that were rolled back after their DELETE,    *)
(* and decrements although the DELETE found no row; late: relations that a *)
(* rollback, a failure or a late cache write may have left cached.         *)

-----------------------------------------------------------------------------
(* The two lists of a user, and the counters that go with them. *)
Kinds == {"followers", "followings"}
Keys  == Kinds \X Users

KeyOf(kind, p) == IF kind = "followers" THEN <<kind, p[2]>> ELSE <<kind, p[1]>>
KeysOf(p) == {KeyOf(kind, p) : kind \in Kinds}

(* The relations among S that belong to the list k. *)
Side(k, S) == {p \in S : KeyOf(k[1], p) = k}

List(k) == Side(k, cached[k[1]])

AddTask(p)        == [do |-> "add", kind |-> "followers", pairs |-> {p}]
FillTask(kind, S) == [do |-> "fill", kind |-> kind, pairs |-> S]

Tasks == [do : {"add", "fill"}, kind : Kinds, pairs : SUBSET Pairs]

NoLoad == [stage |-> "none", list |-> {}]
Loads == [stage : {"none", "missed", "read"}, list : SUBSET Pairs]

(* "rel:low:high": one key for both directions. *)
SfKey(p) == {p[1], p[2]}
Duos == {SfKey(p) : p \in Pairs}

NoFlight == [stage |-> "none", view |-> {}, rows |-> {}]
Flights == [stage : {"none", "started", "read"},
            view : {{}} \cup {{p} : p \in Pairs}, rows : SUBSET Pairs]

Idle == [op |-> "none", pair |-> <<>>, stage |-> "free", hit |-> FALSE,
         own |-> FALSE, claims |-> {}]
Stages == {"begin", "insert", "delete", "drop", "first", "second", "commit",
           "panicked", "ask", "wait", "told"}
Requests == [op : {"follow", "unfollow", "relation"}, pair : Pairs,
             stage : Stages, hit : BOOLEAN, own : BOOLEAN,
             claims : SUBSET Pairs] \cup {Idle}

Init ==
  /\ transactor \in Transactors
  /\ follows = {} /\ count = [k \in Keys |-> 0]
  /\ cached = [kind \in Kinds |-> {}]
  /\ tasks = {} /\ load = [k \in Keys |-> NoLoad]
  /\ flight = [s \in Duos |-> NoFlight]
  /\ reqs = [c \in Clients |-> Idle]
  /\ faults = 0
  /\ inserted = {} /\ late = {}
  /\ lost = [k \in Keys |-> 0] /\ spurious = [k \in Keys |-> 0]

Fault == faults < MaxFaults /\ faults' = faults + 1

At(c, op, stage) == reqs[c].op = op /\ reqs[c].stage = stage
Goes(c, stage)   == reqs' = [reqs EXCEPT ![c].stage = stage]
Ends(c)          == reqs' = [reqs EXCEPT ![c] = Idle]

-----------------------------------------------------------------------------
(* Connections and locks, as the requests' stages imply them.  A           *)
(* transaction holds its connection to the end, the target's row from its  *)
(* first update on and the user's row from its second.                     *)
InTx(c) == reqs[c].stage \in {"insert", "delete", "drop", "first", "second", "commit"}

FreeConn == Cardinality({c \in Clients : InTx(c)}) < Conns

Holds(c, u) ==
  \/ reqs[c].stage \in {"second", "commit"} /\ reqs[c].pair[2] = u
  \/ reqs[c].stage = "commit" /\ reqs[c].pair[1] = u

(* A transaction that has inserted the relation and not committed it. *)
Inserting(c, p) ==
  /\ reqs[c].op = "follow" /\ reqs[c].pair = p
  /\ reqs[c].stage \in {"first", "second", "commit"}

(* The transactions that make c wait: at most one. *)
Blockers(c) ==
  {d \in Clients \ {c} :
     \/ At(c, "follow", "insert") /\ Inserting(d, reqs[c].pair)
     \/ reqs[c].stage = "first" /\ Holds(d, reqs[c].pair[2])
     \/ reqs[c].stage = "second" /\ Holds(d, reqs[c].pair[1])}

(* c waits in a circle. *)
Deadlocked(c) ==
  \E S \in SUBSET Clients :
    /\ c \in S
    /\ \A d \in S : \E e \in S : e \in Blockers(d)
    /\ \A e \in S : \E d \in S : e \in Blockers(d)

-----------------------------------------------------------------------------
(* The bounds: a counter that has reached MaxCount is not raised further. *)
Room(op, p) ==
  \A k \in KeysOf(p) :
    /\ op = "follow" => count[k] < MaxCount
    /\ op = "unfollow" => lost[k] < MaxCount /\ spurious[k] < MaxCount

Arrive(c, op, p) ==
  /\ reqs[c] = Idle /\ <<op, p>> \in Wanted /\ op \notin Kinds /\ Room(op, p)
  /\ reqs' = [reqs EXCEPT ![c] =
                [Idle EXCEPT !.op = op, !.pair = p,
                             !.stage = IF op = "relation" THEN "ask" ELSE "begin"]]
  /\ UNCHANGED <<transactor, db, cached, tasks, load, flight, faults, history>>

(* A request about oneself or about nobody is refused at once. *)
Refused(c) == reqs[c] = Idle /\ UNCHANGED vars

(* Exec of a nil transaction manager: the handler panics, gin recovers. *)
Panic(c) ==
  /\ reqs[c].stage = "begin" /\ transactor = "nil"
  /\ Goes(c, "panicked")
  /\ UNCHANGED <<transactor, db, cached, tasks, load, flight, faults, history>>

Begin(c) ==
  /\ reqs[c].stage = "begin" /\ transactor = "sql" /\ FreeConn
  /\ Goes(c, IF reqs[c].op = "follow" THEN "insert" ELSE "delete")
  /\ UNCHANGED <<transactor, db, cached, tasks, load, flight, faults, history>>

(* The Exists check or the BEGIN fails. *)
BeginFail(c) ==
  /\ reqs[c].stage = "begin" /\ Fault
  /\ Ends(c)
  /\ UNCHANGED <<transactor, db, cached, tasks, load, flight, history>>

Submit(k) == Cardinality(tasks) < PoolSize /\ tasks' = tasks \cup {k}

(* INSERT, waiting for an equal one to end; then, before the commit, the   *)
(* task that adds the relation to the cached lists.                        *)
Insert(c) ==
  /\ At(c, "follow", "insert") /\ Blockers(c) = {}
  /\ reqs[c].pair \notin follows
  /\ inserted' = inserted \cup {reqs[c].pair}
  /\ Submit(AddTask(reqs[c].pair))
  /\ Goes(c, "first")
  /\ UNCHANGED <<transactor, db, cached, load, flight, faults, lost, spurious, late>>

(* Mutant: ON CONFLICT DO NOTHING. *)
InsertIgnored(c) ==
  /\ At(c, "follow", "insert") /\ reqs[c].pair \in follows
  /\ Goes(c, "first")
  /\ UNCHANGED <<transactor, db, cached, tasks, load, flight, faults, history>>

(* ErrAlreadyFollowing rolls the transaction back. *)
InsertRefused(c) ==
  /\ At(c, "follow", "insert") /\ reqs[c].pair \in follows
  /\ Ends(c)
  /\ UNCHANGED <<transactor, db, cached, tasks, load, flight, faults, history>>

(* DELETE on a connection of its own, committed at once; it is no error    *)
(* when there is no such row.                                              *)
Delete(c) ==
  /\ At(c, "unfollow", "delete") /\ FreeConn
  /\ follows' = follows \ {reqs[c].pair}
  /\ reqs' = [reqs EXCEPT ![c].stage = "drop", ![c].hit = reqs[c].pair \in follows]
  /\ UNCHANGED <<transactor, count, cached, tasks, load, flight, faults, history>>

(* Mutant: the list of followings only. *)
DroppedOwn(p, n) ==
  [kind \in Kinds |->
     IF n > 0 /\ kind = "followings"
     THEN cached[kind] \ Side(KeyOf(kind, p), Pairs) ELSE cached[kind]]

(* InvalidatePair: DEL of the follower's list, then of the other's, the    *)
(* first n of them applied.                                                *)
Dropped(p, n) ==
  [kind \in Kinds |->
     IF n = 2 \/ (n = 1 /\ kind = "followings")
     THEN cached[kind] \ Side(KeyOf(kind, p), Pairs) ELSE cached[kind]]

(* Its failure is ignored. *)
Drop(c) ==
  /\ At(c, "unfollow", "drop")
  /\ \/ cached' = Dropped(reqs[c].pair, 2) /\ UNCHANGED <<faults, late>>
     \/ /\ Fault /\ late' = late \cup {reqs[c].pair}
        /\ \E n \in 0 .. 1 : cached' = Dropped(reqs[c].pair, n)
  /\ Goes(c, "first")
  /\ UNCHANGED <<transactor, db, tasks, load, flight, inserted, lost, spurious>>

(* UPDATE of the target's follower_count. *)
First(c) ==
  /\ reqs[c].stage = "first" /\ Blockers(c) = {}
  /\ Goes(c, "second")
  /\ UNCHANGED <<transactor, db, cached, tasks, load, flight, faults, history>>

(* Mutant: the second update is not part of the transaction. *)
SecondUnlocked(c) ==
  /\ reqs[c].stage = "second"
  /\ Goes(c, "commit")
  /\ UNCHANGED <<transactor, db, cached, tasks, load, flight, faults, history>>

(* UPDATE of the user's following_count. *)
Second(c) ==
  /\ reqs[c].stage = "second" /\ Blockers(c) = {}
  /\ Goes(c, "commit")
  /\ UNCHANGED <<transactor, db, cached, tasks, load, flight, faults, history>>

(* Mutant: no GREATEST. *)
AdjustedBelow(op, n) == IF op = "follow" THEN n + 1 ELSE n - 1

(* GREATEST(0, n + delta) *)
Adjusted(op, n) == IF op = "follow" THEN n + 1 ELSE IF n = 0 THEN 0 ELSE n - 1

Plus(f, K) == [k \in Keys |-> IF k \in K THEN f[k] + 1 ELSE f[k]]

Commit(c) ==
  LET r == reqs[c]
  IN /\ r.stage = "commit"
     /\ count' = [k \in Keys |-> IF k \in KeysOf(r.pair) THEN Adjusted(r.op, count[k])
                                 ELSE count[k]]
     /\ follows' = IF r.op = "follow" THEN follows \cup {r.pair} ELSE follows
     /\ spurious' = IF r.op = "unfollow" /\ ~r.hit THEN Plus(spurious, KeysOf(r.pair))
                    ELSE spurious
     /\ Ends(c)
     /\ UNCHANGED <<transactor, cached, tasks, load, flight, faults, inserted, lost, late>>

(* Mutant: a failed transaction is left open, with its locks. *)
RollbackNothing(c) ==
  /\ InTx(c) /\ (Fault \/ (Deadlocked(c) /\ UNCHANGED faults))
  /\ UNCHANGED <<transactor, db, cached, tasks, load, flight, reqs, history>>

(* The transaction is a deadlock's victim, or a statement, the commit or   *)
(* the client's connection fails.  A DELETE stays done.                    *)
Rollback(c) ==
  /\ InTx(c) /\ (Fault \/ (Deadlocked(c) /\ UNCHANGED faults))
  /\ lost' = IF reqs[c].hit THEN Plus(lost, KeysOf(reqs[c].pair)) ELSE lost
  /\ late' = IF Inserting(c, reqs[c].pair) \/ reqs[c].stage = "drop"
             THEN late \cup {reqs[c].pair} ELSE late
  /\ Ends(c)
  /\ UNCHANGED <<transactor, db, cached, tasks, load, flight, inserted, spurious>>

-----------------------------------------------------------------------------
(* GetRelation reads both lists of the user; unless both are cached, one   *)
(* query per two users answers everybody who asks meanwhile.               *)

Reversed(p) == <<p[2], p[1]>>

(* Mutant: a row counts for both directions. *)
ClaimsBoth(p, view, rows) == IF rows = {} THEN {} ELSE {p, Reversed(p)}

(* What an answer about "view" says when it is given to one who asked      *)
(* about p: following is read as p, followed_by as its reverse.            *)
Claims(p, view, rows) ==
  (IF view \in rows THEN {p} ELSE {})
    \cup (IF Reversed(view) \in rows THEN {Reversed(p)} ELSE {})

Told(c, own, claims) ==
  [reqs[c] EXCEPT !.stage = "told", !.own = own, !.claims = claims]

CacheSays(p) ==
  (IF p \in cached["followings"] THEN {p} ELSE {})
    \cup (IF Reversed(p) \in cached["followers"] THEN {Reversed(p)} ELSE {})

BothCached(u) == List(<<"followings", u>>) # {} /\ List(<<"followers", u>>) # {}

AskHit(c) ==
  /\ reqs[c].stage = "ask" /\ BothCached(reqs[c].pair[1])
  /\ reqs' = [reqs EXCEPT ![c] = Told(c, TRUE, CacheSays(reqs[c].pair))]
  /\ UNCHANGED <<transactor, db, cached, tasks, load, flight, faults, history>>

AskMiss(c) ==
  LET p == reqs[c].pair
      s == SfKey(p)
  IN /\ reqs[c].stage = "ask"
     /\ IF BothCached(p[1]) THEN Fault ELSE UNCHANGED faults
     /\ Goes(c, "wait")
     /\ flight' = IF flight[s].stage = "none"
                  THEN [flight EXCEPT ![s] = [NoFlight EXCEPT !.stage = "started",
                                                              !.view = {p}]]
                  ELSE flight
     /\ UNCHANGED <<transactor, db, cached, tasks, load, history>>

RelationRead(s) ==
  /\ flight[s].stage = "started" /\ FreeConn
  /\ flight' = [flight EXCEPT ![s].stage = "read",
                              ![s].rows = {p \in follows : SfKey(p) = s}]
  /\ UNCHANGED <<transactor, db, cached, tasks, load, reqs, faults, history>>

RelationDone(s) ==
  /\ flight[s].stage = "read"
  /\ \E view \in flight[s].view :
       reqs' = [c \in Clients |->
                  IF reqs[c].stage = "wait" /\ SfKey(reqs[c].pair) = s
                  THEN Told(c, reqs[c].pair = view,
                            Claims(reqs[c].pair, view, flight[s].rows))
                  ELSE reqs[c]]
  /\ flight' = [flight EXCEPT ![s] = NoFlight]
  /\ UNCHANGED <<transactor, db, cached, tasks, load, faults, history>>

RelationFail(s) ==
  /\ flight[s].stage # "none" /\ Fault
  /\ reqs' = [c \in Clients |->
                IF reqs[c].stage = "wait" /\ SfKey(reqs[c].pair) = s
                THEN Idle ELSE reqs[c]]
  /\ flight' = [flight EXCEPT ![s] = NoFlight]
  /\ UNCHANGED <<transactor, db, cached, tasks, load, history>>

Answer(c) ==
  /\ reqs[c].stage \in {"told", "panicked"}
  /\ Ends(c)
  /\ UNCHANGED <<transactor, db, cached, tasks, load, flight, faults, history>>

-----------------------------------------------------------------------------
(* GetFollowers and GetFollowings: a list that is not cached, or whose     *)
(* read fails, is loaded, and a task adds what was loaded to the cache.    *)

ListMiss(k) ==
  /\ \E p \in Pairs : <<k[1], p>> \in Wanted /\ k = KeyOf(k[1], p)
  /\ load[k].stage = "none"
  /\ IF List(k) = {} THEN UNCHANGED faults ELSE Fault
  /\ load' = [load EXCEPT ![k].stage = "missed"]
  /\ UNCHANGED <<transactor, db, cached, tasks, flight, reqs, history>>

(* The newest ListCap rows. *)
Listed(S) ==
  IF Cardinality(S) <= ListCap THEN {S}
  ELSE {b \in SUBSET S : Cardinality(b) = ListCap}

ListRead(k) ==
  /\ load[k].stage = "missed" /\ FreeConn
  /\ \E list \in Listed(Side(k, follows)) :
       load' = [load EXCEPT ![k] = [stage |-> "read", list |-> list]]
  /\ UNCHANGED <<transactor, db, cached, tasks, flight, reqs, faults, history>>

ListDone(k) ==
  /\ load[k].stage = "read"
  /\ IF load[k].list = {} THEN UNCHANGED tasks ELSE Submit(FillTask(k[1], load[k].list))
  /\ load' = [load EXCEPT ![k] = NoLoad]
  /\ UNCHANGED <<transactor, db, cached, flight, reqs, faults, history>>

ListFail(k) ==
  /\ load[k].stage # "none" /\ Fault
  /\ load' = [load EXCEPT ![k] = NoLoad]
  /\ UNCHANGED <<transactor, db, cached, tasks, flight, reqs, history>>

-----------------------------------------------------------------------------
(* The pool tasks. *)

(* A cached relation that is not in the table is all right for as long as  *)
(* a transaction is about to commit it, or an UnFollow to drop the lists.  *)
Covered(p) ==
  \E c \in Clients :
    Inserting(c, p) \/ (At(c, "unfollow", "drop") /\ reqs[c].pair = p)

Lingering(S) == late' = late \cup {p \in S : p \notin follows /\ ~Covered(p)}

(* Mutant: the two ids of a member are mixed up. *)
AddedReversed(p) ==
  [kind \in Kinds |-> IF List(KeyOf(kind, p)) = {} THEN cached[kind]
                      ELSE cached[kind] \cup {Reversed(p)}]

(* addFollowLua: a relation is added to the lists that exist. *)
Added(p) ==
  [kind \in Kinds |-> IF List(KeyOf(kind, p)) = {} THEN cached[kind]
                      ELSE cached[kind] \cup {p}]

RunAdd(k) ==
  /\ k \in tasks /\ k.do = "add"
  /\ tasks' = tasks \ {k}
  /\ \E p \in k.pairs : cached' = Added(p)
  /\ Lingering(k.pairs)
  /\ UNCHANGED <<transactor, db, load, flight, reqs, faults, inserted, lost, spurious>>

(* The script fails and the two lists are dropped, or the first of them,   *)
(* or neither.                                                             *)
RunAddFail(k) ==
  /\ k \in tasks /\ k.do = "add" /\ Fault
  /\ tasks' = tasks \ {k}
  /\ \E p \in k.pairs, n \in 0 .. 2 : cached' = Dropped(p, n)
  /\ UNCHANGED <<transactor, db, load, flight, reqs, history>>

(* ZADD of all that was loaded, to what is cached by now. *)
RunFill(k) ==
  /\ k \in tasks /\ k.do = "fill"
  /\ tasks' = tasks \ {k}
  /\ cached' = [cached EXCEPT ![k.kind] = @ \cup k.pairs]
  /\ Lingering(k.pairs)
  /\ UNCHANGED <<transactor, db, load, flight, reqs, faults, inserted, lost, spurious>>

RunFillFail(k) ==
  /\ k \in tasks /\ k.do = "fill" /\ Fault
  /\ tasks' = tasks \ {k}
  /\ UNCHANGED <<transactor, db, cached, load, flight, reqs, history>>

(* A list's time to live ends. *)
Expire(k) ==
  /\ List(k) # {}
  /\ cached' = [cached EXCEPT ![k[1]] = @ \ List(k)]
  /\ UNCHANGED <<transactor, db, tasks, load, flight, reqs, faults, history>>

(* Decrements still to be committed after their DELETE removed a row. *)
Owing(k) == {c \in Clients : reqs[c].hit /\ k \in KeysOf(reqs[c].pair)}

(* The process dies: the database rolls back, pool tasks are gone. *)
Crash ==
  /\ Fault
  /\ lost' = [k \in Keys |-> lost[k] + Cardinality(Owing(k))]
  /\ late' = late \cup {p \in Pairs : Covered(p)}
  /\ reqs' = [c \in Clients |-> Idle] /\ tasks' = {}
  /\ load' = [k \in Keys |-> NoLoad] /\ flight' = [s \in Duos |-> NoFlight]
  /\ UNCHANGED <<transactor, db, cached, inserted, spurious>>

-----------------------------------------------------------------------------
Transaction(c) ==
  \/ Panic(c) \/ Begin(c) \/ BeginFail(c) \/ Insert(c) \/ InsertRefused(c)
  \/ Delete(c) \/ Drop(c) \/ First(c) \/ Second(c) \/ Commit(c) \/ Rollback(c)

Relation(s) == RelationRead(s) \/ RelationDone(s) \/ RelationFail(s)

Serve(c) == Transaction(c) \/ AskHit(c) \/ AskMiss(c) \/ Answer(c)

ListLoad(k) == ListRead(k) \/ ListDone(k) \/ ListFail(k)

RunTask(k) == RunAdd(k) \/ RunAddFail(k) \/ RunFill(k) \/ RunFillFail(k)

Next ==
  \/ \E c \in Clients : Refused(c) \/ Serve(c) \/ \E w \in Wanted : Arrive(c, w[1], w[2])
  \/ \E s \in Duos : Relation(s)
  \/ \E k \in Keys : ListMiss(k) \/ ListLoad(k) \/ Expire(k)
  \/ \E k \in tasks : RunTask(k)
  \/ Crash

(* Handlers and pool tasks run on.  Waiting for a connection is in order   *)
(* of arrival, and so is waiting for a lock: who is enabled again and      *)
(* again gets it.                                                          *)
Fairness ==
  /\ \A c \in Clients : SF_vars(Serve(c))
  /\ \A s \in Duos : SF_vars(Relation(s))
  /\ WF_vars(\E k \in tasks : RunTask(k))

Spec == Init /\ [][Next]_vars
FairSpec == Spec /\ Fairness

-----------------------------------------------------------------------------
(* Types of the state, history included. *)
TypeOK ==
  /\ transactor \in {"sql", "nil"}
  /\ follows \subseteq Pairs /\ inserted \subseteq Pairs /\ late \subseteq Pairs
  /\ count \in [Keys -> Nat] /\ lost \in [Keys -> Nat] /\ spurious \in [Keys -> Nat]
  /\ cached \in [Kinds -> SUBSET Pairs]
  /\ tasks \subseteq Tasks
  /\ load \in [Keys -> Loads]
  /\ flight \in [Duos -> Flights]
  /\ reqs \in [Clients -> Requests]
  /\ faults \in Nat

(* A user's follower and following counts differ from the rows only as far *)
(* as the UnFollow calls account for: one too many for each decrement that *)
(* is still to come or was rolled back after the DELETE (which commits on  *)
(* its own), one too few for each UnFollow of somebody who was not         *)
(* followed.  Follow alone, with its row and both counts in a transaction, *)
(* never makes them differ.                                                *)
CountsExplained ==
  \A k \in Keys :
    LET rows == Cardinality(Side(k, follows)) + Cardinality(Owing(k))
    IN count[k] <= rows + lost[k] /\ rows <= count[k] + spurious[k]

(* Nothing is invented: a relation that is cached, about to be cached, or  *)
(* told to somebody by the cache or his own query was inserted by some     *)
(* Follow before (which may have been rolled back).                        *)
NothingInvented ==
  /\ \A kind \in Kinds : cached[kind] \subseteq inserted
  /\ \A k \in tasks : k.pairs \subseteq inserted
  /\ \A c \in Clients : reqs[c].own => reqs[c].claims \subseteq inserted

(* A cached follower whose row is gone is about to be dropped, or its row  *)
(* about to be committed, unless a rollback, a failed invalidation or a    *)
(* cache write that came late left it there: UnFollow drops the lists once *)
(* and after the DELETE, which covers every earlier cache write.           *)
PhantomCovered ==
  \A kind \in Kinds : \A p \in cached[kind] \ (follows \cup late) : Covered(p)

(* A transaction that waits waits for one other only, so that "in a        *)
(* circle" is what the database looks for; and no user's row, and no       *)
(* relation about to be committed, is in the hands of two transactions.    *)
LocksExclusive ==
  /\ \A c, d \in Clients, u \in Users : Holds(c, u) /\ Holds(d, u) => c = d
  /\ \A c, d \in Clients, p \in Pairs : Inserting(c, p) /\ Inserting(d, p) => c = d
  /\ \A c \in Clients : \A d, e \in Blockers(c) : d = e

(* A counter changes only when a transaction that holds its user's row     *)
(* ends, and nobody else holds the row then: no commit comes between       *)
(* another transaction's update and its commit, so none is overwritten.    *)
HolderChanges ==
  \A u \in Users, kind \in Kinds :
    count'[<<kind, u>>] # count[<<kind, u>>] =>
      \E c \in Clients : Holds(c, u) /\ reqs'[c] = Idle
                        /\ \A d \in Clients \ {c} : ~Holds(d, u)

RowsIsolated == [][HolderChanges]_vars

(* Two users who ask about each other share one query, from the point of   *)
(* view of the first: the worst the other one is told is the truth with    *)
(* the two directions swapped, never a relation neither of them has had.   *)
SharedOnlySwapped ==
  \A c \in Clients :
    ~reqs[c].own => {Reversed(p) : p \in reqs[c].claims} \subseteq inserted

(* Every request ends: neither the locks of crossing Follow calls nor the  *)
(* second connection of an UnFollow holds it up for ever, if there are     *)
(* more connections than requests.                                         *)
RequestsEnd == \A c \in Clients : reqs[c].stage # "free" ~> reqs[c].stage = "free"

(* What the tests of the store expect of a relation: nobody is told of a   *)
(* relation that never was.                                                *)
RelationAsAsked == \A c \in Clients : reqs[c].claims \subseteq inserted
=============================================================================
