------------------------------ MODULE Accounts ------------------------------
(***************************************************************************)
(* Accounts of AITA: the user service and repository over the users table, *)
(* and the two keys a user has in Redis, the name and the counts.          *)
(*                                                                         *)
(* Signing up is one INSERT under two unique constraints, then a session.  *)
(* Logging in, the own account, Exists and profiles are read by shared     *)
(* queries (singleflight); Exists and profiles ask Redis first.  The names *)
(* of a list of users come from Redis all together or, if one is missing,  *)
(* all from the table.  What a profile or a list query found, pool tasks   *)
(* write to Redis.  The count of a user changes in a transaction of Follow *)
(* or UnFollow, which deletes both keys before it commits.                 *)
(*                                                                         *)
(* A user's two counters are updated, dropped and cached the same way, and *)
(* "count" stands for either.  Postgres is modelled from how src/ uses it: *)
(* an UPDATE holds its row until its transaction ends.                     *)
(***************************************************************************)
EXTENDS Integers, FiniteSets

CONSTANTS
  Users,        \* accounts that are, or that somebody tries to register
  Clients,      \* requests that may run at the same time
  None,         \* no cached count
  NameCap,      \* 500: ids a query for names takes
  Wanted,       \* bound: the requests, <<client, operation, set of users>>
  Counted,      \* bound: users whose count changes
  MaxTasks,     \* bound: pool tasks, when a query is made
  MaxCount,     \* bound: the counter
  MaxFaults     \* bound: infrastructure faults in a behaviour

(* "mistype": a login with a wrong password. *)
Ops == {"login", "mistype", "me", "exists", "profile", "names"}

ASSUME AccountsAssumption ==
  /\ Wanted \subseteq Clients \X Ops \X SUBSET Users
  /\ \A w \in Wanted : w[2] # "names" => \E u \in Users : w[3] = {u}
  /\ None \notin Nat /\ NameCap \in Nat /\ Counted \subseteq Users
  /\ MaxTasks \in Nat /\ MaxCount \in Nat /\ MaxFaults \in Nat

VARIABLES
  rows, count,     \* users table: accounts, and the committed counter
  tx,              \* by user, the transaction that holds the row
  names, counts,   \* cached names and counts
  tasks,           \* pool tasks, submitted or waiting for a place in the pool
  flights,         \* shared queries under way
  reqs,            \* requests, by client
  faults,
  exposed          \* history, see below

db    == <<rows, count, tx>>
redis == <<names, counts>>
vars  == <<rows, count, tx, names, counts, tasks, flights, reqs, faults, exposed>>

(* exposed: users whose cached count may stay wrong until it expires: it   *)
(* was written after the row's keys were dropped, or they were not.        *)

(* The keys of sfUser: the email of who logs in, "users:", "exists:" and   *)
(* "prof:" with an id.                                                     *)
SfKey(op, who) == <<IF op = "mistype" THEN "login" ELSE op, who>>
Keys == {SfKey(op, {u}) : op \in Ops \ {"names"}, u \in Users}

(* The rows that the query of a key selects. *)
Selected(k) == rows \cap k[2]

NoFlight == [stage |-> "none", found |-> {}, count |-> 0]
Flights == [stage : {"none", "started", "read"}, found : SUBSET Users, count : Nat]

ProfileTask(u, n) == [do |-> "profile", who |-> {u}, count |-> n]
DropTask(u)       == [do |-> "drop", who |-> {u}, count |-> 0]
NamesTask(S)      == [do |-> "names", who |-> S, count |-> 0]
Tasks == [do : {"profile", "drop", "names"}, who : SUBSET Users, count : Nat]

(* known: the users asked for that were registered when the request came;  *)
(* joined: whether another request had started the query; both history.    *)
Idle == [op |-> "none", who |-> {}, stage |-> "free", known |-> {},
         joined |-> FALSE, reply |-> "none", given |-> {}]
Requests ==
  [op : Ops, who : SUBSET Users, stage : {"ask", "wait", "told"},
   known : SUBSET Users, joined : BOOLEAN,
   reply : {"none", "ok", "missing", "refused", "error"}, given : SUBSET Users]
    \cup {Idle}

Init ==
  /\ rows = {} /\ count = [u \in Users |-> 0]
  /\ tx = [u \in Users |-> "none"]
  /\ names = {} /\ counts = [u \in Users |-> None]
  /\ tasks = {} /\ flights = [k \in Keys |-> NoFlight]
  /\ reqs = [c \in Clients |-> Idle]
  /\ faults = 0 /\ exposed = {}

Fault == faults < MaxFaults /\ faults' = faults + 1

Submit(k) == tasks' = tasks \cup {k}

Room == Cardinality(tasks) < MaxTasks

Goes(c, stage, joined) ==
  reqs' = [reqs EXCEPT ![c].stage = stage, ![c].joined = joined]
Told(c, reply, given) ==
  [reqs[c] EXCEPT !.stage = "told", !.reply = reply, !.given = given]

-----------------------------------------------------------------------------
(* Register: the INSERT, which changes nothing if the name or the email is *)
(* taken.  A session that cannot be issued leaves the account as it is.    *)
Register(u) ==
  /\ u \notin rows
  /\ rows' = rows \cup {u}
  /\ UNCHANGED <<count, tx, redis, tasks, flights, reqs, faults, exposed>>

(* A request comes; one's own account is for who has a session. *)
Arrive(c, op, who) ==
  /\ reqs[c] = Idle
  /\ op = "me" => who \subseteq rows
  /\ reqs' = [reqs EXCEPT ![c] =
                [Idle EXCEPT !.op = op, !.who = who, !.known = who \cap rows,
                             !.stage = "ask"]]
  /\ UNCHANGED <<db, redis, tasks, flights, faults, exposed>>

Answer(c) ==
  /\ reqs[c].stage = "told"
  /\ reqs' = [reqs EXCEPT ![c] = Idle]
  /\ UNCHANGED <<db, redis, tasks, flights, faults, exposed>>

(* A profile, and Exists, take both keys of a user; a list of names the    *)
(* name of each; the others do not ask Redis.                              *)
Cached(op, who) ==
  /\ op \in {"exists", "profile", "names"} /\ who \subseteq names
  /\ op # "names" => \A u \in who : counts[u] # None

CacheHit(c) ==
  /\ reqs[c].stage = "ask" /\ Cached(reqs[c].op, reqs[c].who)
  /\ reqs' = [reqs EXCEPT ![c] =
                Told(c, "ok", IF reqs[c].op = "names" THEN reqs[c].who ELSE {})]
  /\ UNCHANGED <<db, redis, tasks, flights, faults, exposed>>

(* Mutant: what is not cached does not exist. *)
CacheMissBelieved(c) ==
  /\ reqs[c].stage = "ask" /\ ~Cached(reqs[c].op, reqs[c].who)
  /\ reqs' = [reqs EXCEPT ![c] = Told(c, "missing", {})]
  /\ UNCHANGED <<db, redis, tasks, flights, faults, exposed>>

(* Without an answer from Redis the query of the key is joined or started; *)
(* a query for names is each request's own.                                *)
CacheMiss(c) ==
  LET k == SfKey(reqs[c].op, reqs[c].who)
  IN /\ reqs[c].stage = "ask"
     /\ IF Cached(reqs[c].op, reqs[c].who) THEN Fault ELSE UNCHANGED faults
     /\ IF reqs[c].op = "names" THEN UNCHANGED flights /\ Goes(c, "wait", FALSE)
        ELSE /\ Goes(c, "wait", flights[k].stage # "none")
             /\ flights' = IF flights[k].stage = "none"
                           THEN [flights EXCEPT ![k].stage = "started"] ELSE flights
     /\ UNCHANGED <<db, redis, tasks, exposed>>

-----------------------------------------------------------------------------
(* Shared queries. *)

QueryRead(k) ==
  /\ flights[k].stage = "started" /\ (k[1] = "profile" => Room)
  /\ flights' = [flights EXCEPT ![k] =
       [stage |-> "read", found |-> Selected(k),
        count |-> IF k[1] = "profile" /\ Selected(k) # {}
                  THEN count[CHOOSE u \in Selected(k) : TRUE] ELSE 0]]
  /\ UNCHANGED <<db, redis, tasks, reqs, faults, exposed>>

Waiting(c, k) == reqs[c].stage = "wait" /\ SfKey(reqs[c].op, reqs[c].who) = k

(* Each login compares its own password with the row that was found. *)
Reply(c, found) ==
  IF found = {} THEN "missing" ELSE IF reqs[c].op = "mistype" THEN "refused" ELSE "ok"

(* Who waits is told; of a profile that was found, a task writes both keys *)
(* (one for all: the tasks of several waiters are the same).               *)
QueryDone(k) ==
  LET f == flights[k]
  IN /\ f.stage = "read"
     /\ reqs' = [c \in Clients |->
                   IF Waiting(c, k) THEN Told(c, Reply(c, f.found), {}) ELSE reqs[c]]
     /\ flights' = [flights EXCEPT ![k] = NoFlight]
     /\ IF k[1] = "profile" /\ f.found # {}
        THEN \E u \in f.found : Submit(ProfileTask(u, f.count))
        ELSE UNCHANGED tasks
     /\ UNCHANGED <<db, redis, faults, exposed>>

QueryFail(k) ==
  /\ flights[k].stage # "none" /\ Fault
  /\ reqs' = [c \in Clients |-> IF Waiting(c, k) THEN Told(c, "error", {}) ELSE reqs[c]]
  /\ flights' = [flights EXCEPT ![k] = NoFlight]
  /\ UNCHANGED <<db, redis, tasks, exposed>>

-----------------------------------------------------------------------------
(* Mutant: no more than NameCap names are asked for, and no error. *)
NamesFoundCut(who) ==
  IF Cardinality(who) <= NameCap THEN {who \cap rows}
  ELSE {S \in SUBSET (who \cap rows) : Cardinality(S) <= NameCap}

(* GetNamesByIDs, which refuses too many ids. *)
NamesFound(who) == IF Cardinality(who) <= NameCap THEN {who \cap rows} ELSE {}

(* GetBaseInfos after a miss: GetLists has answered nothing, so that all   *)
(* the names are asked for.                                                *)
NamesRead(c) ==
  /\ reqs[c].stage = "wait" /\ reqs[c].op = "names" /\ Room
  /\ \E S \in NamesFound(reqs[c].who) :
       /\ IF S = {} THEN UNCHANGED tasks ELSE Submit(NamesTask(S))
       /\ reqs' = [reqs EXCEPT ![c] = Told(c, "ok", S)]
  /\ UNCHANGED <<db, redis, flights, faults, exposed>>

NamesFail(c) ==
  /\ reqs[c].stage = "wait" /\ reqs[c].op = "names"
  /\ IF NamesFound(reqs[c].who) = {} THEN UNCHANGED faults ELSE Fault
  /\ reqs' = [reqs EXCEPT ![c] = Told(c, "error", {})]
  /\ UNCHANGED <<db, redis, tasks, flights, exposed>>

-----------------------------------------------------------------------------
(* A count changes: UPDATE, both keys dropped, commit. *)
Update(u) ==
  /\ u \in rows \cap Counted /\ tx[u] = "none"
  /\ tx' = [tx EXCEPT ![u] = "updated"]
  /\ UNCHANGED <<rows, count, redis, tasks, flights, reqs, faults, exposed>>

(* Mutant: the name only. *)
DropNames(u) == names' = names \ {u} /\ UNCHANGED <<counts, exposed>>

(* DEL of both keys. *)
Drop(u) ==
  /\ names' = names \ {u} /\ counts' = [counts EXCEPT ![u] = None]
  /\ exposed' = exposed \ {u}

(* The second or both are not deleted; nobody is told. *)
DropFail(u) ==
  /\ Fault /\ exposed' = exposed \cup {u}
  /\ names' \in {names, names \ {u}} /\ UNCHANGED counts

Invalidate(u) ==
  /\ tx[u] = "updated"
  /\ (Drop(u) /\ UNCHANGED faults) \/ DropFail(u)
  /\ tx' = [tx EXCEPT ![u] = "dropped"]
  /\ UNCHANGED <<rows, count, tasks, flights, reqs>>

(* Mutant: without the floor. *)
AdjustedBelow(n) == {m \in -1 .. MaxCount : m = n + 1 \/ m + 1 = n}

(* GREATEST(0, n + delta) *)
Adjusted(n) == {m \in 0 .. MaxCount : m = n + 1 \/ m + 1 = n \/ (n = 0 /\ m = 0)}

Commit(u) ==
  /\ tx[u] = "dropped"
  /\ \E n \in Adjusted(count[u]) : count' = [count EXCEPT ![u] = n]
  /\ tx' = [tx EXCEPT ![u] = "none"]
  /\ UNCHANGED <<rows, redis, tasks, flights, reqs, faults, exposed>>

Rollback(u) ==
  /\ tx[u] # "none" /\ Fault
  /\ tx' = [tx EXCEPT ![u] = "none"]
  /\ UNCHANGED <<rows, count, redis, tasks, flights, reqs, exposed>>

-----------------------------------------------------------------------------
(* Pool tasks. *)

(* The first n of SET, HSET and EXPIRE; the value stays too long if its    *)
(* row's keys have been dropped for the last time, or were so before.      *)
AddProfile(u, value, n) ==
  /\ names' = IF n > 0 THEN names \cup {u} ELSE names
  /\ counts' = IF n > 1 THEN [counts EXCEPT ![u] = value] ELSE counts
  /\ exposed' = IF n < 2 THEN exposed
                ELSE IF value # count[u] \/ tx[u] = "dropped" THEN exposed \cup {u}
                ELSE exposed \ {u}

RunProfile(k) ==
  /\ k.do = "profile"
  /\ \E u \in k.who :
       \/ /\ AddProfile(u, k.count, 3)
          /\ tasks' = tasks \ {k} /\ UNCHANGED faults
       \/ /\ Fault /\ \E n \in 0 .. 2 : AddProfile(u, k.count, n)
          /\ tasks' = (tasks \ {k}) \cup {DropTask(u)}
  /\ UNCHANGED <<db, flights, reqs>>

(* The same task goes on to drop what it may have written. *)
RunDrop(k) ==
  /\ k.do = "drop"
  /\ \E u \in k.who : (Drop(u) /\ UNCHANGED faults) \/ DropFail(u)
  /\ tasks' = tasks \ {k}
  /\ UNCHANGED <<db, flights, reqs>>

(* SETNX of each name, in a pipeline of which a part may be applied. *)
RunNames(k) ==
  /\ k.do = "names"
  /\ \/ names' = names \cup k.who /\ UNCHANGED faults
     \/ Fault /\ \E S \in SUBSET k.who : names' = names \cup S
  /\ tasks' = tasks \ {k}
  /\ UNCHANGED <<db, counts, flights, reqs, exposed>>

RunTask(k) == RunProfile(k) \/ RunDrop(k) \/ RunNames(k)

(* The two keys of a user have each their time to live. *)
Expire(u) ==
  /\ \/ u \in names /\ names' = names \ {u} /\ UNCHANGED <<counts, exposed>>
     \/ /\ counts[u] # None
        /\ counts' = [counts EXCEPT ![u] = None] /\ exposed' = exposed \ {u}
        /\ UNCHANGED names
  /\ UNCHANGED <<db, tasks, flights, reqs, faults>>

(* The process dies; what Redis holds by then stays. *)
Crash ==
  /\ Fault
  /\ tx' = [u \in Users |-> "none"] /\ tasks' = {}
  /\ flights' = [k \in Keys |-> NoFlight] /\ reqs' = [c \in Clients |-> Idle]
  /\ UNCHANGED <<rows, count, redis, exposed>>

-----------------------------------------------------------------------------
Serve(c) ==
  \/ CacheHit(c) \/ CacheMiss(c) \/ NamesRead(c) \/ NamesFail(c)
  \/ Answer(c)

Query(k) == QueryRead(k) \/ QueryDone(k) \/ QueryFail(k)

Next ==
  \/ \E u \in Users :
       \/ Register(u) \/ Expire(u)
       \/ Update(u) \/ Invalidate(u) \/ Commit(u) \/ Rollback(u)
  \/ \E w \in Wanted : Arrive(w[1], w[2], w[3])
  \/ \E c \in Clients : Serve(c)
  \/ \E k \in Keys : Query(k)
  \/ \E k \in tasks : RunTask(k)
  \/ Crash

Spec == Init /\ [][Next]_vars

-----------------------------------------------------------------------------
(* Types of the state, history included. *)
TypeOK ==
  /\ rows \subseteq Users /\ names \subseteq Users /\ exposed \subseteq Users
  /\ count \in [Users -> Nat] /\ counts \in [Users -> Nat \cup {None}]
  /\ tx \in [Users -> {"none", "updated", "dropped"}]
  /\ tasks \subseteq Tasks
  /\ flights \in [Keys -> Flights]
  /\ reqs \in [Clients -> Requests]
  /\ faults \in Nat

(* A cached count differs from the committed one only if it was written    *)
(* between the DEL and the commit or from a row read before, or if the DEL *)
(* failed: the invalidation inside the transaction covers every profile    *)
(* cached by then.                                                         *)
CountsCovered ==
  \A u \in Users : counts[u] \notin {None, count[u]} => u \in exposed

(* Nobody who was registered when the question came is called missing,     *)
(* except by a query that was under way before.                            *)
MissingOnlyShared ==
  \A c \in Clients :
    reqs[c].reply = "missing" /\ ~reqs[c].joined => reqs[c].known = {}

(* A list of names is whole or refused: who was registered when it was     *)
(* asked for is in it, whatever part of the names Redis had.               *)
NamesWhole ==
  \A c \in Clients :
    reqs[c].op = "names" /\ reqs[c].reply = "ok" => reqs[c].known \subseteq reqs[c].given

(* Nobody who was registered when a question came is missing from its      *)
(* answer, a name or a list of names, but by a query that began before.    *)
NobodyMissing == MissingOnlyShared /\ NamesWhole
=============================================================================
