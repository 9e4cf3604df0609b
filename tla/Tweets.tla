------------------------------- MODULE Tweets -------------------------------
(***************************************************************************)
(* Tweets of AITA: the tweet service and repository over the tweets table  *)
(* and the content cache in Redis.                                         *)
(*                                                                         *)
(* A read takes the cached copy or loads the row, one load per tweet at a  *)
(* time for all who miss (singleflight), and has a pool task write what it *)
(* loaded to the cache.  An edit writes the row, deletes the cached copy,  *)
(* and has a pool task delete it again 800 ms later, against a task that   *)
(* wrote an older copy in between.  A removal deletes the cached copy      *)
(* once.  Creation too leaves its copy to a pool task.  The pool runs      *)
(* tasks in any order.                                                     *)
(*                                                                         *)
(* The query for one tweet does not select the id, so what it loads has    *)
(* id 0, and the copy of it is written under that id's key, which nobody   *)
(* reads.                                                                  *)
(***************************************************************************)
EXTENDS Naturals, FiniteSets

CONSTANTS
  Tweets, Users, Contents, Clients,
  None,        \* no row, no cached copy, nothing loaded
  Timely,      \* whether 800 ms suffice for cache writes that were under way
  MaxTasks,    \* bound: pool tasks submitted and not finished
  MaxFaults    \* bound: failed cache commands and crashes

ASSUME TweetsAssumption ==
  /\ Tweets \subseteq Nat \ {0} /\ Timely \in BOOLEAN
  /\ MaxTasks \in Nat /\ MaxFaults \in Nat

Rows == [owner : Users, content : Contents]
Copies == [id : Tweets \cup {0}, owner : Users, content : Contents]

ASSUME NoneAssumption == None \notin Rows \cup Copies

VARIABLES
  row, posted,  \* tweets table; ids handed out
  cache,        \* cached copies by tweet
  tasks,        \* pool tasks: cache writes and delayed invalidations
  load,         \* singleflight: the load of a tweet under way
  reqs,         \* requests for one tweet
  lists,        \* MultiGet calls that missed the cache
  faults,
  exposed,      \* history, see below
  seen          \* history, see below

vars == <<row, posted, cache, tasks, load, reqs, lists, faults, exposed, seen>>

(* exposed: tweets whose cached copy may stay wrong until it expires, as   *)
(* it was written after the row's deletion, or as the last invalidation    *)
(* failed or was lost in a crash.                                          *)
(*                                                                         *)
(* seen: by client, what its request may find: the contents the row has    *)
(* had since the request came, that of the load it joined, and that of a   *)
(* cached copy it took while the copy was about to be deleted.             *)

Copy(id, r) == [id |-> id, owner |-> r.owner, content |-> r.content]

SetTask(copy) == [kind |-> "set", tweet |-> copy.id, copies |-> {copy}]
SetNXTask(copies) == [kind |-> "setnx", tweet |-> 0, copies |-> copies]
DropTask(t) == [kind |-> "drop", tweet |-> t, copies |-> {}]

Tasks == [kind : {"set", "setnx", "drop"}, tweet : Tweets \cup {0}, copies : SUBSET Copies]

NoLoad == [stage |-> "none", value |-> None]
Loads == [stage : {"none", "started", "read"}, value : Rows \cup {None}]

(* stage: "get" before the cache read, "wait" for the load, "got" the copy *)
(* in "got", "store" before the table is written, "drop" before the cached *)
(* copy is deleted, "done" with its reply.                                 *)
Requests ==
  [client : Clients, op : {"fetch", "edit", "remove"}, tweet : Tweets,
   user : Users \cup {None}, content : Contents \cup {None}, got : Copies \cup {None},
   stage : {"get", "wait", "got", "store", "drop", "done"},
   reply : {"none", "ok", "error"}]

Init ==
  /\ row = [t \in Tweets |-> None] /\ posted = {}
  /\ cache = [t \in Tweets |-> None]
  /\ tasks = {} /\ load = [t \in Tweets |-> NoLoad]
  /\ reqs = {} /\ lists = {} /\ faults = 0 /\ exposed = {}
  /\ seen = [c \in Clients |-> {}]

Fault == faults < MaxFaults /\ faults' = faults + 1

Step(q, stage) == reqs' = (reqs \ {q}) \cup {[q EXCEPT !.stage = stage]}
Reply(q, reply) ==
  reqs' = (reqs \ {q}) \cup {[q EXCEPT !.stage = "done", !.reply = reply]}

Submit(k) == Cardinality(tasks) < MaxTasks /\ tasks' = tasks \cup {k}

(* DEL of a cached copy; its error is ignored. *)
Invalidate(k) ==
  \/ cache' = [cache EXCEPT ![k] = None] /\ UNCHANGED faults
  \/ Fault /\ UNCHANGED cache

(* After which no other is to come. *)
LastInvalidate(k) ==
  /\ Invalidate(k)
  /\ exposed' = IF faults' = faults THEN exposed ELSE exposed \cup {k}

DropPending(t) ==
  \/ DropTask(t) \in tasks
  \/ \E q \in reqs : q.stage = "drop" /\ q.tweet = t

ContentOf(r) == IF r = None THEN {} ELSE {r.content}

(* The row of t gets content x. *)
Shown(t, x) ==
  [c \in Clients |-> IF \E q \in reqs : q.client = c /\ q.tweet = t
                    THEN seen[c] \cup {x} ELSE seen[c]]

-----------------------------------------------------------------------------
(* Create: the row, and a task with its copy. *)
Create(t, u, x) ==
  LET new == [owner |-> u, content |-> x]
  IN /\ t \notin posted /\ \A s \in Tweets : s < t => s \in posted
     /\ posted' = posted \cup {t}
     /\ row' = [row EXCEPT ![t] = new]
     /\ Submit(SetTask(Copy(t, new)))
     /\ UNCHANGED <<cache, load, reqs, lists, faults, exposed, seen>>

(* A request arrives. *)
Begin(c, op, t, u, x) ==
  /\ \A q \in reqs : q.client # c
  /\ t \in posted
  /\ reqs' = reqs \cup {[client |-> c, op |-> op, tweet |-> t, user |-> u,
                         content |-> x, got |-> None, stage |-> "get",
                         reply |-> "none"]}
  /\ seen' = [seen EXCEPT ![c] = ContentOf(row[t])]
  /\ UNCHANGED <<row, posted, cache, tasks, load, lists, faults, exposed>>

End(q) ==
  /\ q \in reqs /\ q.stage = "done"
  /\ reqs' = reqs \ {q}
  /\ seen' = [seen EXCEPT ![q.client] = {}]
  /\ UNCHANGED <<row, posted, cache, tasks, load, lists, faults, exposed>>

-----------------------------------------------------------------------------
(* Get: the cached copy... *)
Hit(q) ==
  /\ q \in reqs /\ q.stage = "get" /\ cache[q.tweet] # None
  /\ reqs' = (reqs \ {q}) \cup {[q EXCEPT !.got = cache[q.tweet], !.stage = "got"]}
  /\ seen' = IF DropPending(q.tweet)
             THEN [seen EXCEPT ![q.client] = @ \cup ContentOf(cache[q.tweet])] ELSE seen
  /\ UNCHANGED <<row, posted, cache, tasks, load, lists, faults, exposed>>

(* ... or, without one or with an error, a load: a new one or the one that *)
(* is under way already.                                                   *)
Miss(q) ==
  /\ q \in reqs /\ q.stage = "get"
  /\ IF cache[q.tweet] = None THEN UNCHANGED faults ELSE Fault
  /\ Step(q, "wait")
  /\ load' = IF load[q.tweet].stage = "none"
             THEN [load EXCEPT ![q.tweet].stage = "started"] ELSE load
  /\ seen' = [seen EXCEPT ![q.client] = @ \cup ContentOf(load[q.tweet].value)]
  /\ UNCHANGED <<row, posted, cache, tasks, lists, exposed>>

LoadRead(t) ==
  /\ load[t].stage = "started"
  /\ load' = [load EXCEPT ![t] = [stage |-> "read", value |-> row[t]]]
  /\ UNCHANGED <<row, posted, cache, tasks, reqs, lists, faults, exposed, seen>>

Waiting(t) == {q \in reqs : q.stage = "wait" /\ q.tweet = t}

(* Mutant: the id is off by one. *)
LoadedIdNext(t) == t + 1

(* The id of the row as GetTweetByTweetID scans it. *)
LoadedId(t) == 0

(* Everybody who waits gets the value; each submits the cache write. *)
LoadDone(t) ==
  LET v == load[t].value
      answered(q) == IF v = None
                     THEN [q EXCEPT !.stage = "done", !.reply = "error"]
                     ELSE [q EXCEPT !.stage = "got", !.got = Copy(LoadedId(t), v)]
  IN /\ load[t].stage = "read"
     /\ reqs' = (reqs \ Waiting(t)) \cup {answered(q) : q \in Waiting(t)}
     /\ IF v = None \/ Waiting(t) = {} THEN UNCHANGED tasks
        ELSE Submit(SetTask(Copy(LoadedId(t), v)))
     /\ load' = [load EXCEPT ![t] = NoLoad]
     /\ UNCHANGED <<row, posted, cache, lists, faults, exposed, seen>>

(* The load fails, or the request that started it goes away and takes the  *)
(* context of the load with it.                                            *)
LoadFail(t) ==
  /\ load[t].stage # "none" /\ Fault
  /\ reqs' = (reqs \ Waiting(t)) \cup
             {[q EXCEPT !.stage = "done", !.reply = "error"] : q \in Waiting(t)}
  /\ load' = [load EXCEPT ![t] = NoLoad]
  /\ UNCHANGED <<row, posted, cache, tasks, lists, exposed, seen>>

-----------------------------------------------------------------------------
(* What the service does with the copy.  The owner is checked on it; the   *)
(* service answers a stranger's edit or removal as if it had succeeded.    *)
Owns(q) == q.got.owner = q.user

AnswerFetch(q) ==
  /\ q \in reqs /\ q.stage = "got" /\ q.op = "fetch"
  /\ Reply(q, "ok")
  /\ UNCHANGED <<row, posted, cache, tasks, load, lists, faults, exposed, seen>>

AnswerStranger(q) ==
  /\ q \in reqs /\ q.stage = "got" /\ q.op # "fetch" /\ ~Owns(q)
  /\ Reply(q, "ok")
  /\ UNCHANGED <<row, posted, cache, tasks, load, lists, faults, exposed, seen>>

(* EditTweet compares with the copy, not with the row.  Whether the edit   *)
(* window has passed since the tweet was created is left open.             *)
CheckEdit(q) ==
  /\ q \in reqs /\ q.stage = "got" /\ q.op = "edit" /\ Owns(q)
  /\ IF q.got.content = q.content THEN Reply(q, "ok")
     ELSE Reply(q, "error") \/ Step(q, "store")
  /\ UNCHANGED <<row, posted, cache, tasks, load, lists, faults, exposed, seen>>

(* Mutant: a removal does not look at the owner. *)
CheckRemoveAny(q) ==
  /\ q \in reqs /\ q.stage = "got" /\ q.op = "remove"
  /\ Step(q, "store")
  /\ UNCHANGED <<row, posted, cache, tasks, load, lists, faults, exposed, seen>>

CheckRemove(q) ==
  /\ q \in reqs /\ q.stage = "got" /\ q.op = "remove" /\ Owns(q)
  /\ Step(q, "store")
  /\ UNCHANGED <<row, posted, cache, tasks, load, lists, faults, exposed, seen>>

(* UPDATE ... WHERE id = $2 AND content <> $1; without a row, an error. *)
UpdateRow(q) ==
  /\ q \in reqs /\ q.stage = "store" /\ q.op = "edit"
  /\ IF row[q.tweet] # None /\ row[q.tweet].content # q.content
     THEN /\ row' = [row EXCEPT ![q.tweet].content = q.content]
          /\ seen' = Shown(q.tweet, q.content)
          /\ Step(q, "drop")
     ELSE UNCHANGED <<row, seen>> /\ Reply(q, "error")
  /\ UNCHANGED <<posted, cache, tasks, load, lists, faults, exposed>>

DeleteRow(q) ==
  /\ q \in reqs /\ q.stage = "store" /\ q.op = "remove"
  /\ IF row[q.tweet] # None
     THEN row' = [row EXCEPT ![q.tweet] = None] /\ Step(q, "drop")
     ELSE UNCHANGED row /\ Reply(q, "error")
  /\ UNCHANGED <<posted, cache, tasks, load, lists, faults, exposed, seen>>

(* Mutant: no second invalidation. *)
DropOnce(q) ==
  /\ q \in reqs /\ q.stage = "drop" /\ q.op = "edit"
  /\ Invalidate(q.tweet)
  /\ Reply(q, "ok")
  /\ UNCHANGED <<row, posted, tasks, load, lists, exposed, seen>>

DropAfterUpdate(q) ==
  /\ q \in reqs /\ q.stage = "drop" /\ q.op = "edit"
  /\ Invalidate(q.tweet)
  /\ Submit(DropTask(q.tweet))
  /\ Reply(q, "ok")
  /\ UNCHANGED <<row, posted, load, lists, exposed, seen>>

(* Mutant: the cached copy of a removed tweet stays. *)
DropNothing(q) ==
  /\ q \in reqs /\ q.stage = "drop" /\ q.op = "remove"
  /\ Reply(q, "ok")
  /\ UNCHANGED <<row, posted, cache, tasks, load, lists, faults, exposed, seen>>

DropAfterDelete(q) ==
  /\ q \in reqs /\ q.stage = "drop" /\ q.op = "remove"
  /\ LastInvalidate(q.tweet)
  /\ Reply(q, "ok")
  /\ UNCHANGED <<row, posted, tasks, load, lists, seen>>

-----------------------------------------------------------------------------
(* MultiGet: when one of the tweets is not cached the whole cache read     *)
(* counts as a miss, and all of them are read from the table, with ids.    *)
ListMiss(T) ==
  /\ T \notin lists /\ \E t \in T : cache[t] = None
  /\ lists' = lists \cup {T}
  /\ UNCHANGED <<row, posted, cache, tasks, load, reqs, faults, exposed, seen>>

ListLoad(T) ==
  LET found == {Copy(t, row[t]) : t \in {s \in T : row[s] # None}}
  IN /\ T \in lists
     /\ lists' = lists \ {T}
     /\ IF found = {} THEN UNCHANGED tasks ELSE Submit(SetNXTask(found))
     /\ UNCHANGED <<row, posted, cache, load, reqs, faults, exposed, seen>>

-----------------------------------------------------------------------------
Gone(t) == t \in posted /\ row[t] = None

Filled(T) == exposed' = exposed \cup {t \in T : Gone(t)}

(* A copy with id 0 goes to a key nobody reads, which is not kept here. *)
Put(t, copy) == [x \in Tweets |-> IF x = t THEN copy ELSE cache[x]]

RunSet(k) ==
  /\ k \in tasks /\ k.kind = "set"
  /\ tasks' = tasks \ {k}
  /\ \E copy \in k.copies : cache' = Put(copy.id, copy)
  /\ Filled({k.tweet} \cap Tweets)
  /\ UNCHANGED <<row, posted, load, reqs, lists, faults, seen>>

(* SET fails, and the copy is deleted instead, or stays as it was. *)
RunSetFail(k) ==
  /\ k \in tasks /\ k.kind = "set" /\ Fault
  /\ tasks' = tasks \ {k}
  /\ cache' \in {cache, Put(k.tweet, None)}
  /\ UNCHANGED <<row, posted, load, reqs, lists, exposed, seen>>

(* SET NX per tweet; the pipeline may break after some of them. *)
RunSetNX(k, written) ==
  LET new == {c \in written : cache[c.id] = None}
  IN /\ k \in tasks /\ k.kind = "setnx" /\ written \subseteq k.copies
     /\ IF written = k.copies THEN UNCHANGED faults ELSE Fault
     /\ tasks' = tasks \ {k}
     /\ cache' = [x \in Tweets |-> IF \E c \in new : c.id = x
                                   THEN CHOOSE c \in new : c.id = x ELSE cache[x]]
     /\ Filled({c.id : c \in new})
     /\ UNCHANGED <<row, posted, load, reqs, lists, seen>>

(* Cache writes whose copy is not the row's. *)
Outdated(t) ==
  {k \in tasks : \E c \in k.copies :
                   c.id = t /\ row[t] # None /\ c.content # row[t].content}

(* The delayed invalidation.  When Timely, the 800 ms it sleeps outlast    *)
(* the cache writes that were submitted before the update.                 *)
RunDrop(k) ==
  /\ k \in tasks /\ k.kind = "drop"
  /\ Timely => Outdated(k.tweet) = {}
  /\ tasks' = tasks \ {k}
  /\ LastInvalidate(k.tweet)
  /\ UNCHANGED <<row, posted, load, reqs, lists, seen>>

(* A cached copy's time to live ends. *)
Expire(x) ==
  /\ cache[x] # None
  /\ cache' = [cache EXCEPT ![x] = None]
  /\ UNCHANGED <<row, posted, tasks, load, reqs, lists, faults, exposed, seen>>

(* The process dies with its requests, loads and pool tasks. *)
Crash ==
  /\ Fault
  /\ exposed' = exposed \cup {t \in Tweets : DropPending(t)}
  /\ reqs' = {} /\ lists' = {} /\ tasks' = {}
  /\ load' = [t \in Tweets |-> NoLoad]
  /\ seen' = [c \in Clients |-> {}]
  /\ UNCHANGED <<row, posted, cache>>

-----------------------------------------------------------------------------
Arrive(c, t) ==
  \/ Begin(c, "fetch", t, None, None)
  \/ \E u \in Users : \/ Begin(c, "remove", t, u, None)
                      \/ \E x \in Contents : Begin(c, "edit", t, u, x)

Serve(q) ==
  \/ Hit(q) \/ Miss(q) \/ AnswerFetch(q) \/ AnswerStranger(q) \/ CheckEdit(q)
  \/ CheckRemove(q) \/ UpdateRow(q) \/ DeleteRow(q) \/ DropAfterUpdate(q)
  \/ DropAfterDelete(q) \/ End(q)

Load(t) == LoadRead(t) \/ LoadDone(t) \/ LoadFail(t)

RunTask(k) ==
  \/ RunSet(k) \/ RunSetFail(k) \/ RunDrop(k)
  \/ \E written \in SUBSET k.copies : RunSetNX(k, written)

Next ==
  \/ \E t \in Tweets, u \in Users, x \in Contents : Create(t, u, x)
  \/ \E t \in Tweets : Load(t) \/ \E c \in Clients : Arrive(c, t)
  \/ \E q \in reqs : Serve(q)
  \/ \E T \in (SUBSET Tweets) \ {{}} : ListMiss(T) \/ ListLoad(T)
  \/ \E k \in tasks : RunTask(k)
  \/ \E t \in Tweets : Expire(t)
  \/ Crash

Spec == Init /\ [][Next]_vars

-----------------------------------------------------------------------------
(* Types of the state. *)
TypeOK ==
  /\ row \in [Tweets -> Rows \cup {None}]
  /\ posted \subseteq Tweets
  /\ cache \in [Tweets -> Copies \cup {None}]
  /\ tasks \subseteq Tasks /\ load \in [Tweets -> Loads]
  /\ reqs \subseteq Requests /\ lists \subseteq SUBSET Tweets
  /\ faults \in Nat /\ exposed \subseteq Tweets
  /\ seen \in [Clients -> SUBSET Contents]

(* A cached copy that no longer says what the row says is about to be      *)
(* deleted: by the edit that made it old or by that edit's delayed second  *)
(* invalidation.  It needs both invalidations, as a copy written late by   *)
(* Create or by a list comes in between them; and it needs the 800 ms to   *)
(* be enough (Timely) and the second one to succeed ("exposed").           *)
StaleCovered ==
  \A t \in Tweets \ exposed :
    row[t] # None /\ cache[t] # None /\ cache[t].content # row[t].content
      => DropPending(t)

(* The cached copy of a deleted tweet is about to be deleted, unless a     *)
(* cache write of an earlier read or of its creation came after the one    *)
(* invalidation a removal does, or that one failed: nothing in the code    *)
(* takes that copy away before its time to live ends.                      *)
GoneCovered ==
  \A t \in Tweets \ exposed : Gone(t) /\ cache[t] # None => DropPending(t)

(* What a request works with, its tweet said at some moment since the      *)
(* request came, or since the load it shares was read: it is never older,  *)
(* unless it is a cached copy that was about to be deleted, or that is     *)
(* "exposed".  An edit that is dropped because it changes nothing is       *)
(* measured against such a copy.                                           *)
ReadsRecent ==
  \A q \in reqs : q.got # None /\ q.tweet \notin exposed
                   => q.got.content \in seen[q.client]

(* A row is changed or deleted only for a request of its owner, although   *)
(* the owner was checked on a copy, cached or shared with other requests,  *)
(* some steps before.                                                      *)
OwnerOnly ==
  [][\A t \in Tweets :
       row[t] # None /\ row'[t] # row[t]
         => \E q \in reqs : /\ q.tweet = t /\ q.user = row[t].owner
                            /\ q.stage = "store" /\ q.op # "fetch"]_vars
=============================================================================
