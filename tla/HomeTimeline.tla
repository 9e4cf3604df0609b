---------------------------- MODULE HomeTimeline ----------------------------
(***************************************************************************)
(* Home timelines of AITA from both sides.  Written: a tweet is posted and *)
(* removed, its messages travel as Delivery promises (which Fanout is      *)
(* shown to implement), and the worker pushes it to and recalls it from    *)
(* those who follow its author when it asks.  Read: GetHomeTimeLine takes  *)
(* a page of ids from Redis, adds tweets of the user's own when there are  *)
(* few or Redis fails (one rebuild per user for all who ask meanwhile),    *)
(* has a pool task write those to the timeline, and fetches the rest.      *)
(*                                                                         *)
(* The followers GetFollowerIDs names come from a cached list, which may   *)
(* be behind the table (see Follow): "following" is what it answers.       *)
(* Tweet ids ascend in time, as the scores do.                             *)
(***************************************************************************)
EXTENDS Integers, FiniteSets

CONSTANTS
  Users, Clients,
  Tweets,       \* tweet ids
  Author,       \* by tweet
  Old,          \* tweets from before: their messages are done, timelines expired
  Pairs,        \* bound: who may follow, <<follower, author>>
  TimelineCap,  \* tweets kept per timeline (1000)
  RecallCap,    \* users one recall reaches (1000)
  ListMax,      \* largest list of own tweets (100)
  ListUsual,    \* its size when another is asked for (20)
  AuthorQuery,  \* what the query for an author's tweets can do
  Wanted,       \* bound: the requests, <<client, user, page, size>>
  MaxFills,     \* bound: pool tasks, when a rebuild is done
  MaxFaults     \* bound: infrastructure faults in a behaviour

(* At this commit the text of that query does not parse: it only "fails".  *)
(* The code around it, and its tests, have it answer too.                  *)
ASSUME HomeAssumption ==
  /\ IsFiniteSet(Users) /\ IsFiniteSet(Tweets) /\ Tweets \subseteq Nat
  /\ Old \subseteq Tweets /\ Author \in [Tweets -> Users]
  /\ Pairs \subseteq {p \in Users \X Users : p[1] # p[2]}
  /\ TimelineCap \in Nat \ {0} /\ RecallCap \in Nat \ {0}
  /\ ListMax \in Nat /\ ListUsual \in 0 .. ListMax /\ MaxFills \in Nat /\ MaxFaults \in Nat
  /\ AuthorQuery \subseteq {"answers", "fails"}
  /\ Wanted \subseteq Clients \X Users \X Nat \X (Nat \ {0})

New == Tweets \ Old
Messages == {"create", "delete"} \X New

VARIABLES
  rows,       \* tweets table
  status,     \* by message, how far it has come
  nameless,   \* tweets whose deletion message carries id 0
  following,  \* relations as GetFollowerIDs names them
  worker,     \* the message the worker holds and the followers it read
  home,       \* timelines in Redis
  fills,      \* pool tasks that write own tweets, <<user, tweets>>
  rebuild,    \* rebuilds under way, by singleflight key
  reqs,       \* GetHomeTimeLine calls, by client
  faults,
  expected, parted, overtaken, named   \* history, see below

history == <<expected, parted, overtaken, named>>
writing == <<rows, status, nameless, following, worker>>
reading == <<fills, rebuild, reqs>>
vars == <<rows, status, nameless, following, worker, home, fills, rebuild, reqs,
          faults, expected, parted, overtaken, named>>

(* expected: <<u, t>>, u has followed the author since t was posted, and t *)
(* was not trimmed from u's timeline, nor did it expire with t on it;      *)
(* parted: relations that ceased once; overtaken: t was pushed after its   *)
(* recall; named: by tweet, the followers its recall was to reach.         *)

D == INSTANCE Delivery

Resting == [msg |-> {}, stage |-> "idle", targets |-> {}]
Workers == [msg : {{}} \cup {{m} : m \in Messages}, stage : {"idle", "read", "write"},
            targets : SUBSET Users]

NoRebuild == [stage |-> "none", user |-> {}, page |-> 0, size |-> 0, ids |-> {}]
Rebuilds == [stage : {"none", "started", "queried"}, user : SUBSET Users,
             page : Nat, size : Nat, ids : SUBSET Tweets]

(* led: whether the request started the rebuild it waited for. *)
Idle == [user |-> {}, size |-> 0, stage |-> "free", ids |-> {}, led |-> FALSE,
         own |-> {}]
Requests == [user : {{}} \cup {{u} : u \in Users}, size : Nat,
             stage : {"free", "wait", "fetch"}, ids : SUBSET Tweets,
             led : BOOLEAN, own : SUBSET Tweets]

Init ==
  /\ rows = Old /\ status = [m \in Messages |-> "unsent"]
  /\ nameless = {} /\ following = {} /\ worker = Resting
  /\ home = [u \in Users |-> {}]
  /\ fills = {} /\ rebuild = [u \in Users |-> NoRebuild]
  /\ reqs = [c \in Clients |-> Idle] /\ faults = 0
  /\ expected = {} /\ parted = {} /\ overtaken = {} /\ named = [t \in New |-> 0]

Fault == faults < MaxFaults /\ faults' = faults + 1

FollowersOf(t) == {u \in Users : <<u, Author[t]>> \in following}

-----------------------------------------------------------------------------
(* What is below the timelines: tweets, follows, messages. *)

(* Mutant: the row has the id after the one inserted. *)
PostNextId(t) ==
  /\ t \in New /\ status[<<"create", t>>] = "unsent"
  /\ rows' = rows \cup {t + 1}
  /\ status' = [status EXCEPT ![<<"create", t>>] = "accepted"]
  /\ UNCHANGED <<nameless, following, worker, home, reading, faults, history>>

Post(t) ==
  /\ t \in New /\ status[<<"create", t>>] = "unsent"
  /\ \A s \in New : s < t => status[<<"create", s>>] # "unsent"
  /\ rows' = rows \cup {t}
  /\ status' = [status EXCEPT ![<<"create", t>>] = "accepted"]
  /\ expected' = expected \cup {<<u, t>> : u \in FollowersOf(t)}
  /\ UNCHANGED <<nameless, following, worker, home, reading, faults, parted, overtaken, named>>

(* What was loaded for a removal may be without its id. *)
Remove(t) ==
  /\ t \in rows \cap New
  /\ rows' = rows \ {t}
  /\ status' = [status EXCEPT ![<<"delete", t>>] = "accepted"]
  /\ nameless' \in {nameless, nameless \cup {t}}
  /\ UNCHANGED <<following, worker, home, reading, faults, history>>

(* A relation enters the followers' list or leaves it: a Follow or an      *)
(* UnFollow, or a list loaded before one and written after it.             *)
(* (Bound: enters once.)                                                   *)
Meet(p) ==
  /\ p \notin following \cup parted
  /\ following' = following \cup {p}
  /\ UNCHANGED <<rows, status, nameless, worker, home, reading, faults, history>>

Part(p) ==
  /\ p \in following
  /\ following' = following \ {p} /\ parted' = parted \cup {p}
  /\ expected' = {x \in expected : <<x[1], Author[x[2]]>> # p}
  /\ UNCHANGED <<rows, status, nameless, worker, home, reading, faults, overtaken, named>>

(* A pool task writes its message, which may trim others, or fails to. *)
Carry(m) ==
  /\ status[m] = "accepted"
  /\ \E trimmed \in SUBSET {n \in Messages : status[n] = "queued"}, s \in {"queued", "lost"} :
       /\ s = "lost" => trimmed = {}
       /\ status' = [n \in Messages |-> IF n = m THEN s
                                        ELSE IF n \in trimmed THEN "lost" ELSE status[n]]
  /\ UNCHANGED <<rows, nameless, following, worker, home, reading, faults, history>>

-----------------------------------------------------------------------------
(* The worker: one message at a time, never again one it failed on. *)

Take(m) ==
  /\ worker = Resting /\ status[m] = "queued"
  /\ status' = [status EXCEPT ![m] = "taken"]
  /\ worker' = [msg |-> {m}, stage |-> "read", targets |-> {}]
  /\ UNCHANGED <<rows, nameless, following, home, reading, faults, history>>

Malformed(m) == m[1] = "delete" /\ m[2] \in nameless

(* GetFollowerIDs, of a message that parses. *)
Followers(t) == FollowersOf(t)

ReadFollowers(m) ==
  /\ worker.msg = {m} /\ worker.stage = "read" /\ ~Malformed(m)
  /\ worker' = [worker EXCEPT !.stage = "write", !.targets = Followers(m[2])]
  /\ UNCHANGED <<rows, status, nameless, following, home, reading, faults, history>>

(* ZREMRANGEBYRANK 0 -1001. *)
Newest(S) == {t \in S : Cardinality({s \in S : s > t}) < TimelineCap}

(* Of the timelines "all", "new" is what stays. *)
Written(all, new) ==
  /\ home' = new
  /\ expected' = {x \in expected : x[2] \notin all[x[1]] \ new[x[1]]}

Added(t, S) == [u \in Users |-> IF u \in S THEN home[u] \cup {t} ELSE home[u]]
Pushed(t, S, R) ==
  [u \in Users |-> IF u \in S \ R THEN Newest(Added(t, S)[u]) ELSE Added(t, S)[u]]
Recalled(t, S) == [u \in Users |-> IF u \in S THEN home[u] \ {t} ELSE home[u]]

(* Mutant: the last of the batch is left out. *)
BatchesShort(S) == {b \in SUBSET S : Cardinality(b) < RecallCap}

(* The first RecallCap of the followers. *)
Batches(S) ==
  IF Cardinality(S) <= RecallCap THEN {S} ELSE {b \in SUBSET S : Cardinality(b) = RecallCap}

(* ZADD and trim, or ZREM, for the users in S; in R are those not trimmed. *)
Apply(m, S, R) ==
  IF m[1] = "create"
  THEN /\ Written(Added(m[2], S), Pushed(m[2], S, R))
       /\ overtaken' = IF status[<<"delete", m[2]>>] \in {"taken", "done"}
                       THEN overtaken \cup {m[2]} ELSE overtaken
  ELSE home' = Recalled(m[2], S) /\ UNCHANGED <<expected, overtaken>>

(* A pipeline is cut after some users, between one's ZADD and trim maybe;  *)
(* that of a recall has no more than RecallCap to begin with.              *)
Cut(m) ==
  \E S, R \in SUBSET worker.targets :
    /\ R \subseteq S /\ Cardinality(R) <= 1
    /\ m[1] = "delete" => R = {} /\ Cardinality(S) <= RecallCap
    /\ Apply(m, S, R)

Finish(m) ==
  /\ worker.msg = {m}
  /\ \/ /\ worker.stage = "read" /\ Malformed(m)
        /\ UNCHANGED <<home, expected, overtaken, named>>
     \/ /\ worker.stage = "write"
        /\ \E S \in (IF m[1] = "create" THEN {worker.targets} ELSE Batches(worker.targets)) :
             Apply(m, S, {})
        /\ named' = IF m[1] = "create" THEN named
                    ELSE [named EXCEPT ![m[2]] = Cardinality(worker.targets)]
  /\ status' = [status EXCEPT ![m] = "done"]
  /\ worker' = Resting
  /\ UNCHANGED <<rows, nameless, following, reading, faults, parted>>

(* Mutant: what failed is acknowledged... *)
FailAcked(m) ==
  /\ worker.msg = {m} /\ ~Malformed(m)
  /\ Cut(m) /\ UNCHANGED named
  /\ status' = [status EXCEPT ![m] = "done"]
  /\ worker' = Resting
  /\ UNCHANGED <<rows, nameless, following, reading, faults, parted>>

(* ... or put back on the stream. *)
FailRequeued(m) ==
  /\ worker.msg = {m} /\ ~Malformed(m)
  /\ Cut(m) /\ UNCHANGED named
  /\ status' = [status EXCEPT ![m] = "queued"]
  /\ worker' = Resting
  /\ UNCHANGED <<rows, nameless, following, reading, faults, parted>>

(* No followers to be had, or a pipeline that broke after some of them.    *)
(* The message stays pending.                                              *)
Fail(m) ==
  /\ worker.msg = {m} /\ ~Malformed(m)
  /\ Cut(m) /\ UNCHANGED named
  /\ worker' = Resting
  /\ UNCHANGED <<rows, status, nameless, following, reading, faults, parted>>

(* A timeline's key expires. *)
Expire(u) ==
  /\ home[u] # {}
  /\ Written(home, [home EXCEPT ![u] = {}])
  /\ UNCHANGED <<writing, reading, faults, parted, overtaken, named>>

-----------------------------------------------------------------------------
(* Reading. *)

(* Mutant: the last rank belongs to the next page too. *)
StopWide(page, size) == page * size + size

Start(page, size) == page * size
Stop(page, size) == page * size + size - 1

(* The ranks from start to stop, newest first; none unless start < stop. *)
PageOf(S, page, size) ==
  {t \in S : /\ Start(page, size) < Stop(page, size)
             /\ Cardinality({s \in S : s > t}) \in Start(page, size) .. Stop(page, size)}

(* Mutant: one rebuild for everybody. *)
RebuildKeyShared(u) == CHOOSE v \in Users : TRUE

(* "rebuildTimeLine:" and the user; neither page nor size. *)
RebuildKey(u) == u

(* The page is there, with enough on it. *)
Content(page, size, S) == page > 0 \/ Cardinality(S) >= size \div 2

(* GetHomeTimeLine up to the rebuild, which asks for what is missing. *)
Turn(c, u, page, size, ids, again) ==
  LET k == RebuildKey(u)
      leads == rebuild[k].stage = "none"
  IN /\ reqs' = [reqs EXCEPT ![c] = [Idle EXCEPT
                    !.user = {u}, !.size = size, !.ids = ids, !.led = again /\ leads,
                    !.stage = IF again THEN "wait" ELSE "fetch"]]
     /\ rebuild' = IF again /\ leads
                   THEN [rebuild EXCEPT ![k] =
                           [stage |-> "started", user |-> {u}, page |-> page,
                            size |-> size - Cardinality(ids), ids |-> {}]]
                   ELSE rebuild
     /\ UNCHANGED <<writing, home, fills, history>>

Ask(c, u, page, size) ==
  LET ids == PageOf(home[u], page, size)
  IN /\ reqs[c] = Idle
     /\ \/ Turn(c, u, page, size, ids, ~Content(page, size, ids)) /\ UNCHANGED faults
        \/ Turn(c, u, page, size, {}, TRUE) /\ Fault

(* Mutant: all of them. *)
OwnTweetsAll(S, page, size) == S

(* GetMyTweets: LIMIT and OFFSET, newest first; an odd size becomes 20. *)
OwnTweets(S, page, size) ==
  LET n == IF size = 0 \/ size > ListMax THEN ListUsual ELSE size
  IN {t \in S : Cardinality({s \in S : s > t}) \in page * n .. page * n + n - 1}

RebuildQuery(k) ==
  /\ rebuild[k].stage = "started" /\ "answers" \in AuthorQuery
  /\ \E u \in rebuild[k].user :
       rebuild' = [rebuild EXCEPT ![k].stage = "queried", ![k].page = 0, ![k].size = 0,
         ![k].ids = OwnTweets({t \in rows : Author[t] = u}, rebuild[k].page, rebuild[k].size)]
  /\ UNCHANGED <<writing, home, fills, reqs, faults, history>>

Told(k, S) ==
  reqs' = [c \in Clients |->
             IF reqs[c].stage = "wait" /\ \E u \in reqs[c].user : RebuildKey(u) = k
             THEN [reqs[c] EXCEPT !.stage = "fetch", !.own = S] ELSE reqs[c]]

(* The rows of ids; a cached copy may outlive its row (see Tweets). *)
Copies(ids) == {S \in SUBSET ids : ids \cap rows \subseteq S}

(* Everybody gets what was found, and a task is to write it. *)
RebuildDone(k) ==
  /\ rebuild[k].stage = "queried" /\ Cardinality(fills) < MaxFills
  /\ \E S \in Copies(rebuild[k].ids) :
       /\ fills' = IF S = {} THEN fills ELSE fills \cup {<<rebuild[k].user, S>>}
       /\ Told(k, S)
  /\ rebuild' = [rebuild EXCEPT ![k] = NoRebuild]
  /\ UNCHANGED <<writing, home, faults, history>>

(* An error is logged, and the answer goes without. *)
RebuildFail(k) ==
  /\ rebuild[k].stage # "none"
  /\ IF rebuild[k].stage = "started" /\ "fails" \in AuthorQuery
     THEN UNCHANGED faults ELSE Fault
  /\ Told(k, {})
  /\ rebuild' = [rebuild EXCEPT ![k] = NoRebuild]
  /\ UNCHANGED <<writing, home, fills, history>>

(* A request's own time is up; the rebuild goes on. *)
GiveUp(c) ==
  /\ reqs[c].stage = "wait" /\ Fault
  /\ reqs' = [reqs EXCEPT ![c].stage = "fetch"]
  /\ UNCHANGED <<writing, home, fills, rebuild, history>>

(* GetTweets: the answer is the copies of ids, and own; or an error.      *)
Fetch(c) ==
  /\ reqs[c].stage = "fetch"
  /\ reqs' = [reqs EXCEPT ![c] = Idle]
  /\ UNCHANGED <<writing, home, fills, rebuild, faults, history>>

(* The task: a ZADD each, then the trim; or some of the ZADDs. *)
Fill(k) ==
  /\ \E u \in k[1], S \in SUBSET k[2] :
       IF S = k[2] THEN Written(home, [home EXCEPT ![u] = Newest(@ \cup S)]) /\ UNCHANGED faults
       ELSE Written(home, [home EXCEPT ![u] = @ \cup S]) /\ Fault
  /\ fills' = fills \ {k}
  /\ UNCHANGED <<writing, rebuild, reqs, parted, overtaken, named>>

(* The process dies with its requests, tasks and what the worker held. *)
Crash ==
  /\ Fault
  /\ status' = [m \in Messages |-> IF status[m] = "accepted" THEN "lost" ELSE status[m]]
  /\ worker' = Resting /\ fills' = {}
  /\ rebuild' = [u \in Users |-> NoRebuild] /\ reqs' = [c \in Clients |-> Idle]
  /\ UNCHANGED <<rows, nameless, following, home, history>>

-----------------------------------------------------------------------------
Handle(m) == Carry(m) \/ Take(m) \/ ReadFollowers(m) \/ Finish(m) \/ Fail(m)

Rebuild(k) == RebuildQuery(k) \/ RebuildDone(k) \/ RebuildFail(k)

Next ==
  \/ \E t \in Tweets : Post(t) \/ Remove(t)
  \/ \E p \in Pairs : Meet(p) \/ Part(p)
  \/ \E m \in Messages : Handle(m)
  \/ \E u \in Users : Expire(u) \/ Rebuild(u)
  \/ \E w \in Wanted : Ask(w[1], w[2], w[3], w[4])
  \/ \E c \in Clients : GiveUp(c) \/ Fetch(c)
  \/ \E k \in fills : Fill(k)
  \/ Crash

Spec == Init /\ [][Next]_vars

-----------------------------------------------------------------------------
(* Types of the state, history included. *)
TypeOK ==
  /\ rows \subseteq Tweets /\ status \in [Messages -> D!Statuses]
  /\ nameless \subseteq New /\ following \subseteq Pairs /\ worker \in Workers
  /\ home \in [Users -> SUBSET Tweets]
  /\ fills \subseteq (SUBSET Users) \X (SUBSET Tweets)
  /\ rebuild \in [Users -> Rebuilds] /\ reqs \in [Clients -> Requests]
  /\ faults \in Nat
  /\ expected \subseteq Users \X New /\ parted \subseteq Pairs /\ overtaken \subseteq New
  /\ named \in [New -> Nat]

(* A tweet whose push is done is on the timeline of everybody who followed *)
(* its author when it was posted and has since, as long as it exists and   *)
(* the timeline has neither expired nor run over: between the post and the *)
(* worker's question for the followers nobody is forgotten, and no push,   *)
(* recall, backfill or failure of another takes the tweet away.            *)
PushReaches ==
  \A x \in expected :
    status[<<"create", x[2]>>] = "done" /\ x[2] \in rows => x[2] \in home[x[1]]

(* A recall that is done leaves nobody with the tweet but its author, who  *)
(* wrote it there himself by a rebuild, those who once ceased to follow    *)
(* him (the recall goes to the followers there are by then), and of these  *)
(* followers as many as are more than RecallCap.  This is not promised of  *)
(* a tweet that was pushed after its recall (overtaken), nor of one whose  *)
(* deletion message carries id 0 (nameless): the worker drops that, and    *)
(* the tweet stays wherever it is.                                         *)
RecallReaches ==
  \A t \in New \ (nameless \cup overtaken) :
    LET keep == {u \in Users \ {Author[t]} : t \in home[u] /\ <<u, Author[t]>> \notin parted}
    IN status[<<"delete", t>>] = "done" => keep = {} \/ Cardinality(keep) + RecallCap <= named[t]

(* Timelines and answers hold tweets of the user and of people he follows  *)
(* or has followed, and a rebuild his own: also when it is shared, when a  *)
(* push uses followers it read a while ago and when a backfill comes late. *)
FeedOwned ==
  LET mine(u) == {t \in Tweets : Author[t] = u}
      feed(u) == {t \in Tweets : <<u, Author[t]>> \in following \cup parted} \cup mine(u)
  IN /\ \A u \in Users : home[u] \subseteq feed(u)
     /\ \A c \in Clients : \A u \in reqs[c].user :
          reqs[c].own \subseteq mine(u) /\ reqs[c].ids \subseteq feed(u)

(* An answer is no longer than what was asked for, unless its rebuild was  *)
(* another request's: the rebuild is shared by user, whatever the size.    *)
AnswerFits ==
  \A c \in Clients :
    reqs[c].own = {} \/ reqs[c].led
      => Cardinality(reqs[c].ids) + Cardinality(reqs[c].own) <= reqs[c].size

(* The pages of a timeline, of two tweets or more, have each tweet once    *)
(* (of one tweet they are empty); whatever pushes and trims left there.    *)
PagesMeet ==
  \A u \in Users, size \in 2 .. 3 :
    LET pages == 0 .. Cardinality(home[u])
    IN \A t \in home[u] : \E p \in pages :
         \A q \in pages : t \in PageOf(home[u], q, size) <=> q = p

(* The messages here do only what Delivery lets them do. *)
Delivers == D!Spec
=============================================================================
