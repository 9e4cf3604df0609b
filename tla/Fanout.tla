------------------------------- MODULE Fanout -------------------------------
(***************************************************************************)
(* The fan-out pipeline of AITA: PostTweet and RemoveTweet hand a message  *)
(* to the goroutine pool (producer), a pool task writes it to a Redis      *)
(* stream, and one worker reads the stream, asks for the author's          *)
(* followers, and has a pool task push the tweet onto their timelines or   *)
(* recall it from them.                                                    *)
(*                                                                         *)
(* Redis is modelled from how src/ uses it: XADD with MAXLEN ~, XREADGROUP *)
(* with ">", XACK, and pipelines that are not MULTI, so that a failure may *)
(* leave a prefix of one applied.  go-redis repeats a command whose answer *)
(* was lost, so one XADD may leave two entries on the stream.              *)
(* GetFollowerIDs answers from the follow component, cache or database:    *)
(* here, any set of users.                                                 *)
(***************************************************************************)
EXTENDS Naturals, Sequences, FiniteSets

CONSTANTS
  Tweets,        \* tweet ids the table may hand out, in ascending order
  Users,         \* users whose timelines receive tweets
  Removers,      \* RemoveTweet requests that may run at the same time
  PoolCap,       \* size of workerPool
  StreamMaxLen,  \* MaxLen of the stream (100000 in the code)
  TimelineCap,   \* tweets kept per timeline (1000 in the code)
  RecallCap,     \* users one recall reaches (1000 in the code)
  FailLimit,     \* consecutive failures that open the breaker (20)
  MaxFaults,     \* bound: infrastructure faults in a behaviour
  MaxStops       \* bound: orderly shutdowns in a behaviour

ASSUME TweetsAssumption == Tweets \subseteq Nat \ {0}

ASSUME CapsAssumption ==
  /\ PoolCap \in Nat \ {0} /\ StreamMaxLen \in Nat \ {0}
  /\ TimelineCap \in Nat \ {0} /\ RecallCap \in Nat \ {0}
  /\ FailLimit \in Nat \ {0} /\ MaxFaults \in Nat /\ MaxStops \in Nat

VARIABLES
  row,         \* tweets table: "none", "live" or "gone", per id
  posting,     \* PostTweet requests between Create and AsyncToMQ
  removal,     \* RemoveTweet requests
  outbox,      \* pool tasks that have not written their message yet
  stream,      \* entries the consumer group has not been given
  pel,         \* entries given to the consumer and not acknowledged
  pc,          \* where the worker's loop is
  hand,        \* the message the worker holds (none or one)
  targets,     \* the followers it read for that message
  failCount, breaker,
  timeline,    \* home timelines in Redis: the tweet ids in them
  up,          \* "running", "stopping" (worker context cancelled), "down"
  grace,       \* a worker command was in flight when the context was cancelled
  faults, stops,
  submitted, handled, aud, reached, overtaken   \* history, see below

producerVars == <<row, posting, removal, outbox>>
workerVars   == <<pc, hand, targets, failCount, breaker>>
history      == <<submitted, handled, aud, reached, overtaken>>
vars == <<row, posting, removal, outbox, stream, pel, pc, hand, targets,
          failCount, breaker, timeline, up, grace, faults, stops,
          submitted, handled, aud, reached, overtaken>>

-----------------------------------------------------------------------------
(* Messages.  "id" is the tweet_id the message carries, "tweet" the tweet  *)
(* it is about: they differ when RemoveTweet got its tweet from the        *)
(* database, whose query does not select the id and so yields 0.  "copy"   *)
(* tells an entry from the one a repeated XADD adds.                       *)

Task(t, id, action) == [tweet |-> t, id |-> id, action |-> action, copy |-> 1]

Msg == [tweet : Tweets, id : Tweets \cup {0}, action : {"create", "delete"},
        copy : {1, 2}]

Creates(t) == {m \in Msg : m.tweet = t /\ m.action = "create"}

(* FromMap refuses a message whose tweet_id is not positive. *)
Malformed(m) == m.id = 0

InStream(m) == \E i \in 1 .. Len(stream) : stream[i] = m

FreeRemoval == [stage |-> "free", tweet |-> 0, id |-> 0]

Removal == [stage : {"fetched", "deleted"}, tweet : Tweets,
            id : Tweets \cup {0}] \cup {FreeRemoval}

-----------------------------------------------------------------------------
Init ==
  /\ row = [t \in Tweets |-> "none"]
  /\ posting = {} /\ outbox = {} /\ stream = <<>> /\ pel = {}
  /\ removal = [r \in Removers |-> FreeRemoval]
  /\ pc = "idle" /\ hand = {} /\ targets = {}
  /\ failCount = 0 /\ breaker = FALSE
  /\ timeline = [u \in Users |-> {}]
  /\ up = "running" /\ grace = FALSE
  /\ faults = 0 /\ stops = 0
  /\ submitted = {} /\ handled = {} /\ overtaken = {}
  /\ aud = [m \in Msg |-> {}] /\ reached = [m \in Msg |-> {}]

(* An infrastructure fault: a timeout, a refused or a broken connection. *)
Fault == faults < MaxFaults /\ faults' = faults + 1

-----------------------------------------------------------------------------
(* The pool.  Enqueue tasks and the worker's own push or recall share it;  *)
(* ants blocks the submitter while every slot is taken.                    *)

Busy == Cardinality(outbox) + (IF pc = "run" THEN 1 ELSE 0)

SlotFree == Busy < PoolCap

Submit(m) ==
  /\ SlotFree
  /\ outbox' = outbox \cup {m}
  /\ submitted' = submitted \cup {m}

(* Mutant: the request goes on with the id after the one inserted. *)
InsertTweetNextId(t) ==
  /\ up = "running" /\ row[t] = "none"
  /\ \A s \in Tweets : s < t => row[s] # "none"
  /\ row' = [row EXCEPT ![t] = "live"]
  /\ posting' = posting \cup {t + 1}
  /\ UNCHANGED <<removal, outbox, stream, pel, workerVars, timeline, up, grace,
                 faults, stops, history>>

(* PostTweet: the row is inserted with the next serial id... *)
InsertTweet(t) ==
  /\ up = "running" /\ row[t] = "none"
  /\ \A s \in Tweets : s < t => row[s] # "none"
  /\ row' = [row EXCEPT ![t] = "live"]
  /\ posting' = posting \cup {t}
  /\ UNCHANGED <<removal, outbox, stream, pel, workerVars, timeline, up, grace,
                 faults, stops, history>>

(* ... and the message handed to the pool in a later step of the request. *)
SubmitCreate(t) ==
  /\ up # "down" /\ t \in posting
  /\ Submit(Task(t, t, "create"))
  /\ posting' = posting \ {t}
  /\ UNCHANGED <<row, removal, stream, pel, workerVars, timeline, up, grace,
                 faults, stops, handled, aud, reached, overtaken>>

(* RemoveTweet fetches the tweet of its owner: the cached copy, which may  *)
(* outlive the row, or the row without its id.                             *)
FetchForRemoval(r, t) ==
  /\ up = "running" /\ removal[r].stage = "free" /\ row[t] # "none"
  /\ \E id \in (IF row[t] = "live" THEN {t, 0} ELSE {t}) :
       removal' = [removal EXCEPT
                     ![r] = [stage |-> "fetched", tweet |-> t, id |-> id]]
  /\ UNCHANGED <<row, posting, outbox, stream, pel, workerVars, timeline, up,
                 grace, faults, stops, history>>

(* The row is deleted; when it is gone already the request ends in error. *)
DeleteRow(r) ==
  /\ up # "down" /\ removal[r].stage = "fetched"
  /\ IF row[removal[r].tweet] = "live"
     THEN /\ row' = [row EXCEPT ![removal[r].tweet] = "gone"]
          /\ removal' = [removal EXCEPT ![r].stage = "deleted"]
     ELSE /\ removal' = [removal EXCEPT ![r] = FreeRemoval]
          /\ UNCHANGED row
  /\ UNCHANGED <<posting, outbox, stream, pel, workerVars, timeline, up, grace,
                 faults, stops, history>>

SubmitDelete(r) ==
  /\ up # "down" /\ removal[r].stage = "deleted"
  /\ Submit(Task(removal[r].tweet, removal[r].id, "delete"))
  /\ removal' = [removal EXCEPT ![r] = FreeRemoval]
  /\ UNCHANGED <<row, posting, stream, pel, workerVars, timeline, up, grace,
                 faults, stops, handled, aud, reached, overtaken>>

-----------------------------------------------------------------------------
(* The pool tasks run in any order.  One writes its message with XADD,     *)
(* which trims the oldest entries, approximately: any number of those      *)
(* beyond StreamMaxLen.                                                    *)

Trim(s) == {SubSeq(s, k + 1, Len(s)) :
              k \in {j \in 0 .. Len(s) : j = 0 \/ Len(s) - j >= StreamMaxLen}}

Append1(m) ==
  /\ stream' \in Trim(Append(stream, m))
  /\ overtaken' = IF m.action = "delete"
                     /\ (m.tweet \in posting \/ Creates(m.tweet) \cap outbox # {})
                  THEN overtaken \cup {m.tweet} ELSE overtaken

Enqueue(m) ==
  /\ up # "down" /\ m \in outbox
  /\ Append1(m)
  /\ outbox' = outbox \ {m}
  /\ UNCHANGED <<row, posting, removal, pel, workerVars, timeline, up, grace,
                 faults, stops, submitted, handled, aud, reached>>

(* The answer to the XADD is lost and the client repeats the command. *)
EnqueueAgain(m) ==
  /\ up # "down" /\ m \in outbox /\ m.copy = 1 /\ Fault
  /\ Append1(m)
  /\ outbox' = (outbox \ {m}) \cup {[m EXCEPT !.copy = 2]}
  /\ submitted' = submitted \cup {[m EXCEPT !.copy = 2]}
  /\ UNCHANGED <<row, posting, removal, pel, workerVars, timeline, up, grace,
                 stops, handled, aud, reached>>

(* The XADD fails within its 5 s: the error is logged, the message dropped. *)
EnqueueFail(m) ==
  /\ up # "down" /\ m \in outbox /\ Fault
  /\ outbox' = outbox \ {m}
  /\ UNCHANGED <<row, posting, removal, stream, pel, workerVars, timeline, up,
                 grace, stops, history>>

-----------------------------------------------------------------------------
(* The worker's loop.  Its commands carry the worker's context: once that  *)
(* is cancelled only the command already in flight can still succeed.      *)

MayIssue == up = "running" \/ (up = "stopping" /\ grace)

(* A command of the worker fails: refused because of the context, or by a  *)
(* fault.                                                                  *)
Cancelled == up = "stopping" /\ UNCHANGED faults
CommandFails == Cancelled \/ (MayIssue /\ Fault)

(* Mutant: the group's position does not advance. *)
DequeueStay ==
  /\ pc = "idle" /\ ~breaker /\ MayIssue /\ stream # <<>>
  /\ pel' = pel \cup {Head(stream)}
  /\ hand' = {Head(stream)} /\ pc' = "read"
  /\ grace' = FALSE
  /\ UNCHANGED <<producerVars, stream, targets, failCount, breaker, timeline, up,
                 faults, stops, history>>

(* Mutant: the newest entry is taken first. *)
DequeueNewest ==
  /\ pc = "idle" /\ ~breaker /\ MayIssue /\ stream # <<>>
  /\ stream' = SubSeq(stream, 1, Len(stream) - 1)
  /\ pel' = pel \cup {stream[Len(stream)]}
  /\ hand' = {stream[Len(stream)]} /\ pc' = "read"
  /\ grace' = FALSE
  /\ UNCHANGED <<producerVars, targets, failCount, breaker, timeline, up,
                 faults, stops, history>>

(* XREADGROUP with ">" and COUNT 1 moves the oldest entry to the PEL. *)
Dequeue ==
  /\ pc = "idle" /\ ~breaker /\ MayIssue /\ stream # <<>>
  /\ stream' = Tail(stream)
  /\ pel' = pel \cup {Head(stream)}
  /\ hand' = {Head(stream)} /\ pc' = "read"
  /\ grace' = FALSE
  /\ UNCHANGED <<producerVars, targets, failCount, breaker, timeline, up,
                 faults, stops, history>>

(* Nothing arrived within the 5 s the command blocks: round again. *)
DequeueNothing ==
  /\ pc = "idle" /\ ~breaker /\ up = "running" /\ stream = <<>>
  /\ UNCHANGED vars

(* The entry is given out but the answer never arrives. *)
DequeueLost ==
  /\ pc = "idle" /\ ~breaker /\ MayIssue /\ stream # <<>> /\ Fault
  /\ stream' = Tail(stream)
  /\ pel' = pel \cup {Head(stream)}
  /\ grace' = FALSE
  /\ UNCHANGED <<producerVars, workerVars, timeline, up, stops, history>>

(* handleTask returned nil. *)
Succeed(m) == pc' = "ack" /\ handled' = handled \cup {m}

(* handleTask returned an error: the entry stays pending, and enough of    *)
(* them in a row open the breaker.                                         *)
Fail ==
  /\ pc' = "idle" /\ hand' = {} /\ targets' = {} /\ grace' = FALSE
  /\ failCount' = IF failCount + 1 >= FailLimit THEN 0 ELSE failCount + 1
  /\ breaker' = (failCount + 1 >= FailLimit)

DropMalformed(m) ==
  /\ pc = "read" /\ m \in hand /\ Malformed(m)
  /\ Succeed(m)
  /\ UNCHANGED <<producerVars, stream, pel, hand, targets, failCount, breaker,
                 timeline, up, grace, faults, stops, submitted, aud, reached,
                 overtaken>>

(* Mutant: an author without followers is an error. *)
ReadSomeFollowers(m) ==
  /\ pc = "read" /\ m \in hand /\ ~Malformed(m) /\ MayIssue
  /\ \E found \in SUBSET Users :
       /\ aud' = [aud EXCEPT ![m] = found]
       /\ IF found = {} THEN Fail
          ELSE /\ pc' = "submit" /\ targets' = found /\ grace' = FALSE
               /\ UNCHANGED <<hand, failCount, breaker>>
  /\ UNCHANGED <<producerVars, stream, pel, timeline, up, faults, stops,
                 submitted, handled, reached, overtaken>>

(* GetFollowerIDs; without followers there is nothing to do. *)
ReadFollowers(m) ==
  /\ pc = "read" /\ m \in hand /\ ~Malformed(m) /\ MayIssue
  /\ \E found \in SUBSET Users :
       /\ targets' = found
       /\ aud' = [aud EXCEPT ![m] = found]
       /\ IF found = {} THEN Succeed(m)
          ELSE pc' = "submit" /\ UNCHANGED handled
  /\ grace' = FALSE
  /\ UNCHANGED <<producerVars, stream, pel, hand, failCount, breaker, timeline,
                 up, faults, stops, submitted, reached, overtaken>>

(* Mutant: a message is acknowledged although its followers are unknown. *)
ReadFailAcked(m) ==
  /\ pc = "read" /\ m \in hand /\ ~Malformed(m) /\ CommandFails
  /\ pel' = pel \ {m}
  /\ Fail
  /\ UNCHANGED <<producerVars, stream, timeline, up, stops, history>>

ReadFail(m) ==
  /\ pc = "read" /\ m \in hand /\ ~Malformed(m) /\ CommandFails
  /\ Fail
  /\ UNCHANGED <<producerVars, stream, pel, timeline, up, stops, history>>

(* The worker hands the push or recall to the pool and waits for it. *)
SubmitTask ==
  /\ pc = "submit" /\ SlotFree
  /\ pc' = "run"
  /\ UNCHANGED <<producerVars, stream, pel, hand, targets, failCount, breaker,
                 timeline, up, grace, faults, stops, history>>

(* Mutant: the trim keeps one more. *)
NewestAndOne(S) == {t \in S : Cardinality({s \in S : s > t}) <= TimelineCap}

(* ZREMRANGEBYRANK 0 -1001 keeps the newest tweets (ids ascend in time). *)
Newest(S) == {t \in S : Cardinality({s \in S : s > t}) < TimelineCap}

(* PushBatch: every user's ZADD and trim, or a prefix of the pipeline: the *)
(* users "done", and perhaps one whose ZADD went in without the trim.      *)
Pushed(t, done, half) ==
  [u \in Users |-> IF u \in done THEN Newest(timeline[u] \cup {t})
                   ELSE IF u \in half THEN timeline[u] \cup {t}
                   ELSE timeline[u]]

RunPush(m) ==
  /\ pc = "run" /\ m \in hand /\ m.action = "create" /\ MayIssue
  /\ timeline' = Pushed(m.id, targets, {})
  /\ reached' = [reached EXCEPT ![m] = targets]
  /\ Succeed(m)
  /\ grace' = FALSE
  /\ UNCHANGED <<producerVars, stream, pel, hand, targets, failCount, breaker,
                 up, faults, stops, submitted, aud, overtaken>>

(* RecallTweet removes the tweet for the first RecallCap users only. *)
Batches(S) ==
  IF Cardinality(S) <= RecallCap THEN {S}
  ELSE {b \in SUBSET S : Cardinality(b) = RecallCap}

Recalled(t, done) ==
  [u \in Users |-> IF u \in done THEN timeline[u] \ {t} ELSE timeline[u]]

RunRecall(m) ==
  /\ pc = "run" /\ m \in hand /\ m.action = "delete" /\ MayIssue
  /\ \E batch \in Batches(targets) :
       /\ timeline' = Recalled(m.id, batch)
       /\ reached' = [reached EXCEPT ![m] = batch]
  /\ Succeed(m)
  /\ grace' = FALSE
  /\ UNCHANGED <<producerVars, stream, pel, hand, targets, failCount, breaker,
                 up, faults, stops, submitted, aud, overtaken>>

(* The pipeline breaks after a prefix of it was applied, or is never sent. *)
BreaksAfter(m, done, half) ==
  IF m.action = "create"
  THEN /\ timeline' = Pushed(m.id, done, half)
       /\ reached' = [reached EXCEPT ![m] = done \cup half]
  ELSE /\ half = {} /\ Cardinality(done) <= RecallCap
       /\ timeline' = Recalled(m.id, done)
       /\ reached' = [reached EXCEPT ![m] = done]

(* Mutant: the error inside the pool task is not handed back. *)
RunFailSwallowed(m) ==
  /\ pc = "run" /\ m \in hand
  /\ MayIssue /\ Fault
  /\ \E done, half \in SUBSET targets :
       /\ Cardinality(half) <= 1 /\ half \cap done = {}
       /\ BreaksAfter(m, done, half)
  /\ Succeed(m)
  /\ UNCHANGED <<producerVars, stream, pel, hand, targets, failCount, breaker,
                 up, grace, stops, submitted, aud, overtaken>>

RunFail(m) ==
  /\ pc = "run" /\ m \in hand
  /\ \/ Cancelled /\ UNCHANGED <<timeline, reached>>
     \/ /\ MayIssue /\ Fault
        /\ \E done, half \in SUBSET targets :
             /\ Cardinality(half) <= 1 /\ half \cap done = {}
             /\ BreaksAfter(m, done, half)
  /\ Fail
  /\ UNCHANGED <<producerVars, stream, pel, up, stops, submitted, handled, aud,
                 overtaken>>

(* XACK; its error is ignored, the task counts as a success either way. *)
EndTask ==
  /\ pc' = "idle" /\ hand' = {} /\ targets' = {} /\ failCount' = 0
  /\ grace' = FALSE
  /\ UNCHANGED <<producerVars, stream, breaker, timeline, up, stops, history>>

Ack(m) ==
  /\ pc = "ack" /\ m \in hand /\ MayIssue
  /\ pel' = pel \ {m}
  /\ UNCHANGED faults
  /\ EndTask

AckFail(m) ==
  /\ pc = "ack" /\ m \in hand /\ CommandFails
  /\ UNCHANGED pel
  /\ EndTask

(* Mutant: what opened the breaker is forgotten only when the worker stops. *)
BreakerStaysOpen ==
  /\ up = "stopping" /\ breaker
  /\ breaker' = FALSE
  /\ UNCHANGED <<producerVars, stream, pel, pc, hand, targets, failCount,
                 timeline, up, grace, faults, stops, history>>

(* The 30 s of the breaker pass. *)
BreakerClose ==
  /\ up # "down" /\ breaker
  /\ breaker' = FALSE
  /\ UNCHANGED <<producerVars, stream, pel, pc, hand, targets, failCount,
                 timeline, up, grace, faults, stops, history>>

(* A timeline's key expires. *)
Expire(u) ==
  /\ timeline[u] # {}
  /\ timeline' = [timeline EXCEPT ![u] = {}]
  /\ UNCHANGED <<producerVars, stream, pel, workerVars, up, grace, faults,
                 stops, history>>

-----------------------------------------------------------------------------
(* Life of the process.  main stops the HTTP server, cancels the worker's  *)
(* context, waits 5 s and releases the pools; a request may outlive the    *)
(* server's own 5 s.                                                       *)

Shutdown ==
  /\ up = "running" /\ stops < MaxStops
  /\ up' = "stopping" /\ stops' = stops + 1
  /\ grace' = (pc \in {"idle", "read", "run", "ack"} /\ ~breaker)
  /\ UNCHANGED <<producerVars, stream, pel, workerVars, timeline, faults,
                 history>>

(* The loop sees the cancelled context and returns. *)
WorkerExit ==
  /\ up = "stopping" /\ pc = "idle"
  /\ pc' = "exit" /\ grace' = FALSE
  /\ UNCHANGED <<producerVars, stream, pel, hand, targets, failCount, breaker,
                 timeline, up, faults, stops, history>>

(* Mutant: the pools are released without the wait. *)
StopEarly ==
  /\ up = "stopping" /\ pc = "exit"
  /\ up' = "down" /\ failCount' = 0 /\ breaker' = FALSE
  /\ posting' = {} /\ outbox' = {}
  /\ removal' = [r \in Removers |-> FreeRemoval]
  /\ UNCHANGED <<row, stream, pel, pc, hand, targets, timeline, grace, faults,
                 stops, history>>

(* The wait was long enough for every request and pool task. *)
Stop ==
  /\ up = "stopping" /\ pc = "exit" /\ outbox = {} /\ posting = {}
  /\ \A r \in Removers : removal[r].stage = "free"
  /\ up' = "down" /\ failCount' = 0 /\ breaker' = FALSE
  /\ UNCHANGED <<producerVars, stream, pel, pc, hand, targets, timeline, grace,
                 faults, stops, history>>

(* The process dies, or its shutdown overruns the wait: requests and pool  *)
(* tasks go with it, Redis and the tweets table stay.                      *)
Crash ==
  /\ up # "down" /\ Fault
  /\ up' = "down" /\ pc' = "exit" /\ hand' = {} /\ targets' = {}
  /\ failCount' = 0 /\ breaker' = FALSE /\ grace' = FALSE
  /\ posting' = {} /\ outbox' = {}
  /\ removal' = [r \in Removers |-> FreeRemoval]
  /\ UNCHANGED <<row, stream, pel, timeline, stops, history>>

(* The group exists already, so InitMQ changes nothing; ">" never returns  *)
(* to what is pending.                                                     *)
Restart ==
  /\ up = "down"
  /\ up' = "running" /\ pc' = "idle"
  /\ UNCHANGED <<producerVars, stream, pel, hand, targets, failCount, breaker,
                 timeline, grace, faults, stops, history>>

-----------------------------------------------------------------------------
Request ==
  \/ \E t \in Tweets : InsertTweet(t) \/ SubmitCreate(t)
  \/ \E r \in Removers, t \in Tweets : FetchForRemoval(r, t)
  \/ \E r \in Removers : DeleteRow(r) \/ SubmitDelete(r)

PoolTask(m) == Enqueue(m) \/ EnqueueAgain(m) \/ EnqueueFail(m)

Handle(m) ==
  \/ DropMalformed(m) \/ ReadFollowers(m) \/ ReadFail(m)
  \/ RunPush(m) \/ RunRecall(m) \/ RunFail(m) \/ Ack(m) \/ AckFail(m)

Worker ==
  \/ Dequeue \/ DequeueLost \/ SubmitTask \/ WorkerExit
  \/ \E m \in Msg : Handle(m)

Next ==
  \/ Request \/ Worker \/ DequeueNothing \/ BreakerClose
  \/ \E m \in Msg : PoolTask(m)
  \/ \E u \in Users : Expire(u)
  \/ Shutdown \/ Stop \/ Crash \/ Restart

(* A request's handler runs on, each pool task has a goroutine and a       *)
(* deadline, the worker is a loop, a sleep ends, and the process is        *)
(* started again when it stops.                                            *)
Fairness ==
  /\ \A t \in Tweets : WF_vars(SubmitCreate(t))
  /\ \A r \in Removers : WF_vars(DeleteRow(r) \/ SubmitDelete(r))
  /\ \A m \in Msg : WF_vars(PoolTask(m))
  /\ WF_vars(Worker) /\ WF_vars(BreakerClose)
  /\ WF_vars(Stop) /\ WF_vars(Restart)

Spec == Init /\ [][Next]_vars
FairSpec == Spec /\ Fairness

-----------------------------------------------------------------------------
(* Types of the state, history included. *)
TypeOK ==
  /\ row \in [Tweets -> {"none", "live", "gone"}]
  /\ posting \subseteq Tweets
  /\ removal \in [Removers -> Removal]
  /\ outbox \subseteq Msg /\ stream \in Seq(Msg) /\ pel \subseteq Msg
  /\ pc \in {"idle", "read", "submit", "run", "ack", "exit"}
  /\ hand \subseteq Msg /\ targets \subseteq Users
  /\ failCount \in Nat /\ breaker \in BOOLEAN
  /\ timeline \in [Users -> SUBSET Tweets]
  /\ up \in {"running", "stopping", "down"} /\ grace \in BOOLEAN
  /\ faults \in Nat /\ stops \in Nat
  /\ submitted \subseteq Msg /\ handled \subseteq Msg
  /\ overtaken \subseteq Tweets
  /\ aud \in [Msg -> SUBSET Users] /\ reached \in [Msg -> SUBSET Users]

(* A message handleTask reported as done, and the worker may acknowledge,  *)
(* reached every follower read for it (for a recall: as many as the batch  *)
(* holds).  A pipeline cut halfway, a failed read of the followers or a    *)
(* cancelled context never counts as done, whatever was applied before.    *)
DoneMeansReached ==
  \A m \in handled : ~Malformed(m) =>
    IF m.action = "create" THEN reached[m] = aud[m]
                           ELSE reached[m] \in Batches(aud[m])

(* Once a recall has removed a tweet from a user's timeline the tweet      *)
(* stays out of it: no push of it comes later, not after a restart either. *)
(* This rests on one worker reading entries in order and never re-reading  *)
(* them; it needs the deletion to be written after the creation, which the *)
(* unordered pool does not ensure ("overtaken").                           *)
RecallSticks ==
  \A m \in Msg :
    m.action = "delete" /\ m.id = m.tweet /\ m.tweet \notin overtaken
      => \A u \in reached[m] : m.tweet \notin timeline[u]

(* A home timeline holds TimelineCap tweets, and at most one more for each *)
(* time a pipeline broke between a user's ZADD and the trim after it.      *)
TimelineBounded == \A u \in Users : Cardinality(timeline[u]) <= TimelineCap + faults

(* The tasks nobody will ever finish: pending in the group, which does not *)
(* hand them out again, not handled and not in the worker's hand.          *)
Stranded == pel \ (handled \cup hand)

(* A fault or an orderly stop strands one task at most: the worker takes   *)
(* one entry at a time, and once its context is cancelled it takes no      *)
(* other after the one it fails with.                                      *)
StrandedBounded == Cardinality(Stranded) <= faults + stops

(* Every message that reached the pool leaves the pool and the stream:     *)
(* shutdowns, crashes, the breaker and failures delay it, but a worker is  *)
(* always there again to take what is queued.                              *)
QueueDrains ==
  \A m \in Msg : m \in outbox ~> (m \notin outbox /\ ~InStream(m))

(* As long as nothing fails and the process is not stopped every posted    *)
(* tweet is pushed to the end (if the stream has room for all of them):    *)
(* sharing one bounded pool does not block producers or worker for ever.   *)
FanoutCompletes ==
  \A t \in Tweets :
    row[t] # "none" ~> (Creates(t) \cap handled # {} \/ faults + stops > 0)

(* The messages as the abstract module sees them. *)
Status(m) ==
  IF m \notin submitted THEN "unsent"
  ELSE IF m \in outbox THEN "accepted"
  ELSE IF InStream(m) THEN "queued"
  ELSE IF m \in handled THEN "done"
  ELSE IF m \in pel THEN "taken"
  ELSE "lost"

Lost == {m \in Msg : Status(m) = "lost"}

(* The messages beyond what the stream keeps. *)
Excess ==
  IF Cardinality(submitted) > StreamMaxLen
  THEN Cardinality(submitted) - StreamMaxLen ELSE 0

(* What is lost on the way to the worker is accounted for: a fault costs   *)
(* no more than the pool held, a stop nothing, and the trim of the stream  *)
(* no more than was ever submitted beyond its length, although each write  *)
(* may trim entries that nobody has read.                                  *)
LossBounded == Cardinality(Lost) <= PoolCap * faults + Excess

(* What faults and stops may cost, before and after a message is taken.    *)
DamageBounded == StrandedBounded /\ LossBounded

D == INSTANCE Delivery WITH Messages <- Msg, status <- [m \in Msg |-> Status(m)]

(* The pipeline implements Delivery: a message is handled at most once,    *)
(* and one the worker has taken is done or still pending in the group.     *)
DeliverySpec == D!Spec

(* What the tests of the service expect: the deletion message carries the  *)
(* id of the tweet that was deleted.                                       *)
DeletionNamesTweet ==
  \A m \in submitted : m.action = "delete" => m.id = m.tweet

(* What main announces: after an orderly stop without faults no task is    *)
(* left half done.                                                         *)
StopFinishesTasks == up = "down" /\ faults = 0 => pel \ handled = {}
=============================================================================
