# AITA in TLA+

AITA is a small Twitter-like backend in Go: an HTTP API (gin) over Postgres and
Redis, two `ants` goroutine pools, and a Redis stream that carries the fan-out
of tweets to the home timelines. What it promises depends on interleavings no
unit test runs: pool tasks in any order, caches written after the fact,
pipelines that stop halfway, a worker that dies between two commands,
transactions on two connections. This directory models those parts, checks them
with TLC on small instances and proves the most important facts with TLAPS.

Paths below are relative to `src/internal/` unless they start with `cmd/`.

## 1. Inventory

| component (code) | state it keeps | operations | what is hard | what makes it correct |
|---|---|---|---|---|
| fan-out producer (`producer`, `models/task.go`) | tasks waiting in `workerPool` | `AsyncToMQ` | unordered tasks, dropped errors, a full pool | every message written at most once (twice if go-redis repeats the XADD) |
| queue (`pkg/messagequeue`) | stream, pending list | `Enqueue`, `Dequeue`, `Ack`, `InitMQ` | MAXLEN trimming, lost answers, `>` never re-reads | at-most-once delivery; what is taken is done or pending |
| fan-out worker (`worker`) | position in its loop, failure count, breaker | `Start`, `handleTask`, `processCreate`, `processDelete` | shares the pool with producers, cancelled context, breaker | done means every follower read for it was reached |
| timelines (`service/timeline_serive.go`, `repository/timeline_repository.go`, `cache/timeline_cache.go`) | a sorted set per user, rebuilds under way | `PushBatch`, `RecallTweet`, `GetHomeTimeLine`, `BackfillIDs` | pipelines without MULTI, caps, tiny time to live, followers that change between push and recall, a shared rebuild | bounded; a push reaches who it should, a recall sticks; pages fit together; nobody is shown another's feed |
| process (`cmd/api/main.go`) | running, stopping, down | start, shutdown | order of the shutdown | no task is left half done by an orderly stop |
| sessions (`service/session_service.go`, `repository/redisstore`, `api/middleware`) | a key per session, an index per user, background refreshes | `Issue`, `Validate`, refresh, `Revoke`, `DeleteByUserID` | writes out of order, index with its own expiry | lifetime cap, complete index, no resurrection |
| tweets (`service/tweet_service.go`, `repository/tweet_repository.go`, `db/tweet_store.go`, `cache/tweet_cache.go`) | table, cached copies, cache tasks, loads | `PostTweet`, `FetchTweet`, `EditTweet`, `RemoveTweet`, `MultiGet` | late cache writes, delayed second invalidation, shared loads | stale copies are about to go; rows change for their owner only |
| follow relation (`service/follow_service.go`, `repository/follow_repository.go`, `db/follow_store.go`, `cache/follow_cache.go`, `db/base.go`) | table, two counters per user, two cached lists per user | `Follow`, `UnFollow`, `GetRelation`, `GetFollowers`, `GetFollowings` | a DELETE outside its transaction, row locks, connections, shared queries | counters explained by the rows; cached lists follow the table |
| user accounts (`service/user_service.go`, `repository/user_repository.go`, `db/user_store.go`, `cache/user_cache.go`, `api/user_handler.go`) | users table with two counters, two cached keys per user | `Register`, `Login`, `ToMyAccount`, `Exists`, profiles, lists of names, count updates | shared queries, invalidation before the commit, a query that refuses long lists | nobody is missing; a cached count is right or its error is known |
| singleflight (`pkg/singleflight`) | loads under way, a semaphore of 100 | `GetDataWithSF` | leader's context, loads that make calls themselves | no place is lost, nobody waits for ever |
| API, configuration, error codes, passwords, DTOs | none | decoding, rendering | - | - |

How they interact: a handler calls a service, the service repositories, a
repository a store (Postgres) and a cache (Redis) and hands cache writes to
`backfillPool`. `PostTweet` and `RemoveTweet` hand a message to `workerPool`,
whose task writes the stream; the worker reads it, asks the follow repository
for the followers and has `workerPool` push or recall. Everything else meets
only in the tables and in Redis.

## 2. Plan

Order of work, the most important behaviour first:

1. `Delivery` (abstract) and `Fanout`, with `MCFanout` and `FanoutProofs` - done.
2. `Session`, `MCSession`, `SessionProofs` - done.
3. `Tweets`, `MCTweets`, `TweetsProofs` - done.
4. `Follow`, `MCFollow`, `FollowProofs` - done.
5. `SingleFlight`, `MCSingleFlight`, `SingleFlightProofs` - done.
6. `Accounts`, `MCAccounts`, `AccountsProofs` - done.
7. `HomeTimeline`, `MCHomeTimeline`, `HomeTimelineProofs`, `HomePagesProofs` -
   done: the composition. It takes from the
   fan-out what `Delivery` promises, from the follow component that the list of
   followers changes in any order, and from the tweets that a copy may outlive
   its row, and asks what a reader of a timeline gets.
8. The remaining proofs: `DeliverySpec`, `RecallSticks`, `TimelineBounded` for
   `Fanout`, `CountsExplained` for `Follow` - done.
9. What the violated properties leave true, and the sharing of loads:
   `DamageBounded` for `Fanout`, `RowsIsolated` and `SharedOnlySwapped` for
   `Follow`, `ReadsRecent` for `Tweets`, the abstract `SharedLoad` that
   `SingleFlight` implements, pages of any size - done.
   Every safety property of a passing run is proved; liveness stays with TLC.

Conventions: one action per step between which others may act; a definition
marked "Mutant" is a plausible bug that some property must notice, and is used
by no specification; "bound" marks a constant that only limits exploration;
"history" a variable no guard reads.

## 3. The modules

### Delivery, Fanout

`Delivery` says what the pipeline promises of a message: it moves forward only
(unsent, accepted, queued, taken, done, or lost), one is taken at a time, and
once taken it is never given up: it is done or still pending. Nothing promises
that it will be done.

`Fanout` models the pipeline: `posting` and `removal` are requests between two
steps of `PostTweet` and `RemoveTweet`; `outbox` the pool tasks of `AsyncToMQ`;
`stream` and `pel` the consumer group; `pc`, `hand`, `targets`, `failCount`,
`breaker` the worker's loop; `timeline` the sorted sets; `up` and `grace` the
process and the one command that may still be in flight when its context is
cancelled. What a cancelled context does is modelled per command
(`MayIssue`, `CommandFails`). Pipelines run whole (`RunPush`, `RunRecall`) or
are cut after any prefix (`RunFail`). `DeliverySpec` is the refinement, with the
status of a message computed from where it is.

`Delivery` lets any number of messages be lost or stay taken; two invariants of
`Fanout` say how many. `Stranded` are the entries pending in the group that
nobody will finish: an orderly stop leaves one, as the run FanoutStop shows, and
`StrandedBounded` that no stop and no fault leaves two. `Lost` are the messages
that never reach the worker: a fault costs at most what the pool held, and all
the trimming together at most what was submitted beyond the stream's length,
although every write trims, read or not (`LossBounded`). `DamageBounded` is both.

Abstractions: a timeline is a set of ids, since ids ascend with creation time,
which is the score; `GetFollowerIDs` answers any set of users, so whatever the
follow component does is included; XADD that go-redis repeats after a lost
answer leaves a second entry, told apart by `copy`; the time to live of a
timeline, computed with `GetRandomExpiration(72, 3)` in nanoseconds, is "any
time" (`Expire`); a group that does not exist is the same as one on an empty
stream.

### Session

`data` are the session keys, `index` and `indexExp` the per-user sets with their
own expiry, `now` the clock that Redis and the process share. A login, a
refresh, a logout and a purge are each cut where the code leaves Redis between
two commands; the sets `issuing`, `refreshing`, `extending`, `revoking`,
`purging` hold them there. A pipeline of n commands may apply any prefix.
Tokens stand for their hashes and may be drawn twice (`collided`).

### Tweets

`row` is the table, `cache` the copies by key, `tasks` the work submitted to
`backfillPool` (set, set-if-absent for lists, delayed deletion), `load` the
singleflight of one tweet, `reqs` requests between their steps. The single-row
query does not select the id, so what is loaded has id 0 (`LoadedId`) and is
written under a key nobody reads, which the model does not keep (`Put`).
`seen` is history: what a client's request may find, namely the contents its
tweet's row had since the request came, what a load it joined had read, and what
a cached copy said that it took while that copy's deletion was to come.
`ReadsRecent` measures the copy a request works with, and so what an edit is
compared with, by it. `Timely` assumes that the 800 ms the second invalidation
sleeps outlast the cache writes submitted before the update; the code relies on
it and cannot ensure it. The equal cache writes of several waiters of one load
are one task. Whether an edit is within its ten minutes is left open.

### Follow

`follows` is the table, `count` the two counters of each user (committed),
`cached` the lists in Redis, `tasks` the pool's cache writes, `load` and
`flight` the singleflight of a list and of a relation, `reqs` the requests with
the statement they are at. Row locks and connections follow from the stages:
`Holds`, `InTx`, `Blockers`, `FreeConn`; a transaction waiting in a circle may
be aborted (`Deadlocked`, `Rollback`). `UnFollow` hands its DELETE the
connection pool and not the transaction (`db/follow_store.go`), so `Delete`
takes a second connection and commits at once, whatever becomes of the rest.
`Insert` submits the cache write before the commit, as the code does. An empty
sorted set is no key, so a list is cached when it has a member. Of a list with
more than `ListCap` rows any `ListCap` of them are taken.

`Transactors` says what `NewFollowService` is built with. `cmd/api/main.go`
builds it without a transaction manager ("nil"), and then every Follow panics
(`Panic`, which FollowCounts includes). The other runs use "sql" alone, the
manager `db/base.go` provides and the service is written for.

### SingleFlight

`slots` are the places taken in `limitSem`, `calls` what each caller is in
(waiting for a place, waiting for an answer, told), `flights` the loads by key
and whether their context has ended. `Join` and `Start` are DoChan with and
without a load of the key; `Leave` is every return, with the deferred receive
and the deferred cancel, so a starter that leaves ends the context of a load
that others wait for. A nested load (the rebuild of a home timeline) is itself a
caller and goes by the name of its key; `NestedDeadline` is the end of its
twenty seconds. `Detached` are the keys whose query ignores the context (the
relation query passes `context.Background()`). The deadline of two seconds of a
plain query is one of the ways it fails.

`SharedLoad` is what the sharing promises, without places, contexts and
deadlines: one load of a key at a time; who asks waits for it or begins it; it
ends once, for all who wait at that moment and with one answer nobody else is
told; it goes on when its starter leaves, and is "cancelled" only then; a load
that makes a call has that call's answer or fails without one. `LoadsShared` is
the refinement: a load is under way when its flight is, a caller waits for the
key of the flight it is in (`Waits`), leads it when it did not join (`Leads`),
and has heard the answer it was told (`Heard`). Waiting for a place is a stutter.

### Accounts

`rows` and `count` are the users table, `tx` who holds a row inside a
transaction, `names` and `counts` the two keys of a user in Redis, `tasks` the
writes handed to the pool, `flights` the shared queries, `reqs` the requests.
`Cached` is what counts as a hit: both keys for a profile and for Exists, all the
names for a list (one missing key makes the pipeline return `redis.Nil`, and
`GetLists` then answers nothing). `Invalidate` comes before `Commit`, as
`IncreaseFollower` calls it inside the transaction of Follow. `exposed` names the
users whose cached count nothing will correct before it expires. A user is its
email and its name: the two unique constraints refuse the second INSERT alike.
The id lists come from Follow and name accounts that exist or existed when the
list was made, so `Wanted` may ask for anybody.

### HomeTimeline

Below the timelines everything is abstract: `status` moves messages as
`Delivery` allows (checked: `Delivers`), `following` is what `GetFollowerIDs`
answers, `rows` the tweets table, `Copies` a cached copy that outlives its row.
The timelines themselves are not: `Apply` is the pipeline of a push or a recall,
whole (`Finish`) or cut (`Fail`, which leaves one timeline untrimmed at most:
`Cut`); `Ask` is the page of ids, the choice whether to rebuild and the joining
of the rebuild; `RebuildQuery`, `RebuildDone` and `RebuildFail` the load;
`Fetch` the rest; `Fill` the pool task with its ZADDs and its trim. The worker
asks for the followers when it handles a message, not when the tweet is posted.
`AuthorQuery` says what `GetTweetIDsByAuthor` does: at this commit its SQL does
not parse, so it always fails; the run has it answer as well ("answers"), as the
code around it and its tests expect, which includes every behaviour of the
program as it is. `RebuildKey` has the user only, as in the code, so a rebuild
is shared between requests for different pages and sizes. `expected`, `parted`,
`overtaken` and `named` are history: who should still have a tweet that was
pushed, relations that ceased, tweets pushed after their recall, and how many
followers a recall was to reach.

## 4. The runs

| run | instance | shows |
|---|---|---|
| FanoutSafety | 1 tweet, 1 remover, 2 users, stream of 2, 2 faults, 1 stop | `TypeOK`, `DoneMeansReached`, `RecallSticks`, `DamageBounded`, and `DeliverySpec`: the pipeline implements `Delivery` |
| FanoutLive | 2 tweets, pool of 1, 2 faults, breaker at 1 failure, 1 stop, fair | `QueueDrains`, `FanoutCompletes`, `TimelineBounded` |
| FanoutDeletionId | 1 tweet, 1 remover | violated: a removal that missed the cache announces the deletion of tweet 0, which the worker drops |
| FanoutStop | 1 tweet, no fault, 1 stop | violated: an orderly stop leaves the task in progress pending for ever |
| Sessions | 1 user, 2 tokens, logins to 2, clock to 6 | `TypeOK`, `LifetimeCap`, `IndexCovers`, `NoResurrection`, `SessionKept` |
| TweetCache | 1 tweet, 2 users, 2 contents, 2 clients, 1 fault | `TypeOK`, `StaleCovered`, `GoneCovered`, `ReadsRecent`, `OwnerOnly` |
| FollowCounts | 2 users, 2 clients, 3 connections, 1 fault, fair | `TypeOK`, `CountsExplained`, `RowsIsolated`, `SharedOnlySwapped`, `RequestsEnd` |
| FollowCache | 2 users, 1 client, 2 pool tasks, 1 fault | `NothingInvented`, `PhantomCovered` |
| FollowRelation | 2 clients | violated: who asks while the other's query runs is told the other's view |
| LoadSharing | 3 callers, 2 queries, 1 rebuild, 2 places, fair | `TypeOK`, `SlotsCounted`, `CallsEnd`, and `LoadsShared`: the helper implements `SharedLoad` |
| AccountReads | 2 users, 2 clients, a count to 1, 1 pool task, 1 fault | `TypeOK`, `CountsCovered`, `NobodyMissing` |
| HomeTimelines | 3 users, 2 of them may follow the third, recalls of 1, 2 old tweets and 1 new, timelines of 2, 2 readers, 1 fault | `TypeOK`, `PushReaches`, `RecallReaches`, `FeedOwned`, `AnswerFits`, `PagesMeet`, and `Delivers` |

Why these bounds are enough to meet the cases. Fanout: create, delete and a
repeated XADD compete for a stream of two, so trimming happens; two users let a
pipeline be cut between them, and `RecallCap` 1 makes a recall partial; two
faults allow a failure after a crash; `FailLimit` 2 opens the breaker in
FanoutSafety. FanoutLive has `FailLimit` 1: one failure opens the breaker while
the worker runs, and the other tweet's message waits behind it on the stream;
the second fault is left for a crash or another failure at any later moment. Two
tweets on timelines of one make the trim matter. Session: the durations keep the
order of the code's (timeout < duration = margin < life), the clock passes the
cap, and two operations are in flight at a time, which is what it takes for one
to overtake another; two tokens share one index, so a purge and a login meet
there, and either may be drawn again. Logins after time 2 (`LastLogin`) would
only repeat the same behaviours later; more users, tokens and operations are
covered by the proofs. Tweets: a second tweet shares nothing with the first but
the pool. Follow: FollowCounts has one connection more than clients, without
which UnFollow calls that hold all connections wait for ever (a hazard of the
code; `Refused` needs an idle client, so TLC would report that as a deadlock);
its requests cross, so both the row deadlock and the wait for an uncommitted
equal insert happen, and the two users' questions about each other cross too and
share a query. In FollowCache concurrency comes from pool tasks, list loads and
the shared relation query; more clients are covered by the proof of
`PhantomCovered`. MaxCount 1 stops a counter that reached 1 when the next
request arrives. LoadSharing: with two places and three callers a rebuild and
its caller can fill the semaphore, so that the nested call waits for a place its
own caller keeps; more of everything is covered by the proofs. AccountReads: one
client sends every request, the other may share its queries; `NameCap` 1 makes a
list of two too long; the users share nothing but the pool. HomeTimelines: bob
has two tweets from before, a rebuild puts them on a timeline of two that ann's
new tweet then overflows; three requests ask for different pages and sizes: two
of them are of bob's timeline, so a rebuild of it is shared by requests that
differ, and carol, who has no tweets, must be told none of bob's; bob and carol
may follow ann, each relation begins and ends once, at any moment of the push
and the recall, and `RecallCap` 1 leaves one of two followers with the tweet.
(ann herself asks for nothing here; that she may have her own tweet by a rebuild
is in the theorems.) `PagesMeet` looks at pages of two and three of whatever the
timelines hold.

Some properties except cases in which the code does not do what one would wish,
and nothing in it says that it should. Each is a behaviour of the model,
recorded in a history variable so that the property can say that there is no
other: a push after its recall because the deletion was written to the stream
first (`overtaken`) and a deletion announced with id 0 (`nameless`); a session
whose index entry was lost to a purge or a cut pipeline (`uncovered`); a copy or
a count cached after the only invalidation (`exposed`, in `Tweets` and in
`Accounts`); a relation cached after it was gone (`late`); decrements rolled
back after their DELETE (`lost`) or made without one (`spurious`); followers who
left between a push and its recall (`parted`). The expiry of a timeline takes
its tweets out of `expected`. These properties speak of all other cases, and
`PROJECT.json` lists the excepted ones as hazards that no property covers.

## 5. Fairness

`Fanout`: a handler that runs goes on, each pool task is a goroutine with a
deadline, the worker is a loop whose commands have deadlines (its choice between
success and failure stays open), the breaker's sleep ends, and the process is
started again (docker-compose `restart`, or an operator). No fairness on
requests arriving, faults, expiry or shutdown. Weak fairness is enough: the
worker waiting for a pool slot is enabled for good once the producers' tasks,
which never wait for it, are done. `Follow`: strong fairness of a client's step,
because waiting for a connection (`database/sql`) and for a row lock (Postgres)
is in order of arrival: who could go again and again does go. A deadlock ends
because Postgres aborts a victim. `SingleFlight`: queries have their two seconds
and rebuilds their twenty, so a load returns (weak fairness), a caller that was
told returns, and a channel serves the goroutines waiting to send in order of
arrival (strong fairness of `Enter`); nothing is assumed of a request's context.
Sessions, tweets, accounts and home timelines have no liveness property: what
they hand to a pool may be lost with the process, and nothing tries again.

## 6. What is proved

All theorems hold for every value of the constants that the named assumptions
admit.

`SessionProofs`: `TypeCorrect`, `LifetimeBounded`, `IndexComplete`,
`EndedForGood` and `SessionsKept` (`NotTakenOver`, who it is, and
`HardlyShortened`, when it ends). The invariant adds to the three properties
that records waiting to be written obey the same bounds (`RecordsBounded`) and
that a token drawn once is stored at most once (`FreshTokens`). `IndexCovers`
needs `MarginAssumption`: an index written for a session outlives every session
of that user, since none ends later than `SessionDuration` from now and the
index gets `IndexMargin >= SessionDuration` on top. The two action properties
rest on `RefreshesContinue`: a refresh waiting to be written continues the
session that is stored under its token, or one that has ended, and grants
`SessionDuration` from the time it began; and on `OnlyRefreshes`: nothing but a
refresh writes over a session that lives.

`FanoutProofs`: `TypeCorrect`, `HandledReached` (DoneMeansReached),
`RecallsStick`, `TimelinesBounded`, `DamageIsBounded` (`StrandedAreFew` and
`LossesBounded`) and `PipelineDelivers`. The inductive invariant says where a
message can be: it is submitted once (`Fresh`) and then in one place, once
(`Places`), so a message the worker takes was never handled before; what the
worker aims at is the audience it read (`Aimed`), and nothing else was reached
(`Untouched`). Without `Places` a second handling could change the audience of a
message already reported as done. `RecallSticks` needs the order on the stream
(`Ordered`): unless the deletion overtook the creation, no creation of a tweet
is left in the pool once its deletion is written, none follows it on the stream,
and none is in the worker's hands once the deletion was taken; a write and a
read keep the order (`WriteShift`, `TailShift`). For `TimelineBounded` the
tweets a trim keeps are counted by the number of newer ones, an injection into
an interval (`NewestFew`). `PipelineDelivers` is the refinement of `Delivery`:
`Flow` says where one step may move messages, `StatusMoves` that the moves it
leaves are those of `Delivery`. `StrandedBounded` alone is not inductive: a stop
is counted at once and strands its task later. While the process is stopping and
its context may still fail a task (`Owed`) the stop's allowance is unused
(`StrandedFew`), and a worker that has failed so takes nothing more.
`LossBounded` needs that no more is under way in the pool than fits
(`PoolBounded`). A write that trims leaves a full stream, and what is on the
stream and what is lost are different submitted messages, so all that is lost by
then, for whatever reason, is no more than was submitted beyond its length
(`WriteLosses`); any other step loses at most what was in the pool, and counts
as a fault (`MoreLost`).

`FollowProofs`: `TypeCorrect`, `PhantomsCovered`, `NothingIsInvented`,
`CountsAreExplained`, `LocksAreExclusive`, `RowsAreIsolated` and
`SharedAreSwapped`, for any number of users, clients, connections and faults.
`PhantomCovered` is inductive with `TypeOK`: an UnFollow deletes the row before
it drops the lists, and every later cache write of a relation without a row is
recorded in `late`. `NothingInvented` needs that whatever waits on its way to
the cache or to an answer (table, loads, shared queries) was inserted too.
`CountsExplained` needs that a relation has no row while some transaction, the
only one, inserts it (`OneInserts`), and that a request whose DELETE removed a
row is between that and its end (`HitsOwed`): then each step moves rows, counts,
decrements owed and decrements lost together, for the two lists of one relation
(`SideAdd`, `OwedPaid`). `LocksExclusive` follows from that and from `RowsHeld`,
that nobody comes to hold a user's row while another does, and says what the
model's `Deadlocked` relies on: a transaction waits for one other at most.
`RowsIsolated` then follows step by step: only a commit changes a counter, and
its transaction holds the row alone. (`LocksExclusive` is an invariant only of
the proofs: no run checks it apart from what `RowsIsolated` and
`CountsExplained` say with it.) `SharedOnlySwapped` needs that a shared query
was started from the point of view of one of the two users it is about
(`Viewed`), and `NothingInvented` for what it says of that view.

`SingleFlightProofs`: `TypeCorrect`, `PlacesExact`, `LoadsAreLed`,
`CancelledSharing` and `SharingImplemented`, for any number of callers, keys,
nested loads and places. The invariant adds that a nested call exists only while
its load does and asks for its inner key (`NestedCalls`), that a load has at
most one starter waiting and a live context as long as it waits (`OneStarter`),
and that a call which has no place has joined nothing (`QueuedFresh`).
`OneStarter` is what makes `CancelledOnlyShared` inductive: a context that has
ended belongs to nobody who still waits as the starter. Places are counted with
the cardinality lemmas of the library, one step adding or removing at most the
callers it names. `LoadsLed` and `CancelledOnlyShared` have no run of their own:
where they fail `LoadsShared` does. `SharingImplemented` is the refinement of
`SharedLoad`: with `OneStarter` and `LoadsLed` a load is cancelled only when
nobody leads it, and a nested call has an answer to pass on exactly when it was
told one (`ToldAnswers`); each step changes the view of the callers it names and
of no other (`OneUpdated`, `SameViews`).

`HomeTimelineProofs`: `TypeCorrect`, `PushesReach`, `RecallsReach`, `FeedsOwned`
and `MessagesDeliver`, for any users, tweets, relations, requests and faults.
The invariant says what the worker holds between reading the followers and
writing: a push aims at everybody who expects the tweet (`PushAimed`: nobody
starts to expect a tweet after its post), a recall at everybody who has it but
for the exceptions of `RecallReaches` (`RecallAimed`, which needs `FeedOwned`:
who has it has met the author), and a recall is of a tweet without a row
(`Sent`), so that it takes nothing `PushReaches` is about. Timelines enter by
what they gain and lose in a step (`HomeGains`, `HomeKept`). What a recall of
more than `RecallCap` followers leaves is counted when it is done: whoever keeps
the tweet without an excuse was among the followers the worker read and not in
its batch, which has `RecallCap` of them; later steps give the tweet to nobody
new. How many followers those were stays as it was noted, since a message is
done once (`NamedKept`). `FeedOwned` needs that rebuilds and backfills carry
tweets of their own user (`FInv`). `MessagesDeliver` is the refinement of
`Delivery`, step by step.

`HomePagesProofs`: `AllPagesJoin`, `PagesJoin` and `AnswersFit`. Tweets of a set
have different ranks, all below its size, so a page or a LIMIT has no more
tweets than ranks (`RanksBound`, by an injection into an interval) and `r \div
size` is the one page that has rank r (`QuotientOf`, `IntervalsApart`). So pages
of any size from two on have every tweet once; the run looks at sizes two and
three. `AnswersFit` adds that a request waiting for a rebuild it started has
room for what that is to find (`Roomy`), and that nobody starts another rebuild
of that user meanwhile.

`TweetsProofs`: `TypeCorrect`, `OwnersOnly`, `GoneIsCovered`, `StaleIsCovered`
and `ReadsAreRecent`. What anybody holds of a tweet - the cache, a load, a pool
task's copy, a request - names the owner its row has, as long as it has one
(`OwnersFit`); an id nobody handed out is known to nobody, so a new row finds no
copy of itself. With that a row that is changed or deleted has its deletion to
come (`RowTouched`), and a deletion to come stays to come until it is done,
failed or was lost (`PendingMoves`). `GoneCovered` follows, since whatever
writes a copy of a deleted tweet records it in `exposed`. `StaleCovered` is
proved under `Timely` and needs that a task which holds an older copy has a
deletion to come as well (`OutdatedCovered`); without `Timely` it is false.
`ReadsRecent`, under `Timely` too, needs both: a cached copy that is taken and
has no deletion to come says what the row says, and the row is there. The rest
follows a request from step to step (`RequestMoves`, `Continues`): the row it
finds (`RowSeen`) and the load it waits for (`LoadSeen`) are noted, for the one
request its client has (`OneRequest`).

`AccountsProofs`: `TypeCorrect`, `CountsAreCovered` and `NobodyIsMissing`
(`MissingShared` and `NamesAreWhole`). `CountsCovered` is inductive with
`DropsSeen`: what is cached while a transaction has dropped the keys and not
committed came after the DEL or escaped it. The two properties of answers rest
on one account of how a request moves (`Moves`, `Heard`) and on `Led`: a query
that was started by a request, once read, has found whoever was registered when
that came, because accounts are never removed.

Only model-checked: liveness (`QueueDrains`, `FanoutCompletes`, `RequestsEnd`,
`CallsEnd`), which is out of this prover's reach. The violated properties are
refuted by their runs and proved of nothing, but theorems bound the damage of
two of them: where `StopFinishesTasks` fails, one task is left behind
(`StrandedAreFew`), and where `RelationAsAsked` fails, the answer is the
relation with its directions swapped (`SharedAreSwapped`).

## 7. What disagrees with the documents

- `db/tweet_store.go:69` does not select the id: FetchTweet answers with id 0
  and RemoveTweet announces the deletion of tweet 0 (FanoutDeletionId).
- `cmd/api/main.go:154` cancels the worker's context before it waits for "tasks
  in progress": the task in progress fails and its entry is never read again
  (FanoutStop).
- `service/tweet_service.go:111` and `:140` answer strangers with success, where
  the tests expect an error (`service/tweet_service_test.go:362`, `:470`). It is
  `AnswerStranger` in `Tweets`; no run is needed to see it.
- `service/follow_service.go:36` leaves the transaction manager nil, so that
  Follow and UnFollow panic in the program main builds (`Panic` in `Follow`).
- `repository/follow_repository.go:112` uses one singleflight key for both
  directions of a relation but a query for one (FollowRelation).

Met while modelling, with no document that says otherwise: the SQL of
`GetTweetIDsByAuthor` does not parse (`db/tweet_store.go:160`), so a rebuild
always fails; the rebuild's key has neither the page nor the size
(`service/timeline_serive.go:108`), so an answer may be longer than was asked for
(`AnswerFits` is about the other cases); a page of one tweet is always empty
(`cache/timeline_cache.go:90`); Follow reports a failed existence query as "user
not found" (`service/follow_service.go:51`).

A case no document decides: a follower whose cache write ran before its commit
is missing from a list loaded in between until that list expires; `Follow` has
the behaviour, and `PhantomCovered` is about the other direction only.

## 8. What is not modelled

HTTP decoding and rendering, configuration, error codes, password hashing and
token generation (stateless, or libraries). Code without a caller:
`AddInfoOnly`, `IncrFollower` and `IncrFollowing` of the user cache, `Exists`
and `InvalidateSelf` of the follow cache, `pkg/pool` (main uses ants directly).
Two more have no caller and are modelled all the same: `DeleteByUserID` of the
sessions (the purge of `Session`) and `GetProfByID` of the user repository
("profile" in `Accounts`), commented out in `service/user_service.go:16`.
Several processes at once (docker-compose runs one, the consumer name is a
constant). That a hash and a name are strings, that scores have seconds only
(two tweets of one second are ordered by their ids as text), and the contents of
a timeline's answer beyond the ids are abstracted away.
