---------------------------- MODULE FanoutProofs ----------------------------
(***************************************************************************)
(* Proofs about the fan-out pipeline, for any number of tweets, users,     *)
(* requests, faults and shutdowns and any capacities.                      *)
(*                                                                         *)
(* The heart is where a message can be.  It is handed to the pool once     *)
(* (Fresh), and from then on it is in one place only: the pool, the        *)
(* stream, or with the consumer (Places).  So the worker never meets a     *)
(* message again, what it recorded about a handled message stays as it     *)
(* was, and the pipeline implements Delivery.                              *)
(***************************************************************************)
EXTENDS Fanout, SequenceTheorems, FiniteSetTheorems, TLAPS

-----------------------------------------------------------------------------
(* The stream after a write: the old entries and the new one, in order,    *)
(* without some of the oldest.                                             *)
LEMMA TrimFacts ==
  ASSUME NEW S, NEW s \in Seq(S), NEW z \in Trim(s)
  PROVE  /\ z \in Seq(S)
         /\ \E k \in 0 .. Len(s) :
              /\ Len(z) = Len(s) - k
              /\ \A i \in 1 .. Len(z) : z[i] = s[i + k]
              /\ k = 0 \/ Len(s) - k >= StreamMaxLen
<1>1. PICK k \in 0 .. Len(s) : z = SubSeq(s, k + 1, Len(s))
                              /\ (k = 0 \/ Len(s) - k >= StreamMaxLen)
  BY DEF Trim
<1>2. Len(s) \in Nat /\ k \in Nat /\ k <= Len(s)
  OBVIOUS
<1>3. Len(z) = Len(s) - k /\ z \in Seq(S) /\ \A i \in 1 .. Len(z) : z[i] = s[i + k]
  BY <1>1, <1>2
<1> QED
  BY <1>1, <1>3

LEMMA AppendFacts ==
  ASSUME NEW S, NEW s \in Seq(S), NEW m \in S
  PROVE  /\ Append(s, m) \in Seq(S) /\ Len(Append(s, m)) = Len(s) + 1
         /\ \A i \in 1 .. Len(s) : Append(s, m)[i] = s[i]
         /\ Append(s, m)[Len(s) + 1] = m
OBVIOUS

-----------------------------------------------------------------------------
(* The inductive invariant. *)

(* The messages of S about one tweet with one action. *)
Told(S, t, action) == {m \in S : m.tweet = t /\ m.action = action}

Twin(m) == [m EXCEPT !.copy = 2]

(* A request that deleted a row is the only one to have done so, and has   *)
(* not submitted its message yet.                                          *)
Withdrawing ==
  \A r \in Removers : removal[r].stage = "deleted" =>
    /\ row[removal[r].tweet] = "gone" /\ Told(submitted, removal[r].tweet, "delete") = {}
    /\ \A q \in Removers :
         removal[q].stage = "deleted" /\ removal[q].tweet = removal[r].tweet => q = r

(* A tweet is announced once and withdrawn once, and an XADD is repeated   *)
(* once: whatever is still to be submitted has not been submitted before.  *)
Fresh ==
  /\ \A t \in Tweets : row[t] = "none" => t \notin posting /\ Told(submitted, t, "create") = {}
  /\ \A t \in posting : Told(submitted, t, "create") = {}
  /\ \A t \in Tweets : row[t] # "gone" => Told(submitted, t, "delete") = {}
  /\ Withdrawing
  /\ \A m \in outbox : m.copy = 1 => Twin(m) \notin submitted

NoTwice == \A i, j \in 1 .. Len(stream) : stream[i] = stream[j] => i = j

InHand == pc \in {"read", "submit", "run"}

(* A submitted message is in one place at most, once, and the worker holds *)
(* at most one message, which it has not handled yet while it works on it. *)
Places ==
  /\ outbox \subseteq submitted /\ pel \subseteq submitted /\ handled \subseteq submitted
  /\ \A i \in 1 .. Len(stream) :
       stream[i] \in submitted /\ stream[i] \notin outbox \cup pel \cup handled
  /\ NoTwice
  /\ outbox \cap (pel \cup handled) = {}
  /\ hand \subseteq pel /\ \A m, n \in hand : m = n
  /\ pc \in {"idle", "exit"} => hand = {}
  /\ up = "down" => pc = "exit"
  /\ InHand => hand \cap handled = {}
  /\ pc = "ack" => hand \subseteq handled

(* What the worker holds past its first step is well formed, and its       *)
(* targets are the audience it read.                                       *)
Valid == pc \in {"submit", "run"} => \A m \in hand : ~Malformed(m)
Aimed == pc \in {"submit", "run"} => \A m \in hand : targets = aud[m]

(* Only a message the worker has finished with reached anybody. *)
Untouched ==
  \A m \in Msg : reached[m] # {}
    => m \in pel \cup handled /\ ~(InHand /\ m \in hand)

Deletes(t) == Told(Msg, t, "delete")

(* An announcement carries the id of its tweet. *)
Named == \A m \in submitted : m.action = "create" => m.id = m.tweet

(* Unless the deletion overtook the creation in the pool: once a tweet's   *)
(* deletion is written its creation is not to be written any more, on the  *)
(* stream no creation of the tweet follows it, and once the worker has the *)
(* deletion it has nothing left to push.                                   *)
Ordered ==
  \A t \in Tweets \ overtaken :
    /\ \A m \in Deletes(t) : InStream(m) \/ m \in pel \cup handled
         => t \notin posting /\ Creates(t) \cap outbox = {}
    /\ \A i, j \in 1 .. Len(stream) :
         i < j => ~(stream[i] \in Deletes(t) /\ stream[j] \in Creates(t))
    /\ \A m \in Deletes(t), n \in Creates(t) :
         m \in pel \cup handled => ~InStream(n) /\ ~(InHand /\ n \in hand)

TimelinesFinite == \A u \in Users : IsFiniteSet(timeline[u])

PoolBounded == IsFiniteSet(submitted) /\ Cardinality(outbox) <= PoolCap

(* Whoever may still strand a task without a fault: the worker whose       *)
(* context is cancelled while it works on an entry, or has a read of the   *)
(* stream in flight.  Each stop allows for one.                            *)
Owed == up = "stopping" /\ (grace \/ InHand)

StrandedFew ==
  /\ IsFiniteSet(pel)
  /\ Cardinality(Stranded) + (IF Owed THEN 1 ELSE 0) <= faults + stops

IInv ==
  /\ TypeOK /\ Valid /\ Fresh /\ Places /\ Aimed /\ Untouched /\ DoneMeansReached
  /\ Named /\ Ordered /\ RecallSticks /\ TimelinesFinite /\ TimelineBounded
  /\ StrandedFew /\ PoolBounded /\ LossBounded

-----------------------------------------------------------------------------
(* The types hold at the start and are kept by every step. *)
LEMMA TypeInit == Init => TypeOK
<1> SUFFICES ASSUME Init PROVE TypeOK
  OBVIOUS
<1>1. stream \in Seq(Msg) /\ removal \in [Removers -> Removal]
  BY DEF Init, Removal
<1> QED
  BY <1>1 DEF Init, TypeOK

LEMMA TimelineTypes ==
  ASSUME TypeOK, NEW t \in Tweets, NEW done, NEW half
  PROVE  /\ Pushed(t, done, half) \in [Users -> SUBSET Tweets]
         /\ Recalled(t, done) \in [Users -> SUBSET Tweets]
<1>1. ASSUME NEW u \in Users
      PROVE  timeline[u] \subseteq Tweets /\ Newest(timeline[u] \cup {t}) \subseteq Tweets
  BY DEF TypeOK, Newest
<1> QED
  BY <1>1 DEF Pushed, Recalled

LEMMA BatchFacts ==
  ASSUME NEW S, NEW b \in Batches(S)
  PROVE  b \subseteq S
BY DEF Batches

LEMMA FaultCount ==
  ASSUME TypeOK
  PROVE  /\ Fault => faults' \in Nat
         /\ Cancelled => faults' \in Nat
         /\ CommandFails => faults' \in Nat
BY DEF TypeOK, Fault, Cancelled, CommandFails

LEMMA FailTypes ==
  ASSUME TypeOK, Fail
  PROVE  /\ pc' = "idle" /\ hand' = {} /\ targets' = {}
         /\ failCount' \in Nat /\ breaker' \in BOOLEAN /\ grace' \in BOOLEAN
<1>1. failCount' \in Nat
  BY DEF TypeOK, Fail
<1>2. breaker' \in BOOLEAN
  <2>1. breaker' = (failCount + 1 >= FailLimit)
    BY Zenon DEF Fail
  <2>2. (failCount + 1 >= FailLimit) \in BOOLEAN
    OBVIOUS
  <2> QED
    BY <2>1, <2>2, Zenon
<1> QED
  BY <1>1, <1>2 DEF Fail

LEMMA TypeNext == TypeOK /\ Valid /\ [Next]_vars => TypeOK'
<1> SUFFICES ASSUME TypeOK, Valid, [Next]_vars PROVE TypeOK'
  OBVIOUS
<1> USE DEF producerVars, workerVars, history
<1>1. ASSUME NEW t \in Tweets, InsertTweet(t) PROVE TypeOK'
  BY <1>1 DEF InsertTweet, TypeOK
<1>2. ASSUME NEW t \in Tweets, SubmitCreate(t) PROVE TypeOK'
  <2>1. Task(t, t, "create") \in Msg
    BY DEF Task, Msg
  <2> QED
    BY <1>2, <2>1 DEF SubmitCreate, Submit, TypeOK
<1>3. ASSUME NEW r \in Removers, NEW t \in Tweets, FetchForRemoval(r, t) PROVE TypeOK'
  BY <1>3 DEF FetchForRemoval, Removal, TypeOK
<1>4. ASSUME NEW r \in Removers, DeleteRow(r) PROVE TypeOK'
  BY <1>4 DEF DeleteRow, Removal, FreeRemoval, TypeOK
<1>5. ASSUME NEW r \in Removers, SubmitDelete(r) PROVE TypeOK'
  <2>1. removal[r].tweet \in Tweets /\ removal[r].id \in Tweets \cup {0}
    BY <1>5 DEF SubmitDelete, TypeOK, Removal, FreeRemoval
  <2>2. Task(removal[r].tweet, removal[r].id, "delete") \in Msg
    BY <2>1 DEF Task, Msg
  <2> QED
    BY <1>5, <2>2 DEF SubmitDelete, Submit, Removal, TypeOK
<1>6. ASSUME NEW m \in Msg, Append1(m)
      PROVE  stream' \in Seq(Msg) /\ overtaken' \subseteq Tweets
  <2>1. stream' \in Seq(Msg)
    BY <1>6, AppendFacts, TrimFacts DEF Append1, TypeOK
  <2> QED
    BY <1>6, <2>1 DEF Append1, Msg, TypeOK
<1>7. ASSUME NEW m \in Msg, PoolTask(m) PROVE TypeOK'
  <2>1. CASE Enqueue(m)
    BY <1>6, <2>1 DEF Enqueue, TypeOK
  <2>2. CASE EnqueueAgain(m)
    <3>1. [m EXCEPT !.copy = 2] \in Msg
      BY DEF Msg
    <3>2. stream' \in Seq(Msg) /\ overtaken' \subseteq Tweets
      BY <1>6, <2>2 DEF EnqueueAgain
    <3> QED
      BY <2>2, <3>1, <3>2, FaultCount DEF EnqueueAgain, TypeOK
  <2>3. CASE EnqueueFail(m)
    BY <2>3, FaultCount DEF EnqueueFail, TypeOK
  <2> QED
    BY <1>7, <2>1, <2>2, <2>3 DEF PoolTask
<1>8. stream # <<>> => Head(stream) \in Msg /\ Tail(stream) \in Seq(Msg)
  BY DEF TypeOK
<1>9. CASE Dequeue
  BY <1>8, <1>9 DEF Dequeue, TypeOK
<1>10. CASE DequeueLost
  BY <1>8, <1>10, FaultCount DEF DequeueLost, TypeOK
<1>11. CASE SubmitTask \/ WorkerExit
  BY <1>11 DEF SubmitTask, WorkerExit, TypeOK
<1>12. ASSUME NEW m \in Msg, Handle(m) PROVE TypeOK'
  <2>1. CASE DropMalformed(m)
    BY <2>1 DEF DropMalformed, Succeed, TypeOK
  <2>2. CASE ReadFollowers(m)
    <3>1. /\ targets' \subseteq Users /\ aud' \in [Msg -> SUBSET Users]
          /\ pc' \in {"ack", "submit"} /\ handled' \subseteq Msg
      BY <2>2 DEF ReadFollowers, Succeed, TypeOK
    <3> QED
      BY <2>2, <3>1 DEF ReadFollowers, TypeOK
  <2>3. CASE ReadFail(m)
    BY <2>3, FaultCount, FailTypes DEF ReadFail, TypeOK
  <2>4. pc = "run" /\ m \in hand => m.id \in Tweets
    BY DEF Valid, Malformed, Msg
  <2>5. CASE RunPush(m)
    <3>1. timeline' \in [Users -> SUBSET Tweets]
      BY <2>4, <2>5, TimelineTypes DEF RunPush
    <3> QED
      BY <2>5, <3>1 DEF RunPush, Succeed, TypeOK
  <2>6. CASE RunRecall(m)
    <3>1. PICK batch \in Batches(targets) :
            /\ timeline' = Recalled(m.id, batch)
            /\ reached' = [reached EXCEPT ![m] = batch]
      BY <2>6 DEF RunRecall
    <3>2. timeline' \in [Users -> SUBSET Tweets]
      BY <2>4, <2>6, <3>1, TimelineTypes DEF RunRecall
    <3>3. batch \subseteq targets
      BY BatchFacts
    <3>4. reached' \in [Msg -> SUBSET Users]
      BY <3>1, <3>3 DEF TypeOK
    <3> QED
      BY <2>6, <3>2, <3>4 DEF RunRecall, Succeed, TypeOK
  <2>7. CASE RunFail(m)
    <3>1. /\ timeline' \in [Users -> SUBSET Tweets]
          /\ reached' \in [Msg -> SUBSET Users] /\ faults' \in Nat
      <4>1. CASE Cancelled /\ UNCHANGED <<timeline, reached>>
        BY <4>1, FaultCount DEF TypeOK
      <4>2. CASE /\ MayIssue /\ Fault
                 /\ \E done, half \in SUBSET targets :
                      /\ Cardinality(half) <= 1 /\ half \cap done = {}
                      /\ BreaksAfter(m, done, half)
        <5>1. PICK done \in SUBSET targets, half \in SUBSET targets :
                BreaksAfter(m, done, half)
          BY <4>2
        <5>2. pc = "run" /\ m \in hand
          BY <2>7 DEF RunFail
        <5>3. timeline' = Pushed(m.id, done, half) \/ timeline' = Recalled(m.id, done)
          BY <5>1 DEF BreaksAfter
        <5>4. timeline' \in [Users -> SUBSET Tweets]
          BY <2>4, <5>2, <5>3, TimelineTypes
        <5>5. reached' \in [Msg -> SUBSET Users]
          BY <5>1 DEF BreaksAfter, TypeOK
        <5> QED
          BY <4>2, <5>4, <5>5, FaultCount
      <4> QED
        BY <2>7, <4>1, <4>2 DEF RunFail
    <3> QED
      BY <2>7, <3>1, FailTypes DEF RunFail, TypeOK
  <2>8. CASE Ack(m) \/ AckFail(m)
    <3>1. faults' \in Nat
      BY <2>8, FaultCount DEF Ack, AckFail, TypeOK
    <3>2. pel' \subseteq Msg
      BY <2>8 DEF Ack, AckFail, TypeOK
    <3>3. EndTask
      BY <2>8 DEF Ack, AckFail
    <3> QED
      BY <3>1, <3>2, <3>3 DEF EndTask, TypeOK
  <2> QED
    BY <1>12, <2>1, <2>2, <2>3, <2>5, <2>6, <2>7, <2>8 DEF Handle
<1>13. CASE DequeueNothing \/ UNCHANGED vars
  BY <1>13 DEF DequeueNothing, vars, TypeOK
<1>14. CASE BreakerClose \/ Stop \/ Restart
  <2>1. CASE BreakerClose
    BY <2>1 DEF BreakerClose, TypeOK
  <2>2. CASE Stop
    BY <2>2 DEF Stop, TypeOK
  <2>3. CASE Restart
    BY <2>3 DEF Restart, TypeOK
  <2> QED
    BY <1>14, <2>1, <2>2, <2>3
<1>17. CASE Shutdown
  <2>1. stops' \in Nat
    BY <1>17 DEF Shutdown, TypeOK
  <2>2. grace' \in BOOLEAN
    BY <1>17, Zenon DEF Shutdown
  <2> QED
    BY <1>17, <2>1, <2>2 DEF Shutdown, TypeOK
<1>15. ASSUME NEW u \in Users, Expire(u) PROVE TypeOK'
  BY <1>15 DEF Expire, TypeOK
<1>16. CASE Crash
  BY <1>16, FaultCount DEF Crash, Removal, TypeOK
<1> QED
  BY <1>1, <1>2, <1>3, <1>4, <1>5, <1>7, <1>9, <1>10, <1>11, <1>12, <1>13,
     <1>14, <1>15, <1>16, <1>17 DEF Next, Request, Worker

-----------------------------------------------------------------------------
(* What a write and a read do to the entries of the stream: a write drops  *)
(* some of the oldest and leaves the rest in their order, with the new one *)
(* at the end.                                                             *)
LEMMA WriteShift ==
  ASSUME TypeOK, NEW m \in Msg, Append1(m)
  PROVE  \E k \in Nat : \A i \in 1 .. Len(stream') :
           /\ i + k \in 1 .. Len(stream) + 1
           /\ i + k = Len(stream) + 1 => stream'[i] = m
           /\ i + k # Len(stream) + 1 =>
                i + k \in 1 .. Len(stream) /\ stream'[i] = stream[i + k]
<1> DEFINE s == Append(stream, m)
<1>1. stream \in Seq(Msg) /\ stream' \in Trim(s)
  BY DEF TypeOK, Append1
<1>2. /\ s \in Seq(Msg) /\ Len(s) = Len(stream) + 1
      /\ \A i \in 1 .. Len(stream) : s[i] = stream[i]
      /\ s[Len(stream) + 1] = m
  BY <1>1, AppendFacts
<1>3. Len(stream) \in Nat
  BY <1>1
<1> HIDE DEF s
<1>4. PICK k \in 0 .. Len(s) :
        Len(stream') = Len(s) - k /\ \A i \in 1 .. Len(stream') : stream'[i] = s[i + k]
  BY <1>1, <1>2, TrimFacts
<1>5. k \in Nat /\ Len(stream') = Len(stream) + 1 - k
  BY <1>2, <1>3, <1>4
<1>6. ASSUME NEW i \in 1 .. Len(stream')
      PROVE  /\ i + k \in 1 .. Len(stream) + 1 /\ stream'[i] = s[i + k]
             /\ i + k # Len(stream) + 1 => i + k \in 1 .. Len(stream)
  <2>1. stream'[i] = s[i + k]
    BY <1>4
  <2>2. i \in Nat /\ 1 <= i /\ i <= Len(stream) + 1 - k
    BY <1>3, <1>5
  <2> QED
    BY <1>3, <1>5, <2>1, <2>2
<1> QED
  BY <1>2, <1>5, <1>6

LEMMA WriteFacts ==
  ASSUME TypeOK, NoTwice, NEW m \in Msg, ~InStream(m), Append1(m)
  PROVE  /\ NoTwice'
         /\ \A i \in 1 .. Len(stream') :
              stream'[i] = m \/ \E j \in 1 .. Len(stream) : stream'[i] = stream[j]
<1>1. PICK k \in Nat : \A i \in 1 .. Len(stream') :
        /\ i + k \in 1 .. Len(stream) + 1
        /\ i + k = Len(stream) + 1 => stream'[i] = m
        /\ i + k # Len(stream) + 1 =>
             i + k \in 1 .. Len(stream) /\ stream'[i] = stream[i + k]
  BY WriteShift
<1>2. ASSUME NEW i \in 1 .. Len(stream'), NEW j \in 1 .. Len(stream'),
             stream'[i] = stream'[j]
      PROVE  i = j
  <2>1. \A l \in 1 .. Len(stream) : stream[l] # m
    BY DEF InStream
  <2>2. i + k = j + k
    BY <1>1, <1>2, <2>1 DEF NoTwice
  <2> QED
    BY <2>2
<1> QED
  BY <1>1, <1>2 DEF NoTwice

LEMMA TailShift ==
  ASSUME TypeOK, stream # <<>>, stream' = Tail(stream)
  PROVE  /\ Head(stream) = stream[1] /\ 1 \in 1 .. Len(stream)
         /\ \A i \in 1 .. Len(stream') :
              i + 1 \in 1 .. Len(stream) /\ stream'[i] = stream[i + 1]
         /\ \A i \in 1 .. Len(stream) : i # 1 =>
              i - 1 \in 1 .. Len(stream') /\ stream'[i - 1] = stream[i]
<1>1. stream \in Seq(Msg) /\ Len(stream) \in Nat \ {0}
  BY DEF TypeOK
<1>2. /\ Head(stream) = stream[1] /\ Len(stream') = Len(stream) - 1
      /\ \A i \in 1 .. Len(stream') : stream'[i] = stream[i + 1]
  BY <1>1
<1>3. ASSUME NEW i \in 1 .. Len(stream), i # 1
      PROVE  i - 1 \in 1 .. Len(stream') /\ (i - 1) + 1 = i
  BY <1>1, <1>2, <1>3
<1> QED
  BY <1>1, <1>2, <1>3

LEMMA ReadFacts ==
  ASSUME TypeOK, NoTwice, stream # <<>>, stream' = Tail(stream)
  PROVE  /\ Head(stream) \in Msg
         /\ \E i \in 1 .. Len(stream) : Head(stream) = stream[i]
         /\ NoTwice'
         /\ \A i \in 1 .. Len(stream') :
              /\ stream'[i] # Head(stream)
              /\ \E j \in 1 .. Len(stream) : stream'[i] = stream[j]
<1>1. Head(stream) \in Msg
  BY DEF TypeOK
<1>2. ASSUME NEW i \in 1 .. Len(stream')
      PROVE  i + 1 \in 1 .. Len(stream) /\ i + 1 # 1 /\ stream'[i] = stream[i + 1]
  BY TailShift
<1>3. NoTwice'
  <2> SUFFICES ASSUME NEW i \in 1 .. Len(stream'), NEW j \in 1 .. Len(stream'),
                      stream'[i] = stream'[j]
               PROVE  i = j
    BY DEF NoTwice
  <2>1. i + 1 = j + 1
    BY <1>2 DEF NoTwice
  <2> QED
    BY <2>1
<1> QED
  BY <1>1, <1>2, <1>3, TailShift DEF NoTwice

-----------------------------------------------------------------------------
(* What is still to be submitted stays new. *)
LEMMA FreshNext == TypeOK /\ Fresh /\ Places /\ [Next]_vars => Fresh'
<1> SUFFICES ASSUME TypeOK, Fresh, Places, [Next]_vars PROVE Fresh'
  OBVIOUS
<1> USE DEF producerVars, workerVars, history
<1>1. ASSUME UNCHANGED <<producerVars, submitted>> PROVE Fresh'
  BY <1>1 DEF Fresh, Withdrawing, Told
<1>2. ASSUME NEW t \in Tweets, InsertTweet(t) PROVE Fresh'
  BY <1>2 DEF InsertTweet, Fresh, Withdrawing, Told, TypeOK
<1>3. ASSUME NEW t \in Tweets, SubmitCreate(t) PROVE Fresh'
  <2> DEFINE n == Task(t, t, "create")
  <2>1. /\ n.tweet = t /\ n.action = "create" /\ n.copy = 1 /\ n \in Msg
        /\ Twin(n).tweet = t /\ Twin(n).action = "create" /\ Twin(n).copy = 2
    BY DEF Task, Twin, Msg
  <2>2. /\ outbox' = outbox \cup {n} /\ submitted' = submitted \cup {n}
        /\ posting' = posting \ {t} /\ t \in posting
        /\ UNCHANGED <<row, removal>>
    BY <1>3 DEF SubmitCreate, Submit
  <2> HIDE DEF n
  <2>3. Twin(n) \notin submitted /\ Twin(n) # n
    BY <2>1, <2>2 DEF Fresh, Withdrawing, Told
  <2>4. \A m \in outbox' : m.copy = 1 => Twin(m) \notin submitted'
    <3> SUFFICES ASSUME NEW m \in outbox, m.copy = 1 PROVE Twin(m) # n
      BY <2>2, <2>3 DEF Fresh, Withdrawing
    <3> QED
      BY <2>1 DEF Twin, TypeOK, Msg
  <2>5. \A u \in Tweets : /\ u # t => Told(submitted', u, "create") = Told(submitted, u, "create")
                          /\ Told(submitted', u, "delete") = Told(submitted, u, "delete")
    BY <2>1, <2>2 DEF Told
  <2>6. row[t] # "none"
    BY <2>2 DEF Fresh, Withdrawing, TypeOK
  <2>7. Withdrawing'
    <3>1. \A q \in Removers : removal[q].stage = "deleted" => removal[q].tweet \in Tweets
      BY DEF TypeOK, Removal, FreeRemoval
    <3> QED
      BY <2>2, <2>5, <3>1 DEF Fresh, Withdrawing
  <2>8. /\ \A u \in Tweets : row'[u] = "none" => u \notin posting' /\ Told(submitted', u, "create") = {}
        /\ \A u \in posting' : Told(submitted', u, "create") = {}
        /\ \A u \in Tweets : row'[u] # "gone" => Told(submitted', u, "delete") = {}
    BY <2>2, <2>5, <2>6 DEF Fresh, TypeOK
  <2> QED
    BY <2>4, <2>7, <2>8 DEF Fresh
<1>4. ASSUME NEW r \in Removers, NEW t \in Tweets, FetchForRemoval(r, t) PROVE Fresh'
  BY <1>4 DEF FetchForRemoval, Fresh, Withdrawing, Told, TypeOK
<1>5. ASSUME NEW r \in Removers, DeleteRow(r) PROVE Fresh'
  <2>1. CASE row[removal[r].tweet] = "live"
    <3> DEFINE t == removal[r].tweet
    <3>1. /\ t \in Tweets /\ row' = [row EXCEPT ![t] = "gone"]
          /\ removal' = [removal EXCEPT ![r].stage = "deleted"]
          /\ UNCHANGED <<posting, outbox, submitted>>
      BY <1>5, <2>1 DEF DeleteRow, TypeOK, Removal, FreeRemoval
    <3>2. Told(submitted, t, "delete") = {} /\ \A q \in Removers : removal[q].stage = "deleted" => removal[q].tweet # t
      BY <2>1, <3>1 DEF Fresh, Withdrawing
    <3>3. \A q \in Removers : /\ q # r => removal'[q] = removal[q]
                              /\ removal'[q].tweet = removal[q].tweet
      BY <3>1 DEF TypeOK, Removal, FreeRemoval
    <3>4. \A u \in Tweets : row'[u] = IF u = t THEN "gone" ELSE row[u]
      BY <3>1 DEF TypeOK
    <3>5. \A u \in Tweets : /\ Told(submitted', u, "create") = Told(submitted, u, "create")
                            /\ Told(submitted', u, "delete") = Told(submitted, u, "delete")
      BY <3>1 DEF Told
    <3>6. Withdrawing'
      <4> SUFFICES ASSUME NEW q \in Removers, removal'[q].stage = "deleted"
                   PROVE  /\ row'[removal'[q].tweet] = "gone" /\ Told(submitted', removal'[q].tweet, "delete") = {}
                          /\ \A p \in Removers :
                               removal'[p].stage = "deleted" /\ removal'[p].tweet = removal'[q].tweet => p = q
        BY DEF Withdrawing
      <4>1. CASE q = r
        <5>1. removal'[q].tweet = t /\ row'[t] = "gone" /\ Told(submitted', t, "delete") = {}
          BY <3>1, <3>2, <3>3, <3>4, <3>5, <4>1
        <5>2. \A p \in Removers : removal'[p].stage = "deleted" /\ p # r => removal'[p].tweet # t
          BY <3>2, <3>3
        <5> HIDE DEF t
        <5> QED
          BY <4>1, <5>1, <5>2
      <4>2. CASE q # r
        <5>1. removal[q].stage = "deleted" /\ removal[q].tweet \in Tweets
          BY <3>3, <4>2 DEF TypeOK, Removal, FreeRemoval
        <5>2. removal[q].tweet # t /\ row[removal[q].tweet] = "gone"
              /\ Told(submitted, removal[q].tweet, "delete") = {}
          BY <3>2, <5>1 DEF Fresh, Withdrawing
        <5>3. removal'[q].tweet = removal[q].tweet /\ row'[removal'[q].tweet] = "gone"
              /\ Told(submitted', removal'[q].tweet, "delete") = {}
          BY <3>3, <3>4, <3>5, <5>1, <5>2
        <5>4. ASSUME NEW p \in Removers, removal'[p].stage = "deleted",
                     removal'[p].tweet = removal'[q].tweet
              PROVE  p = q
          <6>1. p # r
            BY <3>1, <3>3, <5>2, <5>3, <5>4
          <6> QED
            BY <3>3, <5>1, <5>4, <6>1 DEF Fresh, Withdrawing
        <5> QED
          BY <5>3, <5>4
      <4> QED
        BY <4>1, <4>2
    <3>7. /\ \A u \in Tweets : row'[u] = "none" => u \notin posting' /\ Told(submitted', u, "create") = {}
          /\ \A u \in Tweets : row'[u] # "gone" => Told(submitted', u, "delete") = {}
      BY <3>1, <3>4, <3>5 DEF Fresh, Withdrawing
    <3>8. \A u \in posting' : Told(submitted', u, "create") = {}
      BY <3>1, <3>5 DEF Fresh, Withdrawing, TypeOK
    <3>9. \A m \in outbox' : m.copy = 1 => Twin(m) \notin submitted'
      BY <3>1 DEF Fresh, Withdrawing
    <3> QED
      BY <3>6, <3>7, <3>8, <3>9 DEF Fresh
  <2>2. CASE row[removal[r].tweet] # "live"
    BY <1>5, <2>2 DEF DeleteRow, Fresh, Withdrawing, Told, TypeOK, Removal, FreeRemoval
  <2> QED
    BY <2>1, <2>2
<1>6. ASSUME NEW r \in Removers, SubmitDelete(r) PROVE Fresh'
  <2> DEFINE t == removal[r].tweet
             n == Task(t, removal[r].id, "delete")
  <2>1. /\ t \in Tweets /\ removal[r].id \in Tweets \cup {0}
        /\ removal[r].stage = "deleted"
    BY <1>6 DEF SubmitDelete, TypeOK, Removal, FreeRemoval
  <2>2. /\ outbox' = outbox \cup {n} /\ submitted' = submitted \cup {n}
        /\ removal' = [removal EXCEPT ![r] = FreeRemoval]
        /\ UNCHANGED <<row, posting>>
    BY <1>6 DEF SubmitDelete, Submit
  <2>3. /\ row[t] = "gone" /\ Told(submitted, t, "delete") = {}
        /\ \A q \in Removers :
             removal[q].stage = "deleted" /\ removal[q].tweet = t => q = r
    BY <2>1 DEF Fresh, Withdrawing
  <2>4. /\ n.tweet = t /\ n.action = "delete" /\ n.copy = 1 /\ n \in Msg
        /\ Twin(n).tweet = t /\ Twin(n).action = "delete" /\ Twin(n).copy = 2
    BY <2>1 DEF Task, Twin, Msg
  <2> HIDE DEF n, t
  <2>5. Twin(n) \notin submitted /\ Twin(n) # n
    BY <2>3, <2>4 DEF Told
  <2>6. \A m \in outbox' : m.copy = 1 => Twin(m) \notin submitted'
    <3> SUFFICES ASSUME NEW m \in outbox, m.copy = 1 PROVE Twin(m) # n
      BY <2>2, <2>5 DEF Fresh, Withdrawing
    <3> QED
      BY <2>4 DEF Twin, TypeOK, Msg
  <2>7. \A u \in Tweets : /\ u # t => Told(submitted', u, "delete") = Told(submitted, u, "delete")
                          /\ Told(submitted', u, "create") = Told(submitted, u, "create")
    BY <2>2, <2>4 DEF Told
  <2>8. \A q \in Removers :
          removal'[q].stage = "deleted"
            => /\ removal'[q] = removal[q] /\ removal[q].tweet \in Tweets
               /\ removal[q].tweet # t
    BY <2>2, <2>3 DEF TypeOK, Removal, FreeRemoval, t
  <2>9. /\ \A u \in Tweets : row'[u] = "none" => u \notin posting' /\ Told(submitted', u, "create") = {}
        /\ \A u \in posting' : Told(submitted', u, "create") = {}
        /\ \A u \in Tweets : row'[u] # "gone" => Told(submitted', u, "delete") = {}
    BY <2>2, <2>3, <2>7 DEF Fresh, Withdrawing, TypeOK
  <2>10. Withdrawing'
    <3> SUFFICES ASSUME NEW q \in Removers, removal'[q].stage = "deleted"
                 PROVE  /\ row'[removal'[q].tweet] = "gone"
                        /\ Told(submitted', removal'[q].tweet, "delete") = {}
                        /\ \A p \in Removers :
                             removal'[p].stage = "deleted" /\ removal'[p].tweet = removal'[q].tweet
                               => p = q
      BY DEF Withdrawing
    <3>1. removal[q].stage = "deleted"
      BY <2>8
    <3>2. /\ row[removal[q].tweet] = "gone" /\ Told(submitted, removal[q].tweet, "delete") = {}
          /\ \A p \in Removers :
               removal[p].stage = "deleted" /\ removal[p].tweet = removal[q].tweet => p = q
      BY <3>1 DEF Fresh, Withdrawing
    <3> QED
      BY <2>2, <2>7, <2>8, <3>2
  <2> QED
    BY <2>6, <2>9, <2>10 DEF Fresh
<1>7. ASSUME NEW m \in Msg, PoolTask(m) PROVE Fresh'
  <2>1. CASE Enqueue(m)
    BY <2>1 DEF Enqueue, Fresh, Withdrawing, Told
  <2>2. CASE EnqueueFail(m)
    BY <2>2 DEF EnqueueFail, Fresh, Withdrawing, Told
  <2>3. CASE EnqueueAgain(m)
    <3>1. /\ Twin(m).tweet = m.tweet /\ Twin(m).action = m.action
          /\ Twin(m).copy = 2 /\ Twin(m) \in Msg
      BY DEF Twin, Msg
    <3>2. /\ m \in submitted /\ m \in outbox
          /\ outbox' = (outbox \ {m}) \cup {Twin(m)}
          /\ submitted' = submitted \cup {Twin(m)}
          /\ UNCHANGED <<row, posting, removal>>
      BY <2>3 DEF EnqueueAgain, Places, Twin
    <3>3. \A t, a : Told(submitted, t, a) = {} => Told(submitted', t, a) = {}
      BY <3>1, <3>2 DEF Told
    <3>4. \A n \in outbox' : n.copy = 1 => Twin(n) \notin submitted'
      <4> SUFFICES ASSUME NEW n \in outbox, n.copy = 1, n # m
                   PROVE  Twin(n) # Twin(m)
        BY <3>1, <3>2 DEF Fresh, Withdrawing
      <4>1. m \in Msg /\ n \in Msg /\ m.copy = 1
        BY <2>3 DEF EnqueueAgain, TypeOK
      <4>2. /\ Twin(n).tweet = n.tweet /\ Twin(n).id = n.id
            /\ Twin(n).action = n.action
            /\ Twin(m).id = m.id
        BY <4>1 DEF Twin, Msg
      <4> QED
        BY <3>1, <4>1, <4>2 DEF Msg
    <3> QED
      BY <3>2, <3>3, <3>4 DEF Fresh, Withdrawing, TypeOK, Removal, FreeRemoval
  <2> QED
    BY <1>7, <2>1, <2>2, <2>3 DEF PoolTask
<1>8. CASE Worker
  <2>1. UNCHANGED <<producerVars, submitted>>
    BY <1>8 DEF Worker, Handle, Dequeue, DequeueLost, SubmitTask, WorkerExit,
       DropMalformed, ReadFollowers, ReadFail, RunPush, RunRecall, RunFail, Ack,
       AckFail, EndTask
  <2> QED
    BY <1>1, <2>1
<1>9. CASE DequeueNothing \/ BreakerClose \/ Shutdown \/ Stop \/ Restart \/ UNCHANGED vars
  BY <1>1, <1>9 DEF DequeueNothing, BreakerClose, Shutdown, Stop, Restart, vars
<1>10. ASSUME NEW u \in Users, Expire(u) PROVE Fresh'
  BY <1>1, <1>10 DEF Expire
<1>11. CASE Crash
  BY <1>11 DEF Crash, Fresh, Withdrawing, Told, FreeRemoval
<1> QED
  BY <1>2, <1>3, <1>4, <1>5, <1>6, <1>7, <1>8, <1>9, <1>10, <1>11 DEF Next, Request

-----------------------------------------------------------------------------
(* A message stays in one place. *)
LEMMA PlacesNext == TypeOK /\ Fresh /\ Places /\ [Next]_vars => Places'
<1> SUFFICES ASSUME TypeOK, Fresh, Places, [Next]_vars PROVE Places'
  OBVIOUS
<1> USE DEF producerVars, workerVars, history
<1>1. ASSUME UNCHANGED <<outbox, stream, pel, hand, pc, submitted, handled>>,
             up' # "down"
      PROVE  Places'
  BY <1>1 DEF Places, NoTwice, InHand
<1>2. ASSUME NEW n \in Msg, Submit(n), n \notin submitted,
             UNCHANGED <<stream, pel, hand, pc, up, handled>>
      PROVE  Places'
  BY <1>2 DEF Submit, Places, NoTwice, InHand
<1>3. ASSUME NEW t \in Tweets, InsertTweet(t) PROVE Places'
  BY <1>1, <1>3 DEF InsertTweet
<1>4. ASSUME NEW t \in Tweets, SubmitCreate(t) PROVE Places'
  <2>1. Task(t, t, "create") \in Msg /\ Task(t, t, "create") \notin submitted
    BY <1>4 DEF SubmitCreate, Task, Msg, Fresh, Told
  <2> QED
    BY <1>2, <1>4, <2>1 DEF SubmitCreate
<1>5. ASSUME NEW r \in Removers, NEW t \in Tweets, FetchForRemoval(r, t) PROVE Places'
  BY <1>1, <1>5 DEF FetchForRemoval
<1>6. ASSUME NEW r \in Removers, DeleteRow(r) PROVE Places'
  BY <1>1, <1>6 DEF DeleteRow
<1>7. ASSUME NEW r \in Removers, SubmitDelete(r) PROVE Places'
  <2> DEFINE n == Task(removal[r].tweet, removal[r].id, "delete")
  <2>1. removal[r].tweet \in Tweets /\ removal[r].id \in Tweets \cup {0}
    BY <1>7 DEF SubmitDelete, TypeOK, Removal, FreeRemoval
  <2>2. n \in Msg /\ n.tweet = removal[r].tweet /\ n.action = "delete"
    BY <2>1 DEF Task, Msg
  <2>3. Told(submitted, removal[r].tweet, "delete") = {}
    BY <1>7 DEF SubmitDelete, Fresh, Withdrawing
  <2>4. n \notin submitted
    BY <2>2, <2>3 DEF Told
  <2> QED
    BY <1>2, <1>7, <2>2, <2>4 DEF SubmitDelete
<1>8. ASSUME NEW m \in Msg, PoolTask(m) PROVE Places'
  <2>1. m \in submitted /\ m \in outbox /\ m \notin pel \cup handled /\ ~InStream(m)
    BY <1>8 DEF PoolTask, Enqueue, EnqueueAgain, EnqueueFail, Places, InStream
  <2>2. ASSUME Append1(m)
        PROVE  /\ NoTwice'
               /\ \A i \in 1 .. Len(stream') :
                    stream'[i] = m \/ \E j \in 1 .. Len(stream) : stream'[i] = stream[j]
    BY <2>1, <2>2, WriteFacts DEF Places
  <2>3. CASE Enqueue(m)
    BY <2>1, <2>2, <2>3 DEF Enqueue, Places, InHand
  <2>4. CASE EnqueueAgain(m)
    <3>1. /\ outbox' = (outbox \ {m}) \cup {Twin(m)} /\ m.copy = 1
          /\ submitted' = submitted \cup {Twin(m)}
          /\ UNCHANGED <<pel, hand, pc, handled, up>> /\ Append1(m)
      BY <2>4 DEF EnqueueAgain, Twin
    <3>2. Twin(m) \notin submitted /\ Twin(m) # m
      BY <2>1, <3>1 DEF Fresh, Twin, Msg
    <3> QED
      BY <2>1, <2>2, <3>1, <3>2 DEF Places, InHand
  <2>5. CASE EnqueueFail(m)
    BY <2>5 DEF EnqueueFail, Places, NoTwice, InHand
  <2> QED
    BY <1>8, <2>3, <2>4, <2>5 DEF PoolTask
<1>9. CASE Dequeue \/ DequeueLost
  <2>1. stream # <<>> /\ stream' = Tail(stream) /\ NoTwice
    BY <1>9 DEF Dequeue, DequeueLost, Places
  <2>2. /\ Head(stream) \in submitted
        /\ Head(stream) \notin outbox \cup pel \cup handled
        /\ NoTwice'
        /\ \A i \in 1 .. Len(stream') :
             /\ stream'[i] # Head(stream)
             /\ \E j \in 1 .. Len(stream) : stream'[i] = stream[j]
    BY <2>1, ReadFacts DEF Places
  <2>3. /\ pc = "idle" /\ hand = {} /\ pel' = pel \cup {Head(stream)}
        /\ UNCHANGED <<outbox, submitted, handled, up>>
        /\ \/ hand' = {Head(stream)} /\ pc' = "read"
           \/ UNCHANGED <<hand, pc>>
    BY <1>9 DEF Dequeue, DequeueLost, Places
  <2> QED
    BY <2>2, <2>3 DEF Places, InHand
<1>10. CASE SubmitTask \/ WorkerExit
  BY <1>10 DEF SubmitTask, WorkerExit, Places, NoTwice, InHand
<1>11. ASSUME NEW m \in Msg, Handle(m) PROVE Places'
  <2>1. m \in hand /\ pc \in {"read", "run", "ack"} /\ UNCHANGED <<outbox, stream, submitted, up>>
    BY <1>11 DEF Handle, DropMalformed, ReadFollowers, ReadFail, RunPush,
       RunRecall, RunFail, Ack, AckFail, EndTask
  <2>2. \/ /\ pc \in {"read", "run"} /\ handled' = handled \cup {m} /\ pc' = "ack"
           /\ UNCHANGED <<hand, pel>>
        \/ pc = "read" /\ pc' = "submit" /\ UNCHANGED <<hand, pel, handled>>
        \/ pc \in {"read", "run"} /\ hand' = {} /\ pc' = "idle" /\ UNCHANGED <<pel, handled>>
        \/ pc = "ack" /\ hand' = {} /\ pc' = "idle" /\ pel' \subseteq pel /\ UNCHANGED handled
    BY <1>11 DEF Handle, DropMalformed, ReadFollowers, ReadFail, RunPush,
       RunRecall, RunFail, Ack, AckFail, EndTask, Succeed, Fail
  <2> QED
    BY <2>1, <2>2 DEF Places, NoTwice, InHand
<1>12. CASE DequeueNothing \/ UNCHANGED vars
  BY <1>12 DEF DequeueNothing, vars, Places, NoTwice, InHand
<1>13. CASE BreakerClose \/ Shutdown
  BY <1>1, <1>13 DEF BreakerClose, Shutdown
<1>14. ASSUME NEW u \in Users, Expire(u) PROVE Places'
  BY <1>14 DEF Expire, Places, NoTwice, InHand
<1>15. CASE Stop \/ Restart
  BY <1>15 DEF Stop, Restart, Places, NoTwice, InHand
<1>16. CASE Crash
  BY <1>16 DEF Crash, Places, NoTwice, InHand
<1> QED
  BY <1>3, <1>4, <1>5, <1>6, <1>7, <1>8, <1>9, <1>10, <1>11, <1>12, <1>13,
     <1>14, <1>15, <1>16 DEF Next, Request, Worker

-----------------------------------------------------------------------------
(* What the worker holds and what it recorded about handled messages.      *)
WorkInv == Valid /\ Aimed /\ Untouched /\ DoneMeansReached

LEMMA EmptyBatch == Batches({}) = {{}}
BY FS_EmptySet, CapsAssumption DEF Batches

LEMMA WorkNext == TypeOK /\ Places /\ WorkInv /\ [Next]_vars => WorkInv'
<1> SUFFICES ASSUME TypeOK, Places, WorkInv, [Next]_vars PROVE WorkInv'
  OBVIOUS
<1> USE DEF producerVars, workerVars, history
<1>1. ASSUME UNCHANGED <<pel, hand, targets, pc, handled, aud, reached>>
      PROVE  WorkInv'
  BY <1>1 DEF WorkInv, Valid, Aimed, Untouched, DoneMeansReached, InHand
<1>2. CASE Request
  BY <1>1, <1>2 DEF Request, InsertTweet, SubmitCreate, FetchForRemoval, DeleteRow,
     SubmitDelete
<1>3. ASSUME NEW m \in Msg, PoolTask(m) PROVE WorkInv'
  BY <1>1, <1>3 DEF PoolTask, Enqueue, EnqueueAgain, EnqueueFail
<1>4. CASE DequeueNothing \/ BreakerClose \/ Shutdown \/ Stop \/ UNCHANGED vars
  BY <1>1, <1>4 DEF DequeueNothing, BreakerClose, Shutdown, Stop, vars
<1>5. ASSUME NEW u \in Users, Expire(u) PROVE WorkInv'
  BY <1>1, <1>5 DEF Expire
<1>6. ASSUME pc' \notin {"read", "submit", "run"},
             pel \cup handled \subseteq pel' \cup handled',
             UNCHANGED <<handled, aud, reached>>
      PROVE  WorkInv'
  BY <1>6 DEF WorkInv, Valid, Aimed, Untouched, DoneMeansReached, InHand
<1>7. CASE WorkerExit \/ Crash \/ Restart
  BY <1>6, <1>7 DEF WorkerExit, Crash, Restart
<1>8. CASE DequeueLost
  <2>1. hand = {} /\ pc = "idle" /\ pc' = "idle"
    BY <1>8 DEF DequeueLost, Places
  <2> QED
    BY <1>6, <1>8, <2>1 DEF DequeueLost
<1>9. CASE Dequeue
  <2>1. /\ Head(stream) \in Msg /\ Head(stream) \notin pel \cup handled
        /\ hand' = {Head(stream)} /\ pc' = "read" /\ pel' = pel \cup {Head(stream)}
        /\ UNCHANGED <<handled, aud, reached>>
    <3>1. stream # <<>> /\ stream' = Tail(stream) /\ NoTwice
      BY <1>9 DEF Dequeue, Places
    <3> QED
      BY <1>9, <3>1, ReadFacts DEF Dequeue, Places
  <2> QED
    BY <2>1 DEF WorkInv, Valid, Aimed, Untouched, DoneMeansReached, InHand
<1>10. CASE SubmitTask
  BY <1>10 DEF SubmitTask, WorkInv, Valid, Aimed, Untouched, DoneMeansReached, InHand
<1>11. ASSUME NEW m \in Msg, Handle(m) PROVE WorkInv'
  <2>1. m \in hand /\ \A n \in hand : n = m
    BY <1>11 DEF Handle, DropMalformed, ReadFollowers, ReadFail, RunPush,
       RunRecall, RunFail, Ack, AckFail, Places
  <2>2. InHand => m \in pel /\ m \notin handled /\ reached[m] = {}
    BY <2>1 DEF Places, WorkInv, Untouched
  <2>3. CASE DropMalformed(m)
    BY <2>1, <2>2, <2>3 DEF DropMalformed, Succeed, WorkInv, Valid, Aimed, Untouched,
       DoneMeansReached, InHand
  <2>4. CASE ReadFollowers(m)
    <3>1. PICK found \in SUBSET Users :
            /\ targets' = found /\ aud' = [aud EXCEPT ![m] = found]
            /\ \/ found = {} /\ pc' = "ack" /\ handled' = handled \cup {m}
               \/ pc' = "submit" /\ UNCHANGED handled
      BY <2>4 DEF ReadFollowers, Succeed
    <3>2. /\ pc = "read" /\ ~Malformed(m) /\ UNCHANGED <<pel, hand, reached>>
      BY <2>4 DEF ReadFollowers
    <3>3. aud'[m] = found /\ \A n \in Msg : n # m => aud'[n] = aud[n]
      BY <3>1 DEF TypeOK
    <3>4. reached[m] = {} /\ m \notin handled /\ m \in pel
      BY <2>2, <3>2 DEF InHand
    <3>5. Valid' /\ Aimed'
      BY <2>1, <3>1, <3>2, <3>3 DEF Valid, Aimed
    <3>6. Untouched'
      BY <3>1, <3>2, <3>4, <2>1 DEF WorkInv, Untouched, InHand
    <3>7. DoneMeansReached'
      <4> SUFFICES ASSUME NEW n \in handled', ~Malformed(n)
                   PROVE  IF n.action = "create" THEN reached'[n] = aud'[n]
                                                 ELSE reached'[n] \in Batches(aud'[n])
        BY DEF DoneMeansReached
      <4>1. CASE n = m
        BY <3>1, <3>2, <3>3, <3>4, <4>1, EmptyBatch
      <4>2. CASE n # m
        BY <3>1, <3>2, <3>3, <4>2 DEF WorkInv, DoneMeansReached, TypeOK
      <4> QED
        BY <4>1, <4>2
    <3> QED
      BY <3>5, <3>6, <3>7 DEF WorkInv
  <2>5. CASE ReadFail(m)
    BY <1>6, <2>5 DEF ReadFail, Fail
  <2>6. CASE RunPush(m) \/ RunRecall(m)
    <3>1. /\ pc = "run" /\ pc' = "ack" /\ handled' = handled \cup {m}
          /\ UNCHANGED <<pel, hand, targets, aud>>
      BY <2>6 DEF RunPush, RunRecall, Succeed
    <3>2. targets = aud[m] /\ m \notin handled /\ m \in pel
      BY <2>1, <2>2, <3>1 DEF WorkInv, Aimed, InHand
    <3>3. /\ IF m.action = "create" THEN reached'[m] = aud[m]
                                    ELSE reached'[m] \in Batches(aud[m])
          /\ \A n \in Msg : n # m => reached'[n] = reached[n]
      BY <2>6, <3>2 DEF RunPush, RunRecall, TypeOK
    <3> QED
      BY <3>1, <3>2, <3>3 DEF WorkInv, Valid, Aimed, Untouched, DoneMeansReached,
         InHand, TypeOK
  <2>7. CASE RunFail(m)
    <3>1. /\ pc = "run" /\ pc' = "idle" /\ hand' = {}
          /\ UNCHANGED <<pel, handled, aud>>
      BY <2>7 DEF RunFail, Fail
    <3>2. m \in pel /\ m \notin handled
      BY <2>2, <3>1 DEF InHand
    <3>3. \A n \in Msg : n # m => reached'[n] = reached[n]
      <4>1. reached' = reached \/ \E s : reached' = [reached EXCEPT ![m] = s]
        BY <2>7 DEF RunFail, BreaksAfter
      <4> QED
        BY <4>1 DEF TypeOK
    <3> QED
      BY <3>1, <3>2, <3>3 DEF WorkInv, Valid, Aimed, Untouched, DoneMeansReached,
         InHand, TypeOK
  <2>8. CASE Ack(m) \/ AckFail(m)
    <3>1. /\ pc = "ack" /\ pc' = "idle" /\ pel \ {m} \subseteq pel'
          /\ UNCHANGED <<handled, aud, reached>>
      BY <2>8 DEF Ack, AckFail, EndTask
    <3>2. m \in handled
      BY <2>1, <3>1 DEF Places
    <3> QED
      BY <1>6, <3>1, <3>2
  <2> QED
    BY <1>11, <2>3, <2>4, <2>5, <2>6, <2>7, <2>8 DEF Handle
<1> QED
  BY <1>2, <1>3, <1>4, <1>5, <1>7, <1>8, <1>9, <1>10, <1>11 DEF Next, Worker

-----------------------------------------------------------------------------
(* A deletion comes after the creation. *)
LEMMA NamedNext == Named /\ [Next]_vars /\ TypeOK /\ Places => Named'
<1> SUFFICES ASSUME Named, [Next]_vars, TypeOK, Places PROVE Named'
  OBVIOUS
<1> USE DEF producerVars, workerVars, history
<1>1. ASSUME UNCHANGED submitted PROVE Named'
  BY <1>1 DEF Named
<1>2. ASSUME NEW t \in Tweets, SubmitCreate(t) PROVE Named'
  BY <1>2 DEF SubmitCreate, Submit, Task, Named
<1>3. ASSUME NEW r \in Removers, SubmitDelete(r) PROVE Named'
  BY <1>3 DEF SubmitDelete, Submit, Task, Named
<1>4. ASSUME NEW m \in Msg, EnqueueAgain(m) PROVE Named'
  <2>1. /\ submitted' = submitted \cup {Twin(m)} /\ m \in submitted
        /\ Twin(m).action = m.action /\ Twin(m).id = m.id /\ Twin(m).tweet = m.tweet
    BY <1>4 DEF EnqueueAgain, Twin, Places, Msg
  <2> QED
    BY <2>1 DEF Named
<1>5. CASE Worker
  BY <1>1, <1>5 DEF Worker, Handle, Dequeue, DequeueLost, SubmitTask, WorkerExit,
     DropMalformed, ReadFollowers, ReadFail, RunPush, RunRecall, RunFail, Ack,
     AckFail, EndTask
<1>6. ASSUME NEW t \in Tweets, NEW r \in Removers,
             FetchForRemoval(r, t) \/ DeleteRow(r)
      PROVE  Named'
  BY <1>1, <1>6 DEF FetchForRemoval, DeleteRow
<1>7. ASSUME NEW r \in Removers, DeleteRow(r) PROVE Named'
  BY <1>1, <1>7 DEF DeleteRow
<1>8. ASSUME NEW t \in Tweets, InsertTweet(t) PROVE Named'
  BY <1>1, <1>8 DEF InsertTweet
<1>9. ASSUME NEW m \in Msg, Enqueue(m) \/ EnqueueFail(m) PROVE Named'
  BY <1>1, <1>9 DEF Enqueue, EnqueueFail
<1>10. ASSUME NEW u \in Users, Expire(u) PROVE Named'
  BY <1>1, <1>10 DEF Expire
<1>11. CASE \/ DequeueNothing \/ BreakerClose \/ Shutdown \/ Stop \/ Crash
            \/ Restart \/ UNCHANGED vars
  BY <1>1, <1>11 DEF DequeueNothing, BreakerClose, Shutdown, Stop, Crash, Restart, vars
<1> QED
  BY <1>2, <1>3, <1>4, <1>5, <1>6, <1>7, <1>8, <1>9, <1>10, <1>11
     DEF Next, Request, PoolTask

LEMMA OrderedNext == TypeOK /\ Fresh /\ Places /\ Ordered /\ [Next]_vars => Ordered'
<1> SUFFICES ASSUME TypeOK, Fresh, Places, Ordered, [Next]_vars PROVE Ordered'
  OBVIOUS
<1> USE DEF producerVars, workerVars, history
<1>1. ASSUME UNCHANGED <<stream, overtaken>>, pel' \cup handled' \subseteq pel \cup handled,
             \A m \in hand' : InHand' => InHand /\ m \in hand,
             \A t \in Tweets \ overtaken :
               \/ \A m \in Deletes(t) : m \notin submitted
               \/ /\ t \in posting' => t \in posting
                  /\ \A n \in Creates(t) :
                       n \in outbox' => n \in outbox \/ t \in posting
      PROVE  Ordered'
  <2> SUFFICES ASSUME NEW t \in Tweets \ overtaken
               PROVE  /\ \A m \in Deletes(t) : InStream(m)' \/ m \in pel' \cup handled'
                           => t \notin posting' /\ Creates(t) \cap outbox' = {}
                      /\ \A i, j \in 1 .. Len(stream) : i < j =>
                           ~(stream[i] \in Deletes(t) /\ stream[j] \in Creates(t))
                      /\ \A m \in Deletes(t), n \in Creates(t) :
                           m \in pel' \cup handled' =>
                             ~InStream(n)' /\ ~(InHand' /\ n \in hand')
    BY <1>1 DEF Ordered
  <2>1. \A m \in Msg : InStream(m)' <=> InStream(m)
    BY <1>1 DEF InStream
  <2>2. \A m \in Deletes(t) : m \in Msg
    BY DEF Deletes, Told
  <2>3. \A m \in Deletes(t) : InStream(m) \/ m \in pel \cup handled => m \in submitted
    BY DEF Places, InStream
  <2>4. \A n \in Creates(t) : n \in Msg
    BY DEF Creates
  <2> QED
    BY <1>1, <2>1, <2>2, <2>3, <2>4 DEF Ordered
<1>2. ASSUME NEW t \in Tweets, InsertTweet(t) PROVE Ordered'
  <2>1. \A m \in Deletes(t) : m \notin submitted
    BY <1>2 DEF InsertTweet, Fresh, Deletes, Told
  <2> QED
    BY <1>1, <1>2, <2>1 DEF InsertTweet, InHand
<1>3. ASSUME NEW t \in Tweets, SubmitCreate(t) PROVE Ordered'
  <2>1. /\ outbox' = outbox \cup {Task(t, t, "create")} /\ posting' = posting \ {t}
        /\ t \in posting /\ UNCHANGED <<stream, overtaken, pel, handled, hand, pc>>
    BY <1>3 DEF SubmitCreate, Submit
  <2>2. Task(t, t, "create").tweet = t
    BY DEF Task
  <2> QED
    BY <1>1, <2>1, <2>2 DEF InHand, Creates
<1>4. ASSUME NEW r \in Removers, SubmitDelete(r) PROVE Ordered'
  <2>1. /\ outbox' = outbox \cup {Task(removal[r].tweet, removal[r].id, "delete")}
        /\ UNCHANGED <<posting, stream, overtaken, pel, handled, hand, pc>>
    BY <1>4 DEF SubmitDelete, Submit
  <2>2. Task(removal[r].tweet, removal[r].id, "delete").action = "delete"
    BY DEF Task
  <2> QED
    BY <1>1, <2>1, <2>2 DEF InHand, Creates
<1>5. ASSUME NEW r \in Removers, NEW t \in Tweets, FetchForRemoval(r, t) PROVE Ordered'
  BY <1>1, <1>5 DEF FetchForRemoval, InHand
<1>6. ASSUME NEW r \in Removers, DeleteRow(r) PROVE Ordered'
  BY <1>1, <1>6 DEF DeleteRow, InHand
<1>7. ASSUME NEW m \in Msg, Enqueue(m) \/ EnqueueAgain(m) PROVE Ordered'
  <2>1. /\ m \in outbox /\ Append1(m) /\ UNCHANGED <<posting, pel, handled, hand, pc>>
        /\ outbox' \subseteq outbox \cup {Twin(m)}
    BY <1>7 DEF Enqueue, EnqueueAgain, Twin
  <2>2. /\ Twin(m).tweet = m.tweet /\ Twin(m).action = m.action
    BY DEF Twin, Msg
  <2>3. PICK k \in Nat : \A i \in 1 .. Len(stream') :
          /\ i + k \in 1 .. Len(stream) + 1
          /\ i + k = Len(stream) + 1 => stream'[i] = m
          /\ i + k # Len(stream) + 1 =>
               i + k \in 1 .. Len(stream) /\ stream'[i] = stream[i + k]
    BY <2>1, WriteShift
  <2>4. \A n \in Msg : InStream(n)' => InStream(n) \/ n = m
    BY <2>3 DEF InStream
  <2> SUFFICES ASSUME NEW t \in Tweets \ overtaken'
               PROVE  /\ \A n \in Deletes(t) : InStream(n)' \/ n \in pel' \cup handled'
                           => t \notin posting' /\ Creates(t) \cap outbox' = {}
                      /\ \A i, j \in 1 .. Len(stream') : i < j =>
                           ~(stream'[i] \in Deletes(t) /\ stream'[j] \in Creates(t))
                      /\ \A n \in Deletes(t), c \in Creates(t) :
                           n \in pel' \cup handled' =>
                             ~InStream(c)' /\ ~(InHand' /\ c \in hand')
    BY DEF Ordered
  <2>5. /\ t \in Tweets \ overtaken
        /\ m \in Deletes(t) => t \notin posting /\ Creates(t) \cap outbox = {}
    BY <2>1 DEF Append1, Deletes, Told
  <2>6. /\ Creates(t) \subseteq Msg /\ Deletes(t) \subseteq Msg
        /\ Twin(m) \in Creates(t) => m \in Creates(t) /\ m \notin Deletes(t)
    BY <2>2 DEF Creates, Deletes, Told
  <2>7. \A n \in Deletes(t) : InStream(n) \/ n \in pel \cup handled
          => t \notin posting /\ Creates(t) \cap outbox = {}
    BY <2>5 DEF Ordered
  <2>8. ASSUME NEW n \in Deletes(t), InStream(n)' \/ n \in pel' \cup handled'
        PROVE  t \notin posting' /\ Creates(t) \cap outbox' = {}
    <3>1. t \notin posting /\ Creates(t) \cap outbox = {}
      BY <2>1, <2>4, <2>5, <2>6, <2>7, <2>8
    <3> QED
      BY <2>1, <2>6, <3>1
  <2>9. ASSUME NEW i \in 1 .. Len(stream'), NEW j \in 1 .. Len(stream'), i < j,
               stream'[i] \in Deletes(t), stream'[j] \in Creates(t)
        PROVE  FALSE
    <3>1. Len(stream) \in Nat
      BY DEF TypeOK
    <3>2. i + k < j + k /\ i + k # Len(stream) + 1
      BY <2>3, <2>9, <3>1
    <3>3. i + k \in 1 .. Len(stream) /\ stream'[i] = stream[i + k]
      BY <2>3, <3>2
    <3>4. CASE j + k = Len(stream) + 1
      <4>1. m \in Creates(t) /\ InStream(stream'[i])
        BY <2>3, <2>9, <3>3, <3>4 DEF InStream
      <4> QED
        BY <2>1, <2>7, <2>9, <4>1
    <3>5. CASE j + k # Len(stream) + 1
      <4>1. j + k \in 1 .. Len(stream) /\ stream'[j] = stream[j + k]
        BY <2>3, <3>5
      <4> QED
        BY <2>5, <2>9, <3>2, <3>3, <4>1 DEF Ordered
    <3> QED
      BY <3>4, <3>5
  <2>10. ASSUME NEW n \in Deletes(t), NEW c \in Creates(t), n \in pel' \cup handled'
         PROVE  ~InStream(c)' /\ ~(InHand' /\ c \in hand')
    <3>1. n \in pel \cup handled /\ (InHand' <=> InHand) /\ hand' = hand
      BY <2>1, <2>10 DEF InHand
    <3>2. c # m
      BY <2>1, <2>7, <3>1
    <3> QED
      BY <2>4, <2>5, <2>6, <3>1, <3>2 DEF Ordered
  <2> QED
    BY <2>8, <2>9, <2>10
<1>8. ASSUME NEW m \in Msg, EnqueueFail(m) PROVE Ordered'
  BY <1>1, <1>8 DEF EnqueueFail, InHand
<1>9. CASE Dequeue \/ DequeueLost
  <2> DEFINE h == Head(stream)
  <2>1. /\ stream # <<>> /\ stream' = Tail(stream) /\ pel' = pel \cup {h}
        /\ UNCHANGED <<posting, outbox, handled, overtaken>>
        /\ pc = "idle" /\ hand = {}
        /\ \A c \in hand' : c = h
    BY <1>9 DEF Dequeue, DequeueLost, Places
  <2>2. /\ h = stream[1] /\ 1 \in 1 .. Len(stream)
        /\ \A i \in 1 .. Len(stream') :
             i + 1 \in 1 .. Len(stream) /\ stream'[i] = stream[i + 1]
    BY <2>1, TailShift
  <2> HIDE DEF h
  <2>3. InStream(h) /\ \A n : InStream(n)' => InStream(n)
    BY <2>2 DEF InStream
  <2> SUFFICES ASSUME NEW t \in Tweets \ overtaken
               PROVE  /\ \A n \in Deletes(t) : InStream(n)' \/ n \in pel' \cup handled'
                           => t \notin posting' /\ Creates(t) \cap outbox' = {}
                      /\ \A i, j \in 1 .. Len(stream') : i < j =>
                           ~(stream'[i] \in Deletes(t) /\ stream'[j] \in Creates(t))
                      /\ \A n \in Deletes(t), c \in Creates(t) :
                           n \in pel' \cup handled' =>
                             ~InStream(c)' /\ ~(InHand' /\ c \in hand')
    BY <2>1 DEF Ordered
  <2>4. \A n \in Deletes(t) : InStream(n)' \/ n \in pel' \cup handled'
          => t \notin posting' /\ Creates(t) \cap outbox' = {}
    BY <2>1, <2>3 DEF Ordered
  <2>5. ASSUME NEW i \in 1 .. Len(stream'), NEW j \in 1 .. Len(stream'), i < j
        PROVE  ~(stream'[i] \in Deletes(t) /\ stream'[j] \in Creates(t))
    <3>1. i + 1 < j + 1
      BY <2>5
    <3> QED
      BY <2>2, <3>1 DEF Ordered
  <2>6. ASSUME NEW n \in Deletes(t), NEW c \in Creates(t), n \in pel' \cup handled'
        PROVE  ~InStream(c)' /\ c # h
    <3>1. n # c
      BY DEF Deletes, Creates, Told
    <3>2. CASE n \in pel \cup handled
      BY <2>3, <3>2 DEF Ordered
    <3>3. CASE n = h
      <4>1. \A i \in 1 .. Len(stream') : 1 < i + 1
        OBVIOUS
      <4>2. ~InStream(c)'
        BY <2>2, <3>3, <4>1 DEF Ordered, InStream
      <4> QED
        BY <3>1, <3>3, <4>2
    <3> QED
      BY <2>1, <2>6, <3>2, <3>3
  <2> QED
    BY <2>1, <2>4, <2>5, <2>6
<1>10. CASE SubmitTask \/ WorkerExit
  BY <1>1, <1>10 DEF SubmitTask, WorkerExit, InHand
<1>11. ASSUME NEW m \in Msg, Handle(m) PROVE Ordered'
  <2>1. m \in hand /\ UNCHANGED <<outbox, posting, stream, overtaken>>
    BY <1>11 DEF Handle, DropMalformed, ReadFollowers, ReadFail, RunPush,
       RunRecall, RunFail, Ack, AckFail, EndTask
  <2>2. \/ handled' = handled \cup {m} /\ pc' = "ack" /\ UNCHANGED <<hand, pel>>
        \/ pc = "read" /\ pc' = "submit" /\ UNCHANGED <<hand, pel, handled>>
        \/ hand' = {} /\ pc' = "idle" /\ pel' \subseteq pel /\ UNCHANGED handled
    BY <1>11 DEF Handle, DropMalformed, ReadFollowers, ReadFail, RunPush,
       RunRecall, RunFail, Ack, AckFail, EndTask, Succeed, Fail
  <2>3. m \in pel
    BY <2>1 DEF Places
  <2> QED
    BY <1>1, <2>1, <2>2, <2>3 DEF InHand
<1>12. CASE \/ DequeueNothing \/ BreakerClose \/ Shutdown \/ Stop \/ Crash
            \/ Restart \/ UNCHANGED vars
  BY <1>1, <1>12 DEF DequeueNothing, BreakerClose, Shutdown, Stop, Crash, Restart,
     vars, InHand
<1>13. ASSUME NEW u \in Users, Expire(u) PROVE Ordered'
  BY <1>1, <1>13 DEF Expire, InHand
<1> QED
  BY <1>2, <1>3, <1>4, <1>5, <1>6, <1>7, <1>8, <1>9, <1>10, <1>11, <1>12, <1>13
     DEF Next, Request, Worker, PoolTask

-----------------------------------------------------------------------------
(* What a run of the pool task does to a timeline. *)
LEMMA PushFacts ==
  ASSUME NEW t, NEW done, NEW half, NEW u \in Users, timeline' = Pushed(t, done, half)
  PROVE  timeline'[u] \subseteq timeline[u] \cup {t}
BY DEF Pushed, Newest

LEMMA RecallFacts ==
  ASSUME NEW t, NEW done, NEW u \in Users, timeline' = Recalled(t, done)
  PROVE  timeline'[u] \subseteq timeline[u] /\ (u \in done => t \notin timeline'[u])
BY DEF Recalled

LEMMA Breaking ==
  ASSUME NEW m \in Msg, RunFail(m)
  PROVE  \/ UNCHANGED <<timeline, reached>> /\ (faults' = faults \/ faults' = faults + 1)
         \/ /\ faults' = faults + 1
            /\ \E done, half \in SUBSET targets : BreaksAfter(m, done, half)
BY DEF RunFail, Cancelled, Fault

(* Only the pool task that runs adds to a timeline or to what a message    *)
(* reached.                                                                *)
LEMMA Still ==
  ASSUME [Next]_vars, \A m \in Msg : ~(RunPush(m) \/ RunRecall(m) \/ RunFail(m))
  PROVE  reached' = reached /\ (timeline' = timeline \/ \E u \in Users : Expire(u))
<1> USE DEF producerVars, workerVars, history
<1>1. CASE Request
  BY <1>1 DEF Request, InsertTweet, SubmitCreate, FetchForRemoval, DeleteRow, SubmitDelete
<1>2. ASSUME NEW m \in Msg, PoolTask(m) PROVE UNCHANGED <<timeline, reached>>
  BY <1>2 DEF PoolTask, Enqueue, EnqueueAgain, EnqueueFail
<1>3. CASE Worker
  BY <1>3 DEF Worker, Handle, Dequeue, DequeueLost, SubmitTask, WorkerExit,
     DropMalformed, ReadFollowers, ReadFail, Ack, AckFail, EndTask
<1>4. ASSUME NEW u \in Users, Expire(u) PROVE UNCHANGED reached
  BY <1>4 DEF Expire
<1>5. CASE \/ DequeueNothing \/ BreakerClose \/ Shutdown \/ Stop \/ Crash
           \/ Restart \/ UNCHANGED vars
  BY <1>5 DEF DequeueNothing, BreakerClose, Shutdown, Stop, Crash, Restart, vars
<1> QED
  BY <1>1, <1>2, <1>3, <1>4, <1>5 DEF Next

LEMMA RecallNext ==
  /\ TypeOK /\ Places /\ Named /\ Ordered /\ Untouched /\ RecallSticks /\ [Next]_vars
  => RecallSticks'
<1> SUFFICES ASSUME TypeOK, Places, Named, Ordered, Untouched, RecallSticks, [Next]_vars,
                    NEW n \in Msg, n.action = "delete", n.id = n.tweet,
                    n.tweet \notin overtaken', NEW u \in reached'[n]
             PROVE  n.tweet \notin timeline'[u]
  BY DEF RecallSticks
<1>1. /\ n.tweet \in Tweets \ overtaken /\ n \in Deletes(n.tweet)
      /\ u \in reached[n] => u \in Users /\ n.tweet \notin timeline[u]
      /\ u \in reached[n] => n \in pel \cup handled
  <2>1. overtaken \subseteq overtaken'
    BY DEF Next, Request, Worker, PoolTask, Handle, InsertTweet, SubmitCreate,
       FetchForRemoval, DeleteRow, SubmitDelete, Enqueue, EnqueueAgain, EnqueueFail,
       Append1, Dequeue, DequeueLost, SubmitTask, WorkerExit, DropMalformed,
       ReadFollowers, ReadFail, RunPush, RunRecall, RunFail, Ack, AckFail, EndTask,
       DequeueNothing, BreakerClose, Expire, Shutdown, Stop, Crash, Restart,
       vars, history
  <2>2. n.tweet \in Tweets
    BY DEF Msg
  <2> QED
    BY <2>1, <2>2 DEF RecallSticks, Untouched, TypeOK, Deletes, Told
<1>2. CASE \A m \in Msg : ~(RunPush(m) \/ RunRecall(m) \/ RunFail(m))
  <2>1. reached' = reached /\ timeline'[u] \subseteq timeline[u]
    BY <1>1, <1>2, Still DEF Expire, TypeOK
  <2> QED
    BY <1>1, <2>1
<1>3. ASSUME NEW m \in Msg, RunPush(m) \/ RunRecall(m) \/ RunFail(m)
      PROVE  n.tweet \notin timeline'[u]
  <2>1. pc = "run" /\ m \in hand /\ m \in submitted
    BY <1>3 DEF RunPush, RunRecall, RunFail, Places
  <2>2. ASSUME m.action = "create", UNCHANGED timeline
               \/ \E done, half : timeline' = Pushed(m.id, done, half),
               \E S : reached' = [reached EXCEPT ![m] = S]
        PROVE  n.tweet \notin timeline'[u]
    <3>1. m # n /\ u \in reached[n]
      BY <2>2 DEF TypeOK
    <3>2. m.tweet # n.tweet
      BY <1>1, <2>1, <2>2, <3>1 DEF Ordered, Creates, InHand
    <3>3. m.id = m.tweet
      BY <2>1, <2>2 DEF Named
    <3>4. timeline'[u] \subseteq timeline[u] \cup {m.id}
      <4>1. CASE UNCHANGED timeline
        BY <4>1
      <4>2. ASSUME NEW done, NEW half, timeline' = Pushed(m.id, done, half)
            PROVE  timeline'[u] \subseteq timeline[u] \cup {m.id}
        BY <1>1, <3>1, <4>2, PushFacts
      <4> QED
        BY <2>2, <4>1, <4>2
    <3> QED
      BY <1>1, <3>1, <3>2, <3>3, <3>4
  <2>3. ASSUME NEW done \in SUBSET Users, timeline' = Recalled(m.id, done),
               reached' = [reached EXCEPT ![m] = done]
        PROVE  n.tweet \notin timeline'[u]
    <3>1. CASE m = n
      BY <2>3, <3>1, RecallFacts DEF TypeOK
    <3>2. CASE m # n
      BY <1>1, <2>3, <3>2, RecallFacts DEF TypeOK
    <3> QED
      BY <3>1, <3>2
  <2>4. targets \subseteq Users
    BY DEF TypeOK
  <2>5. CASE RunPush(m)
    BY <2>2, <2>5 DEF RunPush
  <2>6. CASE RunRecall(m)
    BY <2>3, <2>4, <2>6, BatchFacts DEF RunRecall
  <2>7. CASE RunFail(m)
    <3>1. CASE UNCHANGED <<timeline, reached>>
      BY <1>1, <3>1
    <3>2. ASSUME NEW done \in SUBSET targets, NEW half \in SUBSET targets,
                 BreaksAfter(m, done, half)
          PROVE  n.tweet \notin timeline'[u]
      BY <2>2, <2>3, <2>4, <3>2 DEF BreaksAfter
    <3> QED
      BY <2>7, <3>1, <3>2, Breaking
  <2> QED
    BY <1>3, <2>5, <2>6, <2>7
<1> QED
  BY <1>2, <1>3

-----------------------------------------------------------------------------
(* The trim leaves at most TimelineCap tweets: no two of those it keeps    *)
(* have the same number of newer ones, which is below TimelineCap.         *)
LEMMA NewestFew ==
  ASSUME NEW S \in SUBSET Tweets, IsFiniteSet(S)
  PROVE  IsFiniteSet(Newest(S)) /\ Cardinality(Newest(S)) <= TimelineCap
<1> DEFINE N(t) == {s \in S : s > t}
           f == [t \in Newest(S) |-> Cardinality(N(t))]
           I == 0 .. TimelineCap - 1
<1>1. S \subseteq Nat /\ TimelineCap \in Nat
  BY TweetsAssumption, CapsAssumption
<1>2. \A t \in S : IsFiniteSet(N(t)) /\ Cardinality(N(t)) \in Nat
  BY FS_Subset, FS_CardinalityType
<1>3. ASSUME NEW t \in S, NEW s \in S, t < s PROVE Cardinality(N(s)) # Cardinality(N(t))
  <2>1. t \in Nat /\ s \in Nat /\ \A q \in S : q \in Nat
    BY <1>1
  <2>2. \A q \in S : q > s => q > t
    BY <1>3, <2>1
  <2>3. N(s) \subseteq N(t)
    BY <2>2
  <2>4. s \in N(t) /\ s \notin N(s)
    BY <1>3, <2>1
  <2> QED
    BY <1>2, <2>3, <2>4, FS_Subset
<1>4. \A t, s \in S : Cardinality(N(s)) = Cardinality(N(t)) => t = s
  BY <1>1, <1>3
<1>5. Newest(S) \subseteq S /\ \A t \in Newest(S) : Cardinality(N(t)) \in I
  BY <1>1, <1>2 DEF Newest
<1> HIDE DEF N, I
<1>6. f \in Injection(Newest(S), I)
  BY <1>4, <1>5 DEF Injection, IsInjective
<1>7. IsFiniteSet(I) /\ Cardinality(I) = TimelineCap
  BY CapsAssumption, FS_Interval DEF I
<1>8. IsFiniteSet(Newest(S)) /\ Cardinality(Newest(S)) <= Cardinality(I)
  BY <1>6, <1>7, FS_Injection
<1> QED
  BY <1>7, <1>8

LEMMA AddedFew ==
  ASSUME NEW S, NEW t, IsFiniteSet(S)
  PROVE  /\ IsFiniteSet(S \cup {t}) /\ Cardinality(S) \in Nat
         /\ Cardinality(S \cup {t}) <= Cardinality(S) + 1
<1>1. Cardinality(S) \in Nat
  BY FS_CardinalityType
<1>2. /\ IsFiniteSet(S \cup {t})
      /\ Cardinality(S \cup {t}) =
           IF t \in S THEN Cardinality(S) ELSE Cardinality(S) + 1
  BY FS_AddElement
<1> QED
  BY <1>1, <1>2

LEMMA FewerFew ==
  ASSUME NEW S, IsFiniteSet(S), NEW T \in SUBSET S
  PROVE  /\ IsFiniteSet(T) /\ Cardinality(T) \in Nat /\ Cardinality(S) \in Nat
         /\ Cardinality(T) <= Cardinality(S)
BY FS_Subset, FS_CardinalityType

Few == TimelinesFinite /\ TimelineBounded

LEMMA FewNext == TypeOK /\ Valid /\ Few /\ [Next]_vars => Few'
<1> SUFFICES ASSUME TypeOK, Valid, Few, [Next]_vars, NEW u \in Users
             PROVE  IsFiniteSet(timeline'[u])
                    /\ Cardinality(timeline'[u]) <= TimelineCap + faults'
  BY DEF Few, TimelinesFinite, TimelineBounded
<1>1. /\ faults \in Nat /\ TimelineCap \in Nat /\ timeline[u] \in SUBSET Tweets
      /\ IsFiniteSet(timeline[u]) /\ Cardinality(timeline[u]) <= TimelineCap + faults
      /\ Cardinality(timeline[u]) \in Nat
  BY FS_CardinalityType, CapsAssumption DEF TypeOK, Few, TimelinesFinite, TimelineBounded
<1>2. faults' \in Nat /\ faults <= faults'
  <2>1. faults' = faults \/ faults' = faults + 1
    BY DEF Next, Request, Worker, PoolTask, Handle, InsertTweet, SubmitCreate,
       FetchForRemoval, DeleteRow, SubmitDelete, Enqueue, EnqueueAgain, EnqueueFail,
       Dequeue, DequeueLost, SubmitTask, WorkerExit, DropMalformed,
       ReadFollowers, ReadFail, RunPush, RunRecall, RunFail, Ack, AckFail, EndTask,
       DequeueNothing, BreakerClose, Expire, Shutdown, Stop, Crash, Restart,
       Fault, Cancelled, CommandFails, vars
  <2> QED
    BY <1>1, <2>1
<1>3. ASSUME timeline'[u] \subseteq timeline[u]
      PROVE  IsFiniteSet(timeline'[u])
             /\ Cardinality(timeline'[u]) <= TimelineCap + faults'
  BY <1>1, <1>2, <1>3, FewerFew
<1>4. ASSUME NEW t \in Tweets, timeline'[u] = Newest(timeline[u] \cup {t})
      PROVE  IsFiniteSet(timeline'[u])
             /\ Cardinality(timeline'[u]) <= TimelineCap + faults'
  <2>1. (timeline[u] \cup {t}) \in SUBSET Tweets /\ IsFiniteSet(timeline[u] \cup {t})
    BY <1>1, AddedFew
  <2>2. IsFiniteSet(timeline'[u]) /\ Cardinality(timeline'[u]) <= TimelineCap
    BY <1>4, <2>1, NewestFew
  <2> QED
    BY <1>1, <1>2, <2>2, FS_CardinalityType
<1>5. ASSUME NEW t, timeline'[u] = timeline[u] \cup {t}, faults' = faults + 1
      PROVE  IsFiniteSet(timeline'[u])
             /\ Cardinality(timeline'[u]) <= TimelineCap + faults'
  <2>1. /\ IsFiniteSet(timeline'[u])
        /\ Cardinality(timeline'[u]) <= Cardinality(timeline[u]) + 1
    BY <1>1, <1>5, AddedFew
  <2>2. Cardinality(timeline'[u]) \in Nat
    BY <2>1, FS_CardinalityType
  <2> QED
    BY <1>1, <1>5, <2>1, <2>2
<1>6. CASE \A m \in Msg : ~(RunPush(m) \/ RunRecall(m) \/ RunFail(m))
  BY <1>3, <1>6, Still DEF Expire, TypeOK
<1>7. ASSUME NEW m \in Msg, RunPush(m) \/ RunRecall(m) \/ RunFail(m)
      PROVE  IsFiniteSet(timeline'[u])
             /\ Cardinality(timeline'[u]) <= TimelineCap + faults'
  <2>1. m.id \in Tweets
    BY <1>7 DEF RunPush, RunRecall, RunFail, Valid, Malformed, Msg
  <2>2. ASSUME NEW done, NEW half, timeline' = Pushed(m.id, done, half),
               half = {} \/ faults' = faults + 1
        PROVE  IsFiniteSet(timeline'[u])
               /\ Cardinality(timeline'[u]) <= TimelineCap + faults'
    BY <1>3, <1>4, <1>5, <2>1, <2>2 DEF Pushed
  <2>3. ASSUME NEW done, timeline' = Recalled(m.id, done)
        PROVE  IsFiniteSet(timeline'[u])
               /\ Cardinality(timeline'[u]) <= TimelineCap + faults'
    BY <1>3, <2>3, RecallFacts
  <2>4. CASE RunPush(m)
    BY <2>2, <2>4 DEF RunPush
  <2>5. CASE RunRecall(m)
    BY <2>3, <2>5 DEF RunRecall
  <2>6. CASE RunFail(m)
    <3>1. CASE UNCHANGED timeline
      BY <1>3, <3>1
    <3>2. ASSUME NEW done \in SUBSET targets, NEW half \in SUBSET targets,
                 BreaksAfter(m, done, half), faults' = faults + 1
          PROVE  IsFiniteSet(timeline'[u])
                 /\ Cardinality(timeline'[u]) <= TimelineCap + faults'
      BY <2>2, <2>3, <3>2 DEF BreaksAfter
    <3> QED
      BY <2>6, <3>1, <3>2, Breaking
  <2> QED
    BY <1>7, <2>4, <2>5, <2>6
<1> QED
  BY <1>6, <1>7

-----------------------------------------------------------------------------
(* Stranded tasks are accounted for by faults and stops. *)

LEMMA StrandedFinite ==
  ASSUME StrandedFew
  PROVE  /\ IsFiniteSet(Stranded) /\ Cardinality(Stranded) \in Nat
         /\ \A X : X \subseteq Stranded => Cardinality(X) \in Nat
                                          /\ Cardinality(X) <= Cardinality(Stranded)
         /\ \A X, m : X \subseteq Stranded \cup {m} =>
              Cardinality(X) \in Nat /\ Cardinality(X) <= Cardinality(Stranded) + 1
<1>1. IsFiniteSet(Stranded) /\ Cardinality(Stranded) \in Nat
  BY FS_Subset, FS_CardinalityType DEF StrandedFew, Stranded
<1>2. ASSUME NEW X, X \subseteq Stranded
      PROVE  Cardinality(X) \in Nat /\ Cardinality(X) <= Cardinality(Stranded)
  BY <1>1, <1>2, FewerFew
<1>3. ASSUME NEW X, NEW m, X \subseteq Stranded \cup {m}
      PROVE  Cardinality(X) \in Nat /\ Cardinality(X) <= Cardinality(Stranded) + 1
  <2>1. /\ IsFiniteSet(Stranded \cup {m})
        /\ Cardinality(Stranded \cup {m}) <= Cardinality(Stranded) + 1
    BY <1>1, AddedFew
  <2>2. /\ Cardinality(X) \in Nat /\ Cardinality(Stranded \cup {m}) \in Nat
        /\ Cardinality(X) <= Cardinality(Stranded \cup {m})
    BY <1>3, <2>1, FewerFew
  <2> QED
    BY <1>1, <2>1, <2>2
<1> QED
  BY <1>1, <1>2, <1>3

LEMMA StrandedNext == TypeOK /\ Places /\ StrandedFew /\ [Next]_vars => StrandedFew'
<1> SUFFICES ASSUME TypeOK, Places, StrandedFew, [Next]_vars PROVE StrandedFew'
  OBVIOUS
<1> USE DEF producerVars, workerVars, history
<1> DEFINE Slack(o) == IF o THEN 1 ELSE 0
<1>1. /\ faults \in Nat /\ stops \in Nat /\ IsFiniteSet(pel)
      /\ Cardinality(Stranded) \in Nat
      /\ Cardinality(Stranded) + Slack(Owed) <= faults + stops
  BY StrandedFinite DEF TypeOK, StrandedFew
<1>2. (\A m : IsFiniteSet(pel \cup {m})) /\ \A X : X \subseteq pel => IsFiniteSet(X)
  BY <1>1, AddedFew, FS_Subset
(* The task is still there to be finished, or was finished. *)
<1>3. ASSUME IsFiniteSet(pel'), Stranded' \subseteq Stranded, Owed' => Owed,
             faults' \in Nat, faults <= faults', UNCHANGED stops
      PROVE  StrandedFew'
  <2>1. Cardinality(Stranded') \in Nat /\ Cardinality(Stranded') <= Cardinality(Stranded)
    BY <1>3, StrandedFinite
  <2>2. Cardinality(Stranded') + Slack(Owed') <= faults' + stops'
    BY <1>1, <1>3, <2>1
  <2> QED
    BY <1>3, <2>2 DEF StrandedFew
(* One task more is stranded, by a fault or at the expense of the stop. *)
<1>4. ASSUME IsFiniteSet(pel'), NEW m, Stranded' \subseteq Stranded \cup {m}, ~Owed',
             UNCHANGED stops, faults' = faults + 1 \/ (Owed /\ UNCHANGED faults)
      PROVE  StrandedFew'
  <2>1. Cardinality(Stranded') \in Nat /\ Cardinality(Stranded') <= Cardinality(Stranded) + 1
    BY <1>4, StrandedFinite
  <2>2. Cardinality(Stranded') + Slack(Owed') <= faults' + stops'
    BY <1>1, <1>4, <2>1
  <2> QED
    BY <1>4, <2>2 DEF StrandedFew
<1>5. ASSUME UNCHANGED <<pel, hand, handled, pc, up, grace, stops>>,
             faults' = faults \/ faults' = faults + 1
      PROVE  StrandedFew'
  BY <1>1, <1>3, <1>5 DEF Stranded, Owed, InHand
<1>6. CASE Request
  BY <1>5, <1>6 DEF Request, InsertTweet, SubmitCreate, FetchForRemoval, DeleteRow,
     SubmitDelete
<1>7. ASSUME NEW m \in Msg, PoolTask(m) PROVE StrandedFew'
  BY <1>5, <1>7 DEF PoolTask, Enqueue, EnqueueAgain, EnqueueFail, Fault
<1>8. CASE DequeueNothing \/ BreakerClose \/ UNCHANGED vars
  BY <1>5, <1>8 DEF DequeueNothing, BreakerClose, vars
<1>9. ASSUME NEW u \in Users, Expire(u) PROVE StrandedFew'
  BY <1>5, <1>9 DEF Expire
<1>10. CASE WorkerExit \/ SubmitTask
  BY <1>1, <1>3, <1>10 DEF WorkerExit, SubmitTask, Stranded, Owed, InHand
<1>11. CASE Dequeue
  <2>1. /\ hand = {} /\ pel' = pel \cup {Head(stream)} /\ hand' = {Head(stream)}
        /\ UNCHANGED <<handled, faults, stops, up>> /\ (up = "running" \/ Owed)
    BY <1>11 DEF Dequeue, MayIssue, Places, Owed
  <2>2. Stranded' \subseteq Stranded
    BY <2>1 DEF Stranded
  <2>3. Owed' => Owed
    BY <2>1 DEF Owed
  <2>4. IsFiniteSet(pel')
    BY <1>2, <2>1
  <2> QED
    BY <1>1, <1>3, <2>1, <2>2, <2>3, <2>4
<1>12. CASE DequeueLost
  <2>1. /\ pel' = pel \cup {Head(stream)} /\ pc' = "idle" /\ grace' = FALSE
        /\ UNCHANGED <<handled, hand, stops>> /\ faults' = faults + 1
    BY <1>12 DEF DequeueLost, Fault
  <2>2. Stranded' \subseteq Stranded \cup {Head(stream)} /\ ~Owed'
    BY <2>1 DEF Stranded, Owed, InHand
  <2> QED
    BY <1>2, <1>4, <2>1, <2>2
<1>13. ASSUME NEW m \in Msg, Handle(m) PROVE StrandedFew'
  <2>1. m \in hand /\ \A n \in hand : n = m
    BY <1>13 DEF Handle, DropMalformed, ReadFollowers, ReadFail, RunPush,
       RunRecall, RunFail, Ack, AckFail, Places
  <2>2. CASE DropMalformed(m) \/ ReadFollowers(m) \/ RunPush(m) \/ RunRecall(m)
    <3>1. /\ InHand /\ (grace' => grace) /\ handled \subseteq handled'
          /\ UNCHANGED <<pel, hand, stops, faults, up>>
      BY <2>2 DEF DropMalformed, ReadFollowers, RunPush, RunRecall, Succeed, InHand
    <3>2. Stranded' \subseteq Stranded
      BY <3>1 DEF Stranded
    <3> QED
      BY <1>1, <1>3, <3>1, <3>2 DEF Owed
  <2>3. CASE ReadFail(m) \/ RunFail(m)
    <3>1. /\ InHand /\ hand' = {} /\ pc' = "idle" /\ grace' = FALSE
          /\ UNCHANGED <<pel, handled, stops, up>>
          /\ faults' = faults + 1 \/ (up = "stopping" /\ UNCHANGED faults)
      BY <2>3 DEF ReadFail, RunFail, Fail, CommandFails, Cancelled, Fault, InHand
    <3>2. Stranded' \subseteq Stranded \cup {m} /\ ~Owed' /\ (up = "stopping" => Owed)
      BY <2>1, <3>1 DEF Stranded, Owed, InHand
    <3> QED
      BY <1>1, <1>4, <3>1, <3>2
  <2>4. CASE Ack(m) \/ AckFail(m)
    <3>1. /\ pc = "ack" /\ hand' = {} /\ pc' = "idle" /\ grace' = FALSE
          /\ pel' \subseteq pel /\ UNCHANGED <<handled, stops>>
          /\ faults' = faults + 1 \/ UNCHANGED faults
      BY <2>4 DEF Ack, AckFail, EndTask, CommandFails, Cancelled, Fault
    <3>2. Stranded' \subseteq Stranded /\ ~Owed'
      BY <3>1 DEF Stranded, Owed, InHand, Places
    <3> QED
      BY <1>1, <1>2, <1>3, <3>1, <3>2
  <2> QED
    BY <1>13, <2>2, <2>3, <2>4 DEF Handle
(* A stop grants what the worker may still strand. *)
<1>14. CASE Shutdown
  <2>1. /\ stops' = stops + 1 /\ UNCHANGED <<pel, handled, hand, faults>>
        /\ up = "running"
    BY <1>14 DEF Shutdown
  <2>2. Stranded' = Stranded /\ ~Owed
    BY <2>1 DEF Stranded, Owed
  <2>3. Cardinality(Stranded') + Slack(Owed') <= faults' + stops'
    BY <1>1, <2>1, <2>2
  <2> QED
    BY <1>1, <2>1, <2>3 DEF StrandedFew
<1>15. CASE Stop \/ Restart
  BY <1>1, <1>3, <1>15 DEF Stop, Restart, Stranded, Owed
<1>16. CASE Crash
  <2>1. /\ up' = "down" /\ hand' = {} /\ UNCHANGED <<pel, handled, stops>>
        /\ faults' = faults + 1 /\ \A n, k \in hand : n = k
    BY <1>16 DEF Crash, Fault, Places
  <2>2. ~Owed' /\ \E m : Stranded' \subseteq Stranded \cup {m}
    <3>1. CASE hand = {}
      BY <2>1, <3>1 DEF Stranded, Owed
    <3>2. CASE hand # {}
      BY <2>1, <3>2 DEF Stranded, Owed
    <3> QED
      BY <3>1, <3>2
  <2> QED
    BY <1>1, <1>4, <2>1, <2>2
<1> QED
  BY <1>6, <1>7, <1>8, <1>9, <1>10, <1>11, <1>12, <1>13, <1>14, <1>15, <1>16
     DEF Next, Worker

-----------------------------------------------------------------------------
(* Where one step may move a message: a new one goes to the pool, from     *)
(* there to the stream, from there to the consumer's pending entries; what *)
(* leaves the stream otherwise was trimmed by another message's write, and *)
(* what is pending stays so until it is handled.                           *)
Flow ==
  /\ submitted \subseteq submitted' /\ submitted' \ submitted \subseteq outbox'
  /\ outbox' \subseteq outbox \cup (submitted' \ submitted)
  /\ \A m \in Msg : InStream(m)' => InStream(m) \/ m \in outbox
  /\ \A m \in Msg : InStream(m) /\ ~InStream(m)' =>
       m \in pel' \/ \E n \in outbox : n \notin outbox'
  /\ \A m \in pel' : m \in pel \/ InStream(m)
  /\ pel \ handled \subseteq pel'
  /\ \A m, n \in pel' \ pel : m = n
  /\ handled \subseteq handled' /\ handled' \ handled \subseteq hand

LEMMA FlowNext == TypeOK /\ Fresh /\ Places /\ [Next]_vars => Flow
<1> SUFFICES ASSUME TypeOK, Fresh, Places, [Next]_vars PROVE Flow
  OBVIOUS
<1> USE DEF producerVars, workerVars, history
<1>1. ASSUME UNCHANGED <<stream, pel, handled>>,
             submitted \subseteq submitted' /\ submitted' \ submitted \subseteq outbox',
             outbox' \subseteq outbox \cup (submitted' \ submitted)
      PROVE  Flow
  BY <1>1 DEF Flow, InStream
<1>2. ASSUME NEW n \in Msg, Submit(n), n \notin submitted, UNCHANGED <<stream, pel, handled>>
      PROVE  Flow
  BY <1>1, <1>2 DEF Submit
<1>3. ASSUME NEW t \in Tweets, SubmitCreate(t) PROVE Flow
  <2>1. Task(t, t, "create") \in Msg /\ Task(t, t, "create") \notin submitted
    BY <1>3 DEF SubmitCreate, Task, Msg, Fresh, Told
  <2> QED
    BY <1>2, <1>3, <2>1 DEF SubmitCreate
<1>4. ASSUME NEW r \in Removers, SubmitDelete(r) PROVE Flow
  <2> DEFINE n == Task(removal[r].tweet, removal[r].id, "delete")
  <2>1. removal[r].tweet \in Tweets /\ removal[r].id \in Tweets \cup {0}
    BY <1>4 DEF SubmitDelete, TypeOK, Removal, FreeRemoval
  <2>2. n \in Msg /\ n.tweet = removal[r].tweet /\ n.action = "delete"
    BY <2>1 DEF Task, Msg
  <2>3. Told(submitted, removal[r].tweet, "delete") = {}
    BY <1>4 DEF SubmitDelete, Fresh, Withdrawing
  <2>4. n \notin submitted
    BY <2>2, <2>3 DEF Told
  <2> QED
    BY <1>2, <1>4, <2>2, <2>4 DEF SubmitDelete
<1>5. ASSUME NEW t \in Tweets, InsertTweet(t) PROVE Flow
  BY <1>1, <1>5 DEF InsertTweet
<1>6. ASSUME NEW r \in Removers, NEW t \in Tweets, FetchForRemoval(r, t) \/ DeleteRow(r)
      PROVE  Flow
  BY <1>1, <1>6 DEF FetchForRemoval, DeleteRow
<1>7. ASSUME NEW r \in Removers, DeleteRow(r) PROVE Flow
  BY <1>1, <1>7 DEF DeleteRow
<1>8. ASSUME NEW m \in Msg, PoolTask(m) PROVE Flow
  <2>1. m \in submitted /\ m \in outbox /\ ~InStream(m)
    BY <1>8 DEF PoolTask, Enqueue, EnqueueAgain, EnqueueFail, Places, InStream
  <2>2. ASSUME Append1(m) PROVE \A n \in Msg : InStream(n)' => InStream(n) \/ n = m
    BY <2>1, <2>2, WriteFacts DEF Places, InStream
  <2>3. CASE Enqueue(m)
    BY <2>1, <2>2, <2>3 DEF Enqueue, Flow
  <2>4. CASE EnqueueAgain(m)
    <3>1. /\ outbox' = (outbox \ {m}) \cup {Twin(m)} /\ m.copy = 1
          /\ submitted' = submitted \cup {Twin(m)}
          /\ UNCHANGED <<pel, handled>> /\ Append1(m)
      BY <2>4 DEF EnqueueAgain, Twin
    <3>2. Twin(m) \notin submitted /\ Twin(m) # m
      BY <2>1, <3>1 DEF Fresh, Twin, Msg
    <3> QED
      BY <2>1, <2>2, <3>1, <3>2 DEF Flow
  <2>5. CASE EnqueueFail(m)
    BY <1>1, <2>5 DEF EnqueueFail
  <2> QED
    BY <1>8, <2>3, <2>4, <2>5 DEF PoolTask
<1>9. CASE Dequeue \/ DequeueLost
  <2>1. stream # <<>> /\ stream' = Tail(stream) /\ NoTwice
    BY <1>9 DEF Dequeue, DequeueLost, Places
  <2>2. /\ InStream(Head(stream))
        /\ \A n \in Msg : InStream(n)' => InStream(n)
    BY <2>1, ReadFacts DEF InStream
  <2>3. \A n \in Msg : InStream(n) => InStream(n)' \/ n = Head(stream)
    BY <2>1, TailShift DEF InStream
  <2>4. pel' = pel \cup {Head(stream)} /\ UNCHANGED <<outbox, submitted, handled>>
    BY <1>9 DEF Dequeue, DequeueLost
  <2> QED
    BY <2>2, <2>3, <2>4 DEF Flow
<1>10. CASE SubmitTask \/ WorkerExit
  BY <1>1, <1>10 DEF SubmitTask, WorkerExit
<1>11. ASSUME NEW m \in Msg, Handle(m) PROVE Flow
  <2>1. /\ m \in hand /\ UNCHANGED <<outbox, stream, submitted>>
        /\ \/ handled' = handled \cup {m} /\ UNCHANGED pel
           \/ UNCHANGED <<pel, handled>>
           \/ pc = "ack" /\ pel' = pel \ {m} /\ UNCHANGED handled
    BY <1>11 DEF Handle, DropMalformed, ReadFollowers, ReadFail, RunPush,
       RunRecall, RunFail, Ack, AckFail, EndTask, Succeed, Fail
  <2>2. pc = "ack" => m \in handled
    BY <2>1 DEF Places
  <2> QED
    BY <2>1, <2>2 DEF Flow, InStream
<1>12. CASE DequeueNothing \/ BreakerClose \/ Shutdown \/ Stop \/ Restart \/ UNCHANGED vars
  BY <1>1, <1>12 DEF DequeueNothing, BreakerClose, Shutdown, Stop, Restart, vars
<1>13. ASSUME NEW u \in Users, Expire(u) PROVE Flow
  BY <1>1, <1>13 DEF Expire
<1>14. CASE Crash
  BY <1>1, <1>14 DEF Crash
<1> QED
  BY <1>3, <1>4, <1>5, <1>6, <1>7, <1>8, <1>9, <1>10, <1>11, <1>12, <1>13,
     <1>14 DEF Next, Request, Worker

-----------------------------------------------------------------------------
(* Lost messages are accounted for by faults and by the stream's length.   *)

LEMMA OneMore ==
  ASSUME NEW a \in Nat, NEW b \in Nat
  PROVE  a * b \in Nat /\ a * (b + 1) = a * b + a
<1>1. a * b \in Int /\ a * (b + 1) = a * b + a
  OBVIOUS
<1>2. a * b >= 0
  OBVIOUS
<1> QED
  BY <1>1, <1>2

(* Entries that are all different, and others apart from them. *)
LEMMA ApartCount ==
  ASSUME NEW S, IsFiniteSet(S), NEW s, Len(s) \in Nat,
         \A i \in 1 .. Len(s) : s[i] \in S,
         \A i, j \in 1 .. Len(s) : s[i] = s[j] => i = j,
         NEW L \in SUBSET S, \A i \in 1 .. Len(s) : s[i] \notin L
  PROVE  Cardinality(L) + Len(s) <= Cardinality(S)
<1> DEFINE I == 1 .. Len(s)
           R == {s[i] : i \in I}
           f == [i \in I |-> s[i]]
<1>1. R \subseteq S /\ L \cap R = {}
  OBVIOUS
<1>2. IsFiniteSet(L) /\ IsFiniteSet(R) /\ IsFiniteSet(L \cup R)
  BY <1>1, FS_Subset, FS_Union
<1>3. f \in Injection(I, R)
  BY DEF Injection, IsInjective
<1>4. Cardinality(I) = Len(s)
  <2>1. 1 \in Int /\ Len(s) \in Int
    OBVIOUS
  <2>2. Cardinality(I) = IF 1 > Len(s) THEN 0 ELSE Len(s) - 1 + 1
    BY <2>1, FS_Interval
  <2> QED
    BY <2>2
<1>5. Cardinality(I) <= Cardinality(R)
  BY <1>2, <1>3, FS_Injection
<1>6. Cardinality(L \cup R) = Cardinality(L) + Cardinality(R)
  <2>1. Cardinality(L \cup R) = Cardinality(L) + Cardinality(R) - Cardinality(L \cap R)
    BY <1>2, FS_Union
  <2>2. Cardinality(L \cap R) = 0
    BY <1>1, FS_EmptySet
  <2>3. Cardinality(L) \in Nat /\ Cardinality(R) \in Nat
    BY <1>2, FS_CardinalityType
  <2> HIDE DEF R
  <2> QED
    BY <2>1, <2>2, <2>3
<1>7. Cardinality(L \cup R) <= Cardinality(S)
  BY <1>1, FS_Subset
<1>8. Cardinality(L) \in Nat /\ Cardinality(R) \in Nat /\ Cardinality(S) \in Nat
  BY <1>2, FS_CardinalityType
<1>9. Cardinality(L) + Cardinality(R) <= Cardinality(S)
  BY <1>6, <1>7
<1> HIDE DEF I, R
<1> QED
  BY <1>4, <1>5, <1>8, <1>9

LEMMA LostFacts ==
  ASSUME TypeOK, PoolBounded, Places
  PROVE  /\ Lost \subseteq submitted /\ IsFiniteSet(Lost) /\ IsFiniteSet(outbox)
         /\ Cardinality(Lost) \in Nat /\ Cardinality(outbox) \in Nat
         /\ Cardinality(submitted) \in Nat /\ Excess \in Nat
<1>1. Lost \subseteq submitted /\ outbox \subseteq submitted /\ IsFiniteSet(submitted)
  BY DEF Lost, Status, Places, PoolBounded
<1>2. IsFiniteSet(Lost) /\ IsFiniteSet(outbox)
  BY <1>1, FS_Subset
<1>3. Cardinality(submitted) \in Nat /\ StreamMaxLen \in Nat
  BY <1>1, FS_CardinalityType, CapsAssumption
<1> QED
  BY <1>1, <1>2, <1>3, FS_CardinalityType DEF Excess

Losses == PoolBounded /\ LossBounded

(* How many more are lost if a step only loses what is in X. *)
LEMMA MoreLost ==
  ASSUME TypeOK, Places, Losses, NEW X, IsFiniteSet(X),
         Lost' \subseteq Lost \cup X, IsFiniteSet(submitted'),
         submitted \subseteq submitted',
         \/ faults' = faults /\ X = {}
         \/ faults' = faults + 1 /\ Cardinality(X) <= PoolCap
  PROVE  LossBounded'
<1>1. /\ PoolCap \in Nat /\ faults \in Nat /\ StreamMaxLen \in Nat
      /\ Cardinality(Lost) \in Nat /\ Cardinality(submitted) \in Nat /\ Excess \in Nat
      /\ Cardinality(Lost) <= PoolCap * faults + Excess /\ IsFiniteSet(Lost)
  BY LostFacts, CapsAssumption DEF Losses, LossBounded, TypeOK
<1>2. Excess <= Excess' /\ Excess' \in Nat
  <2>1. Cardinality(submitted) <= Cardinality(submitted') /\ Cardinality(submitted') \in Nat
    BY FS_Subset, FS_CardinalityType
  <2> QED
    BY <1>1, <2>1 DEF Excess
<1>3. /\ Cardinality(Lost') \in Nat /\ Cardinality(X) \in Nat
      /\ Cardinality(Lost') <= Cardinality(Lost) + Cardinality(X)
  <2>1. /\ IsFiniteSet(Lost \cup X) /\ IsFiniteSet(Lost \cap X)
        /\ Cardinality(Lost \cup X) =
             Cardinality(Lost) + Cardinality(X) - Cardinality(Lost \cap X)
    BY <1>1, FS_Union, FS_Subset
  <2>2. /\ Cardinality(Lost') <= Cardinality(Lost \cup X) /\ IsFiniteSet(Lost')
    BY <2>1, FS_Subset
  <2>3. /\ Cardinality(X) \in Nat /\ Cardinality(Lost \cap X) \in Nat
        /\ Cardinality(Lost') \in Nat /\ Cardinality(Lost \cup X) \in Nat
    BY <2>1, <2>2, FS_CardinalityType
  <2> QED
    BY <1>1, <2>1, <2>2, <2>3
<1>4. CASE faults' = faults /\ X = {}
  <2>1. Cardinality(X) = 0
    BY <1>4, FS_EmptySet
  <2>2. PoolCap * faults \in Nat /\ PoolCap * faults' = PoolCap * faults
    BY <1>1, <1>4, OneMore
  <2> HIDE DEF Lost, Excess
  <2> QED
    BY <1>1, <1>2, <1>3, <2>1, <2>2 DEF LossBounded
<1>5. CASE faults' = faults + 1 /\ Cardinality(X) <= PoolCap
  <2>1. PoolCap * faults \in Nat /\ PoolCap * faults' = PoolCap * faults + PoolCap
    BY <1>1, <1>5, OneMore
  <2> QED
    BY <1>1, <1>2, <1>3, <1>5, <2>1 DEF LossBounded
<1> QED
  BY <1>4, <1>5

(* A write either trims nothing, or leaves StreamMaxLen entries apart from *)
(* all that is lost.                                                       *)
LEMMA WriteLosses ==
  ASSUME TypeOK, Places, TypeOK', Places', Losses, NEW m \in outbox, Append1(m),
         IsFiniteSet(submitted'), submitted \subseteq submitted',
         submitted' \ submitted \subseteq outbox', outbox \ {m} \subseteq outbox',
         faults' = faults \/ faults' = faults + 1, UNCHANGED <<pel, handled>>
  PROVE  LossBounded'
<1>1. /\ m \in Msg /\ stream \in Seq(Msg) /\ stream' \in Seq(Msg)
      /\ stream' \in Trim(Append(stream, m)) /\ Len(stream) \in Nat
  BY DEF TypeOK, Append1
<1>2. /\ Append(stream, m) \in Seq(Msg) /\ Len(Append(stream, m)) = Len(stream) + 1
      /\ \A i \in 1 .. Len(stream) : Append(stream, m)[i] = stream[i]
      /\ Append(stream, m)[Len(stream) + 1] = m
  BY <1>1, AppendFacts
<1>3. PICK k \in 0 .. Len(stream) + 1 :
        /\ Len(stream') = Len(stream) + 1 - k
        /\ \A i \in 1 .. Len(stream') : stream'[i] = Append(stream, m)[i + k]
        /\ k = 0 \/ Len(stream) + 1 - k >= StreamMaxLen
  <2> DEFINE s == Append(stream, m)
  <2>1. s \in Seq(Msg) /\ Len(s) = Len(stream) + 1 /\ stream' \in Trim(s)
    BY <1>1, <1>2
  <2> HIDE DEF s
  <2>2. \E k \in 0 .. Len(s) :
          /\ Len(stream') = Len(s) - k
          /\ \A i \in 1 .. Len(stream') : stream'[i] = s[i + k]
          /\ k = 0 \/ Len(s) - k >= StreamMaxLen
    BY <2>1, TrimFacts
  <2> QED
    BY <2>1, <2>2 DEF s
<1>4. Lost' \subseteq submitted' /\ IsFiniteSet(Lost')
  BY FS_Subset DEF Lost, Status
<1>5. CASE k = 0
  <2>1. /\ Len(stream') = Len(stream) + 1
        /\ \A i \in 1 .. Len(stream) : i \in 1 .. Len(stream') /\ stream'[i] = stream[i]
        /\ Len(stream) + 1 \in 1 .. Len(stream') /\ stream'[Len(stream) + 1] = m
    BY <1>1, <1>2, <1>3, <1>5
  <2>2. \A n \in Msg : InStream(n) \/ n = m => InStream(n)'
    BY <2>1 DEF InStream
  <2>3. Lost' \subseteq Lost
    <3> SUFFICES ASSUME NEW n \in Msg, Status(n)' = "lost" PROVE Status(n) = "lost"
      BY DEF Lost
    <3>1. /\ n \in submitted' /\ n \notin outbox' /\ ~InStream(n)'
          /\ n \notin handled /\ n \notin pel
      BY DEF Status
    <3> QED
      BY <2>2, <3>1 DEF Status
  <2>4. IsFiniteSet({}) /\ Cardinality({}) = 0
    BY FS_EmptySet
  <2> QED
    BY <2>3, <2>4, MoreLost, CapsAssumption
<1>6. CASE k # 0
  <2>1. Len(stream') \in Nat /\ Len(stream') >= StreamMaxLen
    BY <1>1, <1>3, <1>6
  <2>2. \A i \in 1 .. Len(stream') : stream'[i] \in submitted' /\ stream'[i] \notin Lost'
    BY DEF Places, Lost, Status, InStream
  <2>3. \A i, j \in 1 .. Len(stream') : stream'[i] = stream'[j] => i = j
    BY DEF Places, NoTwice
  <2>4. Cardinality(Lost') + Len(stream') <= Cardinality(submitted')
    BY <1>4, <2>1, <2>2, <2>3, ApartCount
  <2>5. /\ Cardinality(Lost') \in Nat /\ Cardinality(submitted') \in Nat
        /\ StreamMaxLen \in Nat /\ PoolCap \in Nat /\ faults' \in Nat
    BY <1>4, FS_CardinalityType, CapsAssumption DEF TypeOK
  <2>6. Cardinality(Lost') <= Excess'
    BY <2>1, <2>4, <2>5 DEF Excess
  <2>7. PoolCap * faults' \in Nat
    BY <2>5, OneMore
  <2>8. Excess' \in Nat
    BY <2>5 DEF Excess
  <2> QED
    BY <2>5, <2>6, <2>7, <2>8 DEF LossBounded
<1> QED
  BY <1>5, <1>6

LEMMA PoolNext == TypeOK /\ Places /\ PoolBounded /\ [Next]_vars => PoolBounded'
<1> SUFFICES ASSUME TypeOK, Places, PoolBounded, [Next]_vars PROVE PoolBounded'
  OBVIOUS
<1> USE DEF producerVars, workerVars, history
<1>1. /\ IsFiniteSet(submitted) /\ IsFiniteSet(outbox) /\ PoolCap \in Nat
      /\ Cardinality(outbox) \in Nat /\ Cardinality(outbox) <= PoolCap
  BY LostFacts, CapsAssumption DEF PoolBounded
<1>2. ASSUME outbox' \subseteq outbox, UNCHANGED submitted PROVE PoolBounded'
  BY <1>1, <1>2, FewerFew DEF PoolBounded
<1>3. ASSUME NEW m, Submit(m) PROVE PoolBounded'
  <2>1. /\ Cardinality(outbox) < PoolCap /\ outbox' = outbox \cup {m}
        /\ submitted' = submitted \cup {m}
    BY <1>1, <1>3 DEF Submit, SlotFree, Busy
  <2>2. IsFiniteSet(outbox') /\ IsFiniteSet(submitted')
        /\ Cardinality(outbox') <= Cardinality(outbox) + 1
    BY <1>1, <2>1, AddedFew
  <2>3. Cardinality(outbox') \in Nat
    BY <2>2, FS_CardinalityType
  <2> QED
    BY <1>1, <2>1, <2>2, <2>3 DEF PoolBounded
<1>4. CASE Request
  BY <1>2, <1>3, <1>4 DEF Request, InsertTweet, SubmitCreate, FetchForRemoval,
     DeleteRow, SubmitDelete
<1>5. ASSUME NEW m \in Msg, PoolTask(m) PROVE PoolBounded'
  <2>1. CASE Enqueue(m) \/ EnqueueFail(m)
    BY <1>2, <2>1 DEF Enqueue, EnqueueFail
  <2>2. CASE EnqueueAgain(m)
    <3>1. /\ m \in outbox /\ outbox' = (outbox \ {m}) \cup {Twin(m)}
          /\ submitted' = submitted \cup {Twin(m)}
      BY <2>2 DEF EnqueueAgain, Twin
    <3>2. IsFiniteSet(outbox \ {m}) /\ Cardinality(outbox \ {m}) = Cardinality(outbox) - 1
      BY <1>1, <3>1, FS_RemoveElement
    <3>3. IsFiniteSet(outbox') /\ IsFiniteSet(submitted')
          /\ Cardinality(outbox') <= Cardinality(outbox \ {m}) + 1
      BY <1>1, <3>1, <3>2, AddedFew
    <3>4. Cardinality(outbox') \in Nat
      BY <3>3, FS_CardinalityType
    <3> QED
      BY <1>1, <3>2, <3>3, <3>4 DEF PoolBounded
  <2> QED
    BY <1>5, <2>1, <2>2 DEF PoolTask
<1>6. CASE Worker \/ DequeueNothing \/ BreakerClose \/ UNCHANGED vars
  BY <1>2, <1>6 DEF Worker, Handle, Dequeue, DequeueLost, SubmitTask, WorkerExit,
     DropMalformed, ReadFollowers, ReadFail, RunPush, RunRecall, RunFail, Ack,
     AckFail, EndTask, DequeueNothing, BreakerClose, vars
<1>7. ASSUME NEW u \in Users, Expire(u) PROVE PoolBounded'
  BY <1>2, <1>7 DEF Expire
<1>8. CASE Shutdown \/ Stop \/ Crash \/ Restart
  BY <1>2, <1>8 DEF Shutdown, Stop, Crash, Restart
<1> QED
  BY <1>4, <1>5, <1>6, <1>7, <1>8 DEF Next

LEMMA LossNext ==
  TypeOK /\ TypeOK' /\ Fresh /\ Places /\ Places' /\ Losses /\ [Next]_vars => LossBounded'
<1> SUFFICES ASSUME TypeOK, TypeOK', Fresh, Places, Places', Losses, [Next]_vars
             PROVE  LossBounded'
  OBVIOUS
<1> USE DEF producerVars, workerVars, history
<1>1. /\ Flow /\ IsFiniteSet(submitted') /\ submitted \subseteq submitted'
      /\ IsFiniteSet(outbox) /\ Cardinality(outbox) \in Nat
      /\ Cardinality(outbox) <= PoolCap /\ PoolCap \in Nat \ {0} /\ faults \in Nat
  BY FlowNext, PoolNext, LostFacts, CapsAssumption DEF Losses, PoolBounded, Flow, TypeOK
<1>2. IsFiniteSet({}) /\ Cardinality({}) = 0
  BY FS_EmptySet
<1>3. ASSUME outbox \subseteq outbox', \A m \in Msg : InStream(m) => InStream(m)' \/ m \in pel'
      PROVE  Lost' \subseteq Lost
  <2> SUFFICES ASSUME NEW m \in Msg, Status(m)' = "lost" PROVE Status(m) = "lost"
    BY DEF Lost
  <2> QED
    BY <1>1, <1>3 DEF Flow, Status
<1>4. ASSUME faults' = faults \/ faults' = faults + 1, Lost' \subseteq Lost
      PROVE  LossBounded'
  BY <1>1, <1>2, <1>4, MoreLost
<1>5. ASSUME outbox \subseteq outbox', UNCHANGED stream,
             faults' = faults \/ faults' = faults + 1
      PROVE  LossBounded'
  BY <1>3, <1>4, <1>5 DEF InStream
<1>6. CASE Request
  BY <1>5, <1>6 DEF Request, InsertTweet, SubmitCreate, FetchForRemoval,
     DeleteRow, SubmitDelete, Submit
<1>7. ASSUME NEW m \in Msg, PoolTask(m) PROVE LossBounded'
  <2>1. CASE Enqueue(m) \/ EnqueueAgain(m)
    <3>1. /\ m \in outbox /\ Append1(m) /\ outbox \ {m} \subseteq outbox'
          /\ submitted' \ submitted \subseteq outbox' /\ UNCHANGED <<pel, handled>>
          /\ faults' = faults \/ faults' = faults + 1
      BY <2>1 DEF Enqueue, EnqueueAgain, Fault
    <3> QED
      BY <1>1, <3>1, WriteLosses
  <2>2. CASE EnqueueFail(m)
    <3>1. /\ outbox' = outbox \ {m} /\ UNCHANGED <<stream, submitted, handled, pel>>
          /\ faults' = faults + 1
      BY <2>2 DEF EnqueueFail, Fault
    <3>2. Lost' \subseteq Lost \cup {m}
      BY <3>1 DEF Lost, Status, InStream
    <3>3. IsFiniteSet({m}) /\ Cardinality({m}) = 1
      BY FS_Singleton
    <3>4. Cardinality({m}) <= PoolCap
      BY <1>1, <3>3
    <3> HIDE DEF Lost
    <3> QED
      BY <1>1, <3>1, <3>2, <3>3, <3>4, MoreLost
  <2> QED
    BY <1>7, <2>1, <2>2 DEF PoolTask
<1>8. CASE Dequeue \/ DequeueLost
  <2>1. /\ stream # <<>> /\ stream' = Tail(stream) /\ UNCHANGED outbox
        /\ pel' = pel \cup {Head(stream)} /\ (faults' = faults \/ faults' = faults + 1)
    BY <1>8 DEF Dequeue, DequeueLost, Fault
  <2>2. \A m \in Msg : InStream(m) => InStream(m)' \/ m = Head(stream)
    BY <2>1, TailShift DEF InStream
  <2> QED
    BY <1>3, <1>4, <2>1, <2>2
<1>9. CASE SubmitTask \/ WorkerExit \/ (\E m \in Msg : Handle(m))
  BY <1>5, <1>9 DEF SubmitTask, WorkerExit, Handle, DropMalformed, ReadFollowers,
     ReadFail, RunPush, RunRecall, RunFail, Ack, AckFail, EndTask, CommandFails,
     Cancelled, Fault
<1>10. CASE DequeueNothing \/ BreakerClose \/ Shutdown \/ Stop \/ Restart \/ UNCHANGED vars
  BY <1>5, <1>10 DEF DequeueNothing, BreakerClose, Shutdown, Stop, Restart, vars
<1>11. ASSUME NEW u \in Users, Expire(u) PROVE LossBounded'
  BY <1>5, <1>11 DEF Expire
<1>12. CASE Crash
  <2>1. /\ UNCHANGED <<stream, submitted, handled, pel>> /\ faults' = faults + 1
    BY <1>12 DEF Crash, Fault
  <2>2. Lost' \subseteq Lost \cup outbox
    BY <2>1 DEF Lost, Status, InStream
  <2> QED
    BY <1>1, <2>1, <2>2, MoreLost
<1> QED
  BY <1>6, <1>7, <1>8, <1>9, <1>10, <1>11, <1>12 DEF Next, Worker

-----------------------------------------------------------------------------
LEMMA InitHolds == Init => IInv
<1> SUFFICES ASSUME Init PROVE IInv
  OBVIOUS
<1>1. TypeOK
  BY TypeInit
<1>2. Fresh /\ Places
  BY DEF Init, Fresh, Withdrawing, Told, FreeRemoval, Places, NoTwice, InHand
<1>3. Valid /\ Aimed /\ Untouched /\ DoneMeansReached
  BY DEF Init, Valid, Aimed, Untouched, DoneMeansReached
<1>4. Named /\ Ordered /\ RecallSticks
  BY DEF Init, Named, Ordered, RecallSticks, InStream, InHand
<1>5. TimelinesFinite /\ TimelineBounded
  BY FS_EmptySet, CapsAssumption DEF Init, TimelinesFinite, TimelineBounded
<1>6. StrandedFew
  <2>1. Stranded = {} /\ pel = {} /\ ~Owed /\ faults = 0 /\ stops = 0
    BY DEF Init, Stranded, Owed
  <2> QED
    BY <2>1, FS_EmptySet DEF StrandedFew
<1>7. PoolBounded /\ LossBounded
  <2>1. Lost = {} /\ submitted = {} /\ outbox = {} /\ faults = 0
    BY DEF Init, Lost, Status
  <2>2. IsFiniteSet({}) /\ Cardinality({}) = 0
    BY FS_EmptySet
  <2>3. PoolCap \in Nat /\ StreamMaxLen \in Nat
    BY CapsAssumption
  <2> QED
    BY <2>1, <2>2, <2>3 DEF PoolBounded, LossBounded, Excess
<1> QED
  BY <1>1, <1>2, <1>3, <1>4, <1>5, <1>6, <1>7 DEF IInv

THEOREM Inductive == Spec => []IInv
<1>1. IInv /\ [Next]_vars => IInv'
  BY TypeNext, FreshNext, PlacesNext, WorkNext, NamedNext, OrderedNext, RecallNext,
     FewNext, StrandedNext, PoolNext, LossNext DEF IInv, WorkInv, Few, Losses
<1> QED
  BY <1>1, InitHolds, PTL DEF Spec

(* The state keeps its types. *)
THEOREM TypeCorrect == Spec => []TypeOK
BY Inductive, PTL DEF IInv

(* What is reported as done reached the whole audience, for any number of  *)
(* messages, users, faults, crashes and shutdowns.                         *)
THEOREM HandledReached == Spec => []DoneMeansReached
BY Inductive, PTL DEF IInv

(* A recalled tweet stays recalled unless its deletion overtook its        *)
(* creation in the pool, whatever fails, stops or is repeated in between.  *)
THEOREM RecallsStick == Spec => []RecallSticks
BY Inductive, PTL DEF IInv

(* A task is stranded - pending with nobody to finish it - only by a fault *)
(* or an orderly stop, and each of those strands one at most, however many *)
(* messages there are and however often the process stops.                 *)
THEOREM StrandedAreFew == Spec => []StrandedBounded
<1>1. IInv => StrandedBounded
  <2> SUFFICES ASSUME IInv PROVE StrandedBounded
    OBVIOUS
  <2>1. /\ faults \in Nat /\ stops \in Nat /\ Cardinality(Stranded) \in Nat
        /\ Cardinality(Stranded) + (IF Owed THEN 1 ELSE 0) <= faults + stops
    BY StrandedFinite DEF IInv, TypeOK, StrandedFew
  <2> QED
    BY <2>1 DEF StrandedBounded
<1> QED
  BY <1>1, Inductive, PTL

(* A message is lost only by a fault, which takes no more than the pool    *)
(* holds, or by the trim, which in all takes no more than what was         *)
(* submitted beyond the stream's length; never by an orderly stop.         *)
THEOREM LossesBounded == Spec => []LossBounded
BY Inductive, PTL DEF IInv

(* Both together: what the pipeline does not do, faults and stops account  *)
(* for.                                                                    *)
THEOREM DamageIsBounded == Spec => []DamageBounded
<1>1. StrandedBounded /\ LossBounded => DamageBounded
  BY DEF DamageBounded
<1> QED
  BY <1>1, StrandedAreFew, LossesBounded, PTL

(* A timeline exceeds its limit by no more than the faults there were.     *)
THEOREM TimelinesBounded == Spec => []TimelineBounded
BY Inductive, PTL DEF IInv

-----------------------------------------------------------------------------
(* The pipeline implements Delivery. *)

(* The moves of one message that Flow leaves. *)
LEMMA StatusMoves ==
  ASSUME Places, Places', Flow, NEW m \in Msg, Status(m)' # Status(m)
  PROVE  /\ <<Status(m), Status(m)'>> \in D!Moves
         /\ Status(m) = "queued" /\ Status(m)' = "lost" =>
              \E n \in outbox : n \notin outbox'
         /\ Status(m) = "queued" /\ Status(m)' = "taken" => m \in pel' \ pel
         /\ Status(m) = "taken" /\ Status(m)' = "done" => m \in hand
<1> USE DEF Status
<1>1. ASSUME Places PROVE ~(InStream(m) /\ m \in outbox \cup pel \cup handled)
                          /\ (InStream(m) => m \in submitted)
  BY <1>1 DEF Places, InStream
<1>2. ASSUME Places' PROVE ~(InStream(m)' /\ m \in outbox' \cup pel' \cup handled')
  BY <1>2 DEF Places, InStream
<1>3. /\ outbox \subseteq submitted /\ pel \subseteq submitted /\ handled \subseteq submitted
      /\ outbox \cap (pel \cup handled) = {} /\ hand \subseteq pel
      /\ outbox' \cap (pel' \cup handled') = {}
  BY DEF Places
<1>4. /\ m \in submitted => m \in submitted'
      /\ m \in submitted' => m \in submitted \/ m \in outbox'
      /\ m \in outbox' => m \in outbox \/ m \notin submitted
      /\ InStream(m)' => InStream(m) \/ m \in outbox
      /\ InStream(m) /\ ~InStream(m)' => m \in pel' \/ \E n \in outbox : n \notin outbox'
      /\ m \in pel' => m \in pel \/ InStream(m)
      /\ m \in pel => m \in handled \/ m \in pel'
      /\ m \in handled => m \in handled'
      /\ m \in handled' => m \in handled \/ m \in hand
  BY DEF Flow
<1>5. CASE Status(m) = "unsent"
  <2>1. Status(m)' = "accepted"
    BY <1>3, <1>4, <1>5
  <2> QED
    BY <1>5, <2>1 DEF D!Moves
<1>6. CASE Status(m) = "accepted"
  <2>1. Status(m)' = "queued" \/ Status(m)' = "lost"
    BY <1>1, <1>3, <1>4, <1>6
  <2> QED
    BY <1>6, <2>1 DEF D!Moves
<1>7. CASE Status(m) = "queued"
  <2>1. InStream(m) /\ m \notin outbox \cup pel \cup handled /\ m \in submitted
    BY <1>1, <1>7
  <2>2. \/ Status(m)' = "taken" /\ m \in pel' \ pel
        \/ Status(m)' = "lost" /\ \E n \in outbox : n \notin outbox'
    BY <1>3, <1>4, <1>7, <2>1
  <2> QED
    BY <1>7, <2>2 DEF D!Moves
<1>8. CASE Status(m) = "taken"
  <2>1. Status(m)' = "done" /\ m \in hand
    BY <1>2, <1>3, <1>4, <1>8
  <2> QED
    BY <1>8, <2>1 DEF D!Moves
<1>9. CASE Status(m) \in {"done", "lost"}
  BY <1>1, <1>2, <1>3, <1>4, <1>9
<1> QED
  BY <1>5, <1>6, <1>7, <1>8, <1>9

LEMMA MovesDeliver ==
  IInv /\ IInv' /\ [Next]_vars => [D!Next]_([m \in Msg |-> Status(m)])
<1> SUFFICES ASSUME IInv, IInv', [Next]_vars PROVE D!Next
  OBVIOUS
<1> DEFINE st == [m \in Msg |-> Status(m)]
<1>1. /\ Places /\ Places' /\ Flow
      /\ \A m \in Msg : st[m] = Status(m) /\ st'[m] = Status(m)'
  BY FlowNext DEF IInv
<1>2. st' \in [Msg -> D!Statuses]
  BY DEF Status, D!Statuses
<1>3. ASSUME NEW m \in Msg, st'[m] # st[m] PROVE <<st[m], st'[m]>> \in D!Moves
  BY <1>1, <1>3, StatusMoves
<1>4. ASSUME NEW m \in Msg, D!Moved(m, "queued", "lost")
      PROVE  \E n \in Msg : st[n] = "accepted" /\ st'[n] # "accepted"
  <2>1. PICK n \in outbox : n \notin outbox'
    BY <1>1, <1>4, StatusMoves DEF D!Moved
  <2>2. n \in Msg /\ n \in submitted
    BY <1>1 DEF IInv, TypeOK, Places
  <2>3. Status(n) = "accepted" /\ Status(n)' # "accepted"
    BY <2>1, <2>2 DEF Status
  <2> QED
    BY <1>1, <2>2, <2>3
<1>5. ASSUME NEW m \in Msg, NEW n \in Msg
      PROVE  /\ D!Moved(m, "queued", "taken") /\ D!Moved(n, "queued", "taken") => m = n
             /\ D!Moved(m, "taken", "done") /\ D!Moved(n, "taken", "done") => m = n
  <2>1. ASSUME NEW k \in Msg
        PROVE  /\ D!Moved(k, "queued", "taken") => k \in pel' \ pel
               /\ D!Moved(k, "taken", "done") => k \in hand
    BY <1>1, StatusMoves DEF D!Moved
  <2>2. (\A i, j \in pel' \ pel : i = j) /\ (\A i, j \in hand : i = j)
    BY <1>1 DEF Flow, Places
  <2> QED
    BY <2>1, <2>2
<1> QED
  BY <1>2, <1>3, <1>4, <1>5 DEF D!Next

(* Every behaviour of the pipeline is one of Delivery: a message is        *)
(* handled once at most and what the worker took is done or pending, for   *)
(* any number of messages, faults, crashes and shutdowns.                  *)
THEOREM PipelineDelivers == Spec => DeliverySpec
<1>1. Init => D!Init
  BY DEF Init, D!Init, Status
<1> QED
  BY <1>1, Inductive, MovesDeliver, PTL DEF Spec, DeliverySpec, D!Spec
=============================================================================
