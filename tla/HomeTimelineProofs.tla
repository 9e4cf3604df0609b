------------------------- MODULE HomeTimelineProofs -------------------------
(* Proofs about home timelines, for any users, tweets, requests and faults. *)
EXTENDS HomeTimeline, TLAPS, FiniteSetTheorems

Mine(u) == {t \in Tweets : Author[t] = u}
Met(u, t) == <<u, Author[t]>> \in following \cup parted
Feed(u) == {t \in Tweets : Met(u, t)} \cup Mine(u)

(* Who has a tweet that is his neither by being its author nor by having   *)
(* ceased to follow him.                                                   *)
Kept(t) == {u \in Users \ {Author[t]} : t \in home[u] /\ <<u, Author[t]>> \notin parted}

-----------------------------------------------------------------------------
(* Finite sets of tweets, and how many of them a page can have. *)

LEMMA TweetsFinite ==
  ASSUME NEW S \in SUBSET Tweets
  PROVE  IsFiniteSet(S) /\ Cardinality(S) \in Nat /\ S \in SUBSET Nat
BY HomeAssumption, FS_Subset, FS_CardinalityType

-----------------------------------------------------------------------------
(* Types. *)

LEMMA MessageShape ==
  /\ \A m \in Messages : m = <<m[1], m[2]>> /\ m[1] \in {"create", "delete"} /\ m[2] \in New
  /\ \A m \in Messages : m[1] # "create" => m[1] = "delete"
  /\ \A t \in New : <<"create", t>> \in Messages /\ <<"delete", t>> \in Messages
  /\ New \subseteq Tweets
BY DEF Messages, New

LEMMA InitTyped == Init => TypeOK
BY HomeAssumption DEF Init, TypeOK, D!Statuses, Resting, Workers, NoRebuild, Rebuilds,
   Idle, Requests, New

LEMMA ApplyTyped ==
  ASSUME TypeOK, NEW m \in Messages, NEW S, NEW R, Apply(m, S, R)
  PROVE  /\ home' \in [Users -> SUBSET Tweets]
         /\ expected' \subseteq Users \X New /\ overtaken' \subseteq New
<1>1. m[2] \in New /\ m[2] \in Tweets
  BY MessageShape
<1>2. Added(m[2], S) \in [Users -> SUBSET Tweets]
  BY <1>1 DEF Added, TypeOK
<1>3. Pushed(m[2], S, R) \in [Users -> SUBSET Tweets]
  BY <1>2 DEF Pushed, Newest, TypeOK
<1>4. Recalled(m[2], S) \in [Users -> SUBSET Tweets]
  BY DEF Recalled, TypeOK
<1>5. overtaken' \subseteq New
  BY <1>1 DEF Apply, TypeOK
<1>6. expected' \subseteq expected
  BY DEF Apply, Written
<1>7. home' \in [Users -> SUBSET Tweets]
  BY <1>3, <1>4 DEF Apply, Written
<1> QED
  BY <1>5, <1>6, <1>7 DEF TypeOK

LEMMA TurnTyped ==
  ASSUME TypeOK, NEW c \in Clients, NEW u \in Users, NEW page \in Nat, NEW size \in Nat \ {0},
         NEW ids \in SUBSET Tweets, NEW again \in BOOLEAN,
         again => Cardinality(ids) < size, Turn(c, u, page, size, ids, again)
  PROVE  rebuild' \in [Users -> Rebuilds] /\ reqs' \in [Clients -> Requests]
<1>1. Cardinality(ids) \in Nat
  BY TweetsFinite
<1>2. reqs' \in [Clients -> Requests]
  BY DEF TypeOK, Turn, Requests, Idle, RebuildKey
<1>3. again => size - Cardinality(ids) \in Nat
  BY <1>1
<1> QED
  BY <1>2, <1>3 DEF TypeOK, Turn, Rebuilds, RebuildKey

(* A page that is wanted again has less than half of what was asked for. *)
LEMMA AgainShort ==
  ASSUME TypeOK, NEW u \in Users, NEW page \in Nat, NEW size \in Nat \ {0},
         NEW ids \in SUBSET Tweets, ~Content(page, size, ids)
  PROVE  Cardinality(ids) < size
<1>1. Cardinality(ids) \in Nat
  BY TweetsFinite
<1> QED
  BY <1>1 DEF Content

LEMMA EmptyShort ==
  ASSUME NEW size \in Nat \ {0} PROVE Cardinality({}) = 0 /\ Cardinality({}) < size
BY FS_EmptySet

LEMMA AskTyped ==
  ASSUME TypeOK, NEW w \in Wanted, Ask(w[1], w[2], w[3], w[4])
  PROVE  TypeOK'
<1> DEFINE ids == PageOf(home[w[2]], w[3], w[4])
<1>1. w[1] \in Clients /\ w[2] \in Users /\ w[3] \in Nat /\ w[4] \in Nat \ {0}
  BY HomeAssumption
<1>2. ids \in SUBSET Tweets
  BY <1>1 DEF PageOf, TypeOK
<1>3. rebuild' \in [Users -> Rebuilds] /\ reqs' \in [Clients -> Requests]
  <2>1. CASE Turn(w[1], w[2], w[3], w[4], ids, ~Content(w[3], w[4], ids))
    BY <1>1, <1>2, <2>1, AgainShort, TurnTyped
  <2>2. CASE Turn(w[1], w[2], w[3], w[4], {}, TRUE)
    BY <1>1, <2>2, EmptyShort, TurnTyped
  <2> QED
    BY <2>1, <2>2 DEF Ask
<1> QED
  BY <1>3 DEF TypeOK, Ask, Turn, Fault, writing, history

LEMMA NoneTyped == NoRebuild \in Rebuilds /\ Idle \in Requests
BY DEF NoRebuild, Rebuilds, Idle, Requests

LEMMA ToldTyped ==
  ASSUME TypeOK, NEW k, NEW S \in SUBSET Tweets, Told(k, S)
  PROVE  reqs' \in [Clients -> Requests]
<1>1. ASSUME NEW c \in Clients PROVE [reqs[c] EXCEPT !.stage = "fetch", !.own = S] \in Requests
  <2>1. reqs[c] \in Requests
    BY DEF TypeOK
  <2> QED
    BY <2>1 DEF Requests
<1> QED
  BY <1>1 DEF Told, TypeOK

LEMMA TypeNext == TypeOK /\ [Next]_vars => TypeOK'
<1> SUFFICES ASSUME TypeOK, [Next]_vars PROVE TypeOK'
  OBVIOUS
<1>1. CASE UNCHANGED vars
  BY <1>1 DEF TypeOK, vars
<1>2. ASSUME NEW t \in Tweets, Post(t) \/ Remove(t) PROVE TypeOK'
  <2>1. CASE Post(t)
    <3>1. status' \in [Messages -> D!Statuses]
      BY <2>1, MessageShape DEF TypeOK, Post, D!Statuses
    <3>2. expected' \subseteq Users \X New
      <4>1. t \in New /\ FollowersOf(t) \subseteq Users
        BY <2>1 DEF Post, FollowersOf
      <4>2. {<<u, t>> : u \in FollowersOf(t)} \subseteq Users \X New
        BY <4>1
      <4> QED
        BY <2>1, <4>2 DEF TypeOK, Post
    <3> QED
      BY <2>1, <3>1, <3>2 DEF TypeOK, Post, reading
  <2>2. CASE Remove(t)
    <3>1. status' \in [Messages -> D!Statuses]
      BY <2>2, MessageShape DEF TypeOK, Remove, D!Statuses
    <3> QED
      BY <2>2, <3>1 DEF TypeOK, Remove, reading, history
  <2> QED
    BY <1>2, <2>1, <2>2
<1>3. ASSUME NEW p \in Pairs, Meet(p) \/ Part(p) PROVE TypeOK'
  BY <1>3 DEF TypeOK, Meet, Part, reading, history
<1>4. ASSUME NEW m \in Messages, Handle(m) PROVE TypeOK'
  <2>1. CASE Carry(m)
    BY <2>1 DEF TypeOK, Carry, reading, history, D!Statuses
  <2>2. CASE Take(m)
    BY <2>2 DEF TypeOK, Take, reading, history, D!Statuses, Workers
  <2>3. CASE ReadFollowers(m)
    BY <2>3 DEF TypeOK, ReadFollowers, reading, history, Workers, Followers, FollowersOf
  <2>4. CASE Finish(m)
    <3>1. /\ home' \in [Users -> SUBSET Tweets]
          /\ expected' \subseteq Users \X New /\ overtaken' \subseteq New
      BY <2>4, ApplyTyped DEF Finish, TypeOK
    <3>2. named' \in [New -> Nat]
      <4>1. Cardinality(worker.targets) \in Nat
        BY HomeAssumption, FS_Subset, FS_CardinalityType DEF TypeOK, Workers
      <4> QED
        BY <2>4, <4>1 DEF Finish, TypeOK
    <3> QED
      BY <2>4, <3>1, <3>2 DEF TypeOK, Finish, reading, D!Statuses, Workers, Resting
  <2>5. CASE Fail(m)
    <3>1. /\ home' \in [Users -> SUBSET Tweets]
          /\ expected' \subseteq Users \X New /\ overtaken' \subseteq New
      BY <2>5, ApplyTyped DEF Fail, Cut
    <3> QED
      BY <2>5, <3>1 DEF TypeOK, Fail, reading, Workers, Resting
  <2> QED
    BY <1>4, <2>1, <2>2, <2>3, <2>4, <2>5 DEF Handle
<1>5. ASSUME NEW u \in Users, Expire(u) PROVE TypeOK'
  BY <1>5 DEF TypeOK, Expire, Written, writing, reading
<1>6. ASSUME NEW k \in Users, Rebuild(k) PROVE TypeOK'
  <2>1. CASE RebuildQuery(k)
    <3>1. PICK u \in rebuild[k].user :
            rebuild' = [rebuild EXCEPT ![k].stage = "queried", ![k].page = 0, ![k].size = 0,
              ![k].ids = OwnTweets({t \in rows : Author[t] = u}, rebuild[k].page, rebuild[k].size)]
      BY <2>1 DEF RebuildQuery
    <3>2. OwnTweets({t \in rows : Author[t] = u}, rebuild[k].page, rebuild[k].size) \in SUBSET Tweets
      BY DEF OwnTweets, TypeOK
    <3>3. rebuild[k] \in Rebuilds
      BY DEF TypeOK
    <3>4. rebuild' = [rebuild EXCEPT ![k] = [@ EXCEPT !.stage = "queried", !.page = 0, !.size = 0,
              !.ids = OwnTweets({t \in rows : Author[t] = u}, rebuild[k].page, rebuild[k].size)]]
      BY <3>1, <3>3 DEF TypeOK, Rebuilds
    <3>5. rebuild' \in [Users -> Rebuilds]
      BY <3>2, <3>3, <3>4 DEF TypeOK, Rebuilds
    <3> QED
      BY <2>1, <3>5 DEF TypeOK, RebuildQuery, writing, history
  <2>2. CASE RebuildDone(k)
    <3>1. PICK S \in Copies(rebuild[k].ids) :
            /\ fills' = IF S = {} THEN fills ELSE fills \cup {<<rebuild[k].user, S>>}
            /\ Told(k, S)
      BY <2>2 DEF RebuildDone
    <3>2. rebuild[k].user \in SUBSET Users /\ S \in SUBSET Tweets
      BY DEF TypeOK, Rebuilds, Copies
    <3>3. fills' \subseteq (SUBSET Users) \X (SUBSET Tweets)
      BY <3>1, <3>2 DEF TypeOK
    <3>4. reqs' \in [Clients -> Requests]
      BY <3>1, <3>2, ToldTyped
    <3>5. rebuild' \in [Users -> Rebuilds]
      BY <2>2, NoneTyped DEF TypeOK, RebuildDone
    <3> QED
      BY <2>2, <3>3, <3>4, <3>5 DEF TypeOK, RebuildDone, writing, history
  <2>3. CASE RebuildFail(k)
    <3>1. reqs' \in [Clients -> Requests]
      BY <2>3, ToldTyped DEF RebuildFail
    <3>2. rebuild' \in [Users -> Rebuilds]
      BY <2>3, NoneTyped DEF TypeOK, RebuildFail
    <3>3. faults' \in Nat
      BY <2>3 DEF TypeOK, RebuildFail, Fault
    <3> QED
      BY <2>3, <3>1, <3>2, <3>3 DEF TypeOK, RebuildFail, writing, history
  <2> QED
    BY <1>6, <2>1, <2>2, <2>3 DEF Rebuild
<1>7. ASSUME NEW w \in Wanted, Ask(w[1], w[2], w[3], w[4]) PROVE TypeOK'
  BY <1>7, AskTyped
<1>8. ASSUME NEW c \in Clients, GiveUp(c) \/ Fetch(c) PROVE TypeOK'
  <2>1. reqs[c] \in Requests
    BY DEF TypeOK
  <2>2. [reqs[c] EXCEPT !.stage = "fetch"] \in Requests
    BY <2>1 DEF Requests
  <2>3. reqs' \in [Clients -> Requests]
    BY <1>8, <2>2, NoneTyped DEF TypeOK, GiveUp, Fetch
  <2>4. faults' \in Nat
    BY <1>8 DEF TypeOK, GiveUp, Fetch, Fault
  <2> QED
    BY <1>8, <2>3, <2>4 DEF TypeOK, GiveUp, Fetch, writing, history
<1>9. ASSUME NEW k \in fills, Fill(k) PROVE TypeOK'
  <2>1. PICK u \in k[1], S \in SUBSET k[2] :
          IF S = k[2]
          THEN Written(home, [home EXCEPT ![u] = Newest(@ \cup S)]) /\ UNCHANGED faults
          ELSE Written(home, [home EXCEPT ![u] = @ \cup S]) /\ Fault
    BY <1>9 DEF Fill
  <2>2. u \in Users /\ S \in SUBSET Tweets
    BY <2>1 DEF TypeOK
  <2>3. Newest(home[u] \cup S) \in SUBSET Tweets /\ home[u] \cup S \in SUBSET Tweets
    BY <2>2 DEF Newest, TypeOK
  <2>4. home' \in [Users -> SUBSET Tweets] /\ expected' \subseteq expected /\ faults' \in Nat
    <3>1. expected' \subseteq expected
      BY <2>1 DEF Written
    <3>2. faults' \in Nat
      BY <2>1 DEF TypeOK, Fault
    <3>3. PICK T \in SUBSET Tweets : home' = [home EXCEPT ![u] = T]
      BY <2>1, <2>3 DEF Written
    <3> QED
      BY <2>2, <3>1, <3>2, <3>3 DEF TypeOK
  <2> QED
    BY <1>9, <2>4 DEF TypeOK, Fill, writing
<1>10. CASE Crash
  BY <1>10 DEF TypeOK, Crash, Fault, Resting, Workers, NoRebuild, Rebuilds, Idle, Requests,
     D!Statuses, history
<1> QED
  BY <1>1, <1>2, <1>3, <1>4, <1>5, <1>6, <1>7, <1>8, <1>9, <1>10 DEF Next

(* Every reachable state of HomeTimeline is well typed: a rebuild is only   *)
(* asked for what a short page lacks, so the size it is given is a natural. *)
THEOREM TypeCorrect == Spec => []TypeOK
BY InitTyped, TypeNext, PTL DEF Spec

-----------------------------------------------------------------------------
(* What the properties rest on. *)

(* Nothing is on the way about a tweet before it is posted, and a tweet    *)
(* whose deletion is has no row.                                           *)
Sent ==
  \A t \in New :
    /\ status[<<"create", t>>] = "unsent" =>
         t \notin rows /\ status[<<"delete", t>>] = "unsent"
    /\ status[<<"delete", t>>] # "unsent" => t \notin rows

Held == \A m \in worker.msg : status[m] = "taken"

(* Who expects a posted tweet follows its author. *)
ExpectedFollow ==
  \A x \in expected :
    <<x[1], Author[x[2]]>> \in following /\ status[<<"create", x[2]>>] # "unsent"

(* Whom the worker aims at has met the author; a push, at all who expect   *)
(* it; a recall, at all who have it but for the exceptions of              *)
(* RecallReaches.                                                          *)
TargetsMet == \A m \in worker.msg : \A u \in worker.targets : Met(u, m[2])

PushAimed ==
  \A m \in worker.msg : worker.stage = "write" /\ m[1] = "create" =>
    \A x \in expected : x[2] = m[2] => x[1] \in worker.targets

RecallAimed ==
  \A m \in worker.msg : worker.stage = "write" /\ m[1] = "delete" =>
    \A u \in Users : m[2] \in home[u] =>
      u \in worker.targets \/ u = Author[m[2]] \/ <<u, Author[m[2]]>> \in parted

(* Backfills and rebuilds carry tweets of the user they are for. *)
FillsOwn == \A k \in fills : \A u \in k[1] : k[2] \subseteq Mine(u)
RebuildsOwn ==
  \A k \in Users : rebuild[k].user \subseteq {k} /\ rebuild[k].ids \subseteq Mine(k)

WInv == TypeOK /\ Sent /\ Held
FInv == FillsOwn /\ RebuildsOwn

IInv ==
  /\ WInv /\ FInv /\ ExpectedFollow /\ TargetsMet /\ PushAimed /\ RecallAimed
  /\ PushReaches /\ RecallReaches /\ FeedOwned

(* Steps that leave what is below the timelines alone. *)
Reads ==
  \/ UNCHANGED vars
  \/ \E u \in Users : Expire(u) \/ Rebuild(u)
  \/ \E w \in Wanted : Ask(w[1], w[2], w[3], w[4])
  \/ \E c \in Clients : GiveUp(c) \/ Fetch(c)
  \/ \E k \in fills : Fill(k)

LEMMA Split ==
  ASSUME [Next]_vars
  PROVE  \/ Reads \/ Crash
         \/ \E t \in Tweets : Post(t) \/ Remove(t)
         \/ \E p \in Pairs : Meet(p) \/ Part(p)
         \/ \E m \in Messages : Handle(m)
BY DEF Next, Reads

LEMMA ReadsKeep ==
  ASSUME Reads
  PROVE  /\ UNCHANGED <<rows, status, nameless, following, worker, parted, overtaken, named>>
         /\ expected' \subseteq expected
<1>1. CASE UNCHANGED vars
  BY <1>1 DEF vars
<1>2. ASSUME NEW u \in Users, Expire(u) \/ Rebuild(u)
      PROVE  /\ UNCHANGED <<rows, status, nameless, following, worker, parted, overtaken, named>>
             /\ expected' \subseteq expected
  BY <1>2 DEF Expire, Rebuild, RebuildQuery, RebuildDone, RebuildFail, Written, writing, history
<1>3. ASSUME NEW w \in Wanted, Ask(w[1], w[2], w[3], w[4])
      PROVE  /\ UNCHANGED <<rows, status, nameless, following, worker, parted, overtaken, named>>
             /\ expected' \subseteq expected
  BY <1>3 DEF Ask, Turn, writing, history
<1>4. ASSUME NEW c \in Clients, GiveUp(c) \/ Fetch(c)
      PROVE  /\ UNCHANGED <<rows, status, nameless, following, worker, parted, overtaken, named>>
             /\ expected' \subseteq expected
  BY <1>4 DEF GiveUp, Fetch, writing, history
<1>5. ASSUME NEW k \in fills, Fill(k)
      PROVE  /\ UNCHANGED <<rows, status, nameless, following, worker, parted, overtaken, named>>
             /\ expected' \subseteq expected
  <2>1. UNCHANGED <<rows, status, nameless, following, worker, parted, overtaken, named>>
    BY <1>5 DEF Fill, writing
  <2>2. expected' \subseteq expected
    BY <1>5 DEF Fill, Written
  <2> QED
    BY <2>1, <2>2
<1> QED
  BY <1>1, <1>2, <1>3, <1>4, <1>5 DEF Reads

-----------------------------------------------------------------------------
(* Messages. *)

LEMMA SentNext == WInv /\ [Next]_vars => Sent'
<1> SUFFICES ASSUME TypeOK, Sent, Held, [Next]_vars PROVE Sent'
  BY DEF WInv
<1>1. CASE Reads
  BY <1>1, ReadsKeep DEF Sent
<1>2. CASE Crash
  BY <1>2, MessageShape DEF Crash, Sent, TypeOK
<1>3. ASSUME NEW t \in Tweets, Post(t) PROVE Sent'
  BY <1>3, MessageShape DEF Post, Sent, TypeOK
<1>4. ASSUME NEW t \in Tweets, Remove(t) PROVE Sent'
  BY <1>4, MessageShape DEF Remove, Sent, TypeOK
<1>5. ASSUME NEW p \in Pairs, Meet(p) \/ Part(p) PROVE Sent'
  BY <1>5 DEF Meet, Part, Sent
<1>6. ASSUME NEW m \in Messages, Handle(m) PROVE Sent'
  <2>1. rows' = rows
    BY <1>6 DEF Handle, Carry, Take, ReadFollowers, Finish, Fail
  <2>2. ASSUME NEW n \in Messages PROVE status'[n] = "unsent" <=> status[n] = "unsent"
    BY <1>6 DEF Handle, Carry, Take, ReadFollowers, Finish, Fail, TypeOK, Held
  <2> QED
    BY <2>1, <2>2, MessageShape DEF Sent
<1> QED
  BY <1>1, <1>2, <1>3, <1>4, <1>5, <1>6, Split

LEMMA HeldNext == WInv /\ [Next]_vars => Held'
<1> SUFFICES ASSUME TypeOK, Sent, Held, [Next]_vars PROVE Held'
  BY DEF WInv
<1>m. worker.msg \subseteq Messages
  BY DEF TypeOK, Workers
<1>1. CASE Reads
  BY <1>1, ReadsKeep DEF Held
<1>2. CASE Crash
  BY <1>2 DEF Crash, Held, Resting
<1>3. ASSUME NEW t \in Tweets, Post(t) PROVE Held'
  BY <1>3, <1>m, MessageShape DEF Post, Held, TypeOK
<1>4. ASSUME NEW t \in Tweets, Remove(t) PROVE Held'
  <2>1. status[<<"delete", t>>] = "unsent" /\ t \in New
    BY <1>4 DEF Remove, Sent
  <2> QED
    BY <1>4, <2>1, <1>m, MessageShape DEF Remove, Held, TypeOK
<1>5. ASSUME NEW p \in Pairs, Meet(p) \/ Part(p) PROVE Held'
  BY <1>5 DEF Meet, Part, Held
<1>6. ASSUME NEW m \in Messages, Handle(m) PROVE Held'
  <2>1. CASE Carry(m)
    BY <2>1, <1>m DEF Carry, Held, TypeOK
  <2>2. CASE Take(m)
    BY <2>2 DEF Take, TypeOK, Held
  <2>3. CASE ReadFollowers(m)
    BY <2>3 DEF ReadFollowers, Held, TypeOK, Workers
  <2>4. CASE Finish(m) \/ Fail(m)
    BY <2>4 DEF Finish, Fail, Resting, Held
  <2> QED
    BY <1>6, <2>1, <2>2, <2>3, <2>4 DEF Handle
<1> QED
  BY <1>1, <1>2, <1>3, <1>4, <1>5, <1>6, Split

LEMMA WNext == WInv /\ [Next]_vars => WInv'
BY TypeNext, SentNext, HeldNext DEF WInv

-----------------------------------------------------------------------------
(* Backfills and rebuilds. *)

LEMMA NoneOwn == NoRebuild.user = {} /\ NoRebuild.ids = {}
BY DEF NoRebuild

LEMMA OwnNext == TypeOK /\ FInv /\ [Next]_vars => FInv'
<1> SUFFICES ASSUME TypeOK, FillsOwn, RebuildsOwn, [Next]_vars
             PROVE  FillsOwn' /\ RebuildsOwn'
  BY DEF FInv
<1>1. CASE UNCHANGED <<fills, rebuild>>
  BY <1>1 DEF FillsOwn, RebuildsOwn, Mine
<1>2. CASE Crash
  BY <1>2, NoneOwn DEF Crash, FillsOwn, RebuildsOwn
<1>3. ASSUME NEW k \in fills, Fill(k) PROVE FillsOwn' /\ RebuildsOwn'
  BY <1>3 DEF Fill, FillsOwn, RebuildsOwn, Mine
<1>4. ASSUME NEW w \in Wanted, Ask(w[1], w[2], w[3], w[4]) PROVE FillsOwn' /\ RebuildsOwn'
  <2>1. w[2] \in Users /\ fills' = fills
    BY <1>4, HomeAssumption DEF Ask, Turn
  <2>2. \/ rebuild' = rebuild
        \/ \E n : rebuild' = [rebuild EXCEPT ![w[2]] =
                    [stage |-> "started", user |-> {w[2]}, page |-> w[3], size |-> n, ids |-> {}]]
    BY <1>4 DEF Ask, Turn, RebuildKey
  <2>3. RebuildsOwn'
    <3>1. CASE rebuild' = rebuild
      BY <3>1 DEF RebuildsOwn, Mine
    <3>2. CASE rebuild' # rebuild
      <4>1. /\ rebuild'[w[2]].user = {w[2]} /\ rebuild'[w[2]].ids = {}
            /\ \A v \in Users : v # w[2] => rebuild'[v] = rebuild[v]
        <5>1. PICK n : rebuild' = [rebuild EXCEPT ![w[2]] =
                [stage |-> "started", user |-> {w[2]}, page |-> w[3], size |-> n, ids |-> {}]]
          BY <2>2, <3>2
        <5>2. rebuild \in [Users -> Rebuilds]
          BY DEF TypeOK
        <5> HIDE <2>2
        <5> QED
          BY <2>1, <5>1, <5>2
      <4> QED
        BY <4>1 DEF RebuildsOwn, Mine
    <3> QED
      BY <3>1, <3>2
  <2> QED
    BY <2>1, <2>3 DEF FillsOwn, Mine
<1>5. ASSUME NEW k \in Users, Rebuild(k) PROVE FillsOwn' /\ RebuildsOwn'
  <2>1. CASE RebuildQuery(k)
    <3>1. PICK u \in rebuild[k].user :
            rebuild' = [rebuild EXCEPT ![k].stage = "queried", ![k].page = 0, ![k].size = 0,
              ![k].ids = OwnTweets({t \in rows : Author[t] = u}, rebuild[k].page, rebuild[k].size)]
      BY <2>1 DEF RebuildQuery
    <3>2. OwnTweets({t \in rows : Author[t] = u}, rebuild[k].page, rebuild[k].size) \subseteq Mine(k)
      BY DEF OwnTweets, TypeOK, Mine, RebuildsOwn
    <3>3. ASSUME NEW v \in Users, v # k PROVE rebuild'[v] = rebuild[v]
      BY <3>1, <3>3 DEF TypeOK
    <3>4. /\ rebuild'[k].user = rebuild[k].user
          /\ rebuild'[k].ids =
               OwnTweets({t \in rows : Author[t] = u}, rebuild[k].page, rebuild[k].size)
      <4>1. rebuild[k] \in Rebuilds
        BY DEF TypeOK
      <4> QED
        BY <3>1, <4>1 DEF TypeOK, Rebuilds
    <3>5. RebuildsOwn'
      BY <3>2, <3>3, <3>4 DEF RebuildsOwn, Mine
    <3>6. fills' = fills
      BY <2>1 DEF RebuildQuery
    <3> QED
      BY <3>5, <3>6 DEF FillsOwn, Mine
  <2>2. CASE RebuildDone(k)
    <3>1. RebuildsOwn'
      BY <2>2, NoneOwn DEF RebuildDone, RebuildsOwn, TypeOK, Mine
    <3>2. PICK S \in SUBSET rebuild[k].ids :
            fills' = IF S = {} THEN fills ELSE fills \cup {<<rebuild[k].user, S>>}
      BY <2>2 DEF RebuildDone, Copies
    <3> QED
      BY <3>1, <3>2 DEF FillsOwn, RebuildsOwn, Mine
  <2>3. CASE RebuildFail(k)
    BY <2>3, NoneOwn DEF RebuildFail, RebuildsOwn, FillsOwn, TypeOK, Mine
  <2> QED
    BY <1>5, <2>1, <2>2, <2>3 DEF Rebuild
<1>6. ASSUME NEW m \in Messages, Handle(m) PROVE UNCHANGED <<fills, rebuild>>
  BY <1>6 DEF Handle, Carry, Take, ReadFollowers, Finish, Fail, reading
<1>7. ASSUME NEW t \in Tweets, Post(t) \/ Remove(t) PROVE UNCHANGED <<fills, rebuild>>
  BY <1>7 DEF Post, Remove, reading
<1>8. ASSUME NEW p \in Pairs, Meet(p) \/ Part(p) PROVE UNCHANGED <<fills, rebuild>>
  BY <1>8 DEF Meet, Part, reading
<1>9. ASSUME NEW u \in Users, Expire(u) PROVE UNCHANGED <<fills, rebuild>>
  BY <1>9 DEF Expire, reading
<1>10. ASSUME NEW c \in Clients, GiveUp(c) \/ Fetch(c) PROVE UNCHANGED <<fills, rebuild>>
  BY <1>10 DEF GiveUp, Fetch
<1> QED
  BY <1>1, <1>2, <1>3, <1>4, <1>5, <1>6, <1>7, <1>8, <1>9, <1>10 DEF Next, vars

-----------------------------------------------------------------------------
(* Timelines: what they gain and lose in a step. *)

(* Apply's effect, one timeline at a time. *)
LEMMA ApplyEffect ==
  ASSUME TypeOK, NEW m \in Messages, NEW S, NEW R, Apply(m, S, R), NEW u \in Users
  PROVE  /\ m[1] = "create" =>
              /\ \A t \in home'[u] : t \in home[u] \/ (t = m[2] /\ u \in S)
              /\ \A t \in home[u] \ home'[u] : <<u, t>> \notin expected'
              /\ u \in S /\ m[2] \notin home'[u] => <<u, m[2]>> \notin expected'
              /\ status[<<"delete", m[2]>>] \in {"taken", "done"} => m[2] \in overtaken'
         /\ m[1] = "delete" =>
              /\ home'[u] \subseteq home[u] /\ \A t \in home[u] \ home'[u] : t = m[2]
              /\ u \in S => m[2] \notin home'[u]
         /\ expected' \subseteq expected /\ overtaken \subseteq overtaken'
<1>1. m[1] = "create" \/ m[1] = "delete"
  BY MessageShape
<1>2. CASE m[1] = "create"
  <2>1. /\ home' = Pushed(m[2], S, R)
        /\ expected' = {x \in expected :
             x[2] \notin Added(m[2], S)[x[1]] \ Pushed(m[2], S, R)[x[1]]}
    BY <1>2 DEF Apply, Written
  <2>2. Added(m[2], S)[u] = IF u \in S THEN home[u] \cup {m[2]} ELSE home[u]
    BY DEF Added
  <2>3. home'[u] \subseteq Added(m[2], S)[u]
    BY <2>1, <2>2 DEF Pushed, Newest
  <2>4. ASSUME NEW t \in Added(m[2], S)[u], t \notin home'[u] PROVE <<u, t>> \notin expected'
    BY <2>1, <2>4
  <2>5. status[<<"delete", m[2]>>] \in {"taken", "done"} => m[2] \in overtaken'
    BY <1>2 DEF Apply
  <2>6. expected' \subseteq expected /\ overtaken \subseteq overtaken'
    BY <1>2, <2>1 DEF Apply
  <2> QED
    BY <1>2, <2>2, <2>3, <2>4, <2>5, <2>6
<1>3. CASE m[1] = "delete"
  BY <1>3 DEF Apply, Recalled
<1> QED
  BY <1>1, <1>2, <1>3

LEMMA FillEffect ==
  ASSUME TypeOK, FillsOwn, NEW k \in fills, Fill(k), NEW u \in Users
  PROVE  /\ home'[u] \subseteq home[u] \cup Mine(u)
         /\ \A t \in home[u] \ home'[u] : <<u, t>> \notin expected'
<1>0. PICK v \in k[1], S \in SUBSET k[2] :
         \E T : /\ T = IF S = k[2] THEN Newest(home[v] \cup S) ELSE home[v] \cup S
                /\ Written(home, [home EXCEPT ![v] = T])
  BY DEF Fill
<1>1. PICK T : /\ T = IF S = k[2] THEN Newest(home[v] \cup S) ELSE home[v] \cup S
               /\ Written(home, [home EXCEPT ![v] = T])
  BY <1>0
<1>2. v \in Users /\ S \subseteq Mine(v) /\ T \subseteq home[v] \cup S
  BY <1>0, <1>1 DEF FillsOwn, TypeOK, Newest
<1>3. home'[u] = IF u = v THEN T ELSE home[u]
  BY <1>1, <1>2 DEF Written, TypeOK
<1>4. expected' = {x \in expected : x[2] \notin home[x[1]] \ home'[x[1]]}
  BY <1>1 DEF Written
<1> QED
  BY <1>2, <1>3, <1>4

LEMMA ExpireEffect ==
  ASSUME TypeOK, NEW v \in Users, Expire(v), NEW u \in Users
  PROVE  /\ home'[u] \subseteq home[u]
         /\ \A t \in home[u] \ home'[u] : <<u, t>> \notin expected'
<1>1. home'[u] = IF u = v THEN {} ELSE home[u]
  BY DEF Expire, Written, TypeOK
<1>2. expected' = {x \in expected : x[2] \notin home[x[1]] \ home'[x[1]]}
  BY DEF Expire, Written
<1> QED
  BY <1>1, <1>2

(* Every other step leaves them alone. *)
LEMMA HomeSteps ==
  ASSUME [Next]_vars, home' # home
  PROVE  \/ \E m \in Messages : Finish(m) \/ Fail(m)
         \/ \E k \in fills : Fill(k)
         \/ \E u \in Users : Expire(u)
<1>1. ASSUME NEW t \in Tweets, Post(t) \/ Remove(t) PROVE FALSE
  BY <1>1 DEF Post, Remove
<1>2. ASSUME NEW p \in Pairs, Meet(p) \/ Part(p) PROVE FALSE
  BY <1>2 DEF Meet, Part
<1>3. ASSUME NEW m \in Messages, Carry(m) \/ Take(m) \/ ReadFollowers(m) PROVE FALSE
  BY <1>3 DEF Carry, Take, ReadFollowers
<1>4. ASSUME NEW u \in Users, Rebuild(u) PROVE FALSE
  BY <1>4 DEF Rebuild, RebuildQuery, RebuildDone, RebuildFail
<1>5. ASSUME NEW w \in Wanted, Ask(w[1], w[2], w[3], w[4]) PROVE FALSE
  BY <1>5 DEF Ask, Turn
<1>6. ASSUME NEW c \in Clients, GiveUp(c) \/ Fetch(c) PROVE FALSE
  BY <1>6 DEF GiveUp, Fetch
<1>7. CASE Crash
  BY <1>7 DEF Crash
<1>8. CASE UNCHANGED vars
  BY <1>8 DEF vars
<1> QED
  BY <1>1, <1>2, <1>3, <1>4, <1>5, <1>6, <1>7, <1>8 DEF Next, Handle

(* Who finishes or fails has written to some of its targets or to nobody. *)
LEMMA WritesOf ==
  ASSUME NEW m \in Messages, Finish(m) \/ Fail(m)
  PROVE  /\ worker.msg = {m} /\ worker' = Resting
         /\ \/ UNCHANGED <<home, expected, overtaken>>
            \/ \E S, R \in SUBSET worker.targets : Apply(m, S, R)
         /\ UNCHANGED <<rows, nameless, following, parted>>
<1>1. ASSUME NEW S \in Batches(worker.targets) PROVE S \in SUBSET worker.targets
  BY DEF Batches
<1> QED
  BY <1>1 DEF Finish, Fail, Cut

-----------------------------------------------------------------------------
(* Who expects, and whom the worker aims at. *)

LEMMA HeldShape ==
  ASSUME WInv, NEW m \in worker.msg
  PROVE  /\ m \in Messages /\ worker.msg = {m} /\ status[m] = "taken"
         /\ m[2] \in New /\ m[2] \in Tweets /\ status[m] # "unsent"
BY MessageShape DEF WInv, TypeOK, Workers, Held

LEMMA ExpectedNext == WInv /\ ExpectedFollow /\ [Next]_vars => ExpectedFollow'
<1> SUFFICES ASSUME WInv, ExpectedFollow, [Next]_vars PROVE ExpectedFollow'
  OBVIOUS
<1>t. TypeOK /\ \A x \in expected : x[2] \in New /\ <<"create", x[2]>> \in Messages
  BY MessageShape DEF WInv, TypeOK
<1>1. CASE Reads
  BY <1>1, ReadsKeep DEF ExpectedFollow
<1>2. CASE Crash
  BY <1>2, <1>t DEF Crash, ExpectedFollow, history
<1>3. ASSUME NEW t \in Tweets, Post(t) PROVE ExpectedFollow'
  <2>1. t \in New /\ <<"create", t>> \in Messages /\ following' = following
    BY <1>3, MessageShape DEF Post
  <2>2. ASSUME NEW n \in Messages, status[n] # "unsent" \/ n = <<"create", t>>
        PROVE  status'[n] # "unsent"
    BY <1>3, <1>t, <2>1, <2>2 DEF Post, TypeOK
  <2>3. ASSUME NEW x \in expected' PROVE <<x[1], Author[x[2]]>> \in following
                                         /\ status'[<<"create", x[2]>>] # "unsent"
    <3>1. CASE x \in expected
      BY <3>1, <1>t, <2>2 DEF ExpectedFollow
    <3>2. CASE x \notin expected
      <4>1. PICK u \in FollowersOf(t) : x = <<u, t>>
        BY <1>3, <3>2 DEF Post
      <4> QED
        BY <4>1, <2>1, <2>2 DEF FollowersOf
    <3> QED
      BY <3>1, <3>2
  <2> QED
    BY <2>1, <2>3 DEF ExpectedFollow
<1>4. ASSUME NEW t \in Tweets, Remove(t) PROVE ExpectedFollow'
  BY <1>4, <1>t DEF Remove, ExpectedFollow, history, TypeOK
<1>5. ASSUME NEW p \in Pairs, Meet(p) PROVE ExpectedFollow'
  BY <1>5 DEF Meet, ExpectedFollow, history
<1>6. ASSUME NEW p \in Pairs, Part(p) PROVE ExpectedFollow'
  BY <1>6 DEF Part, ExpectedFollow
<1>7. ASSUME NEW m \in Messages, Handle(m) PROVE ExpectedFollow'
  <2>1. expected' \subseteq expected /\ following' = following
    <3>1. CASE Carry(m) \/ Take(m) \/ ReadFollowers(m)
      BY <3>1 DEF Carry, Take, ReadFollowers, history
    <3>2. CASE Finish(m) \/ Fail(m)
      <4>1. ASSUME NEW S, NEW R, Apply(m, S, R) PROVE expected' \subseteq expected
        BY <4>1 DEF Apply, Written
      <4> QED
        BY <3>2, <4>1, WritesOf
    <3> QED
      BY <1>7, <3>1, <3>2 DEF Handle
  <2>2. ASSUME NEW n \in Messages, status[n] # "unsent" PROVE status'[n] # "unsent"
    BY <1>7, <1>t, <2>2 DEF Handle, Carry, Take, ReadFollowers, Finish, Fail, TypeOK
  <2> QED
    BY <1>t, <2>1, <2>2 DEF ExpectedFollow
<1> QED
  BY <1>1, <1>2, <1>3, <1>4, <1>5, <1>6, <1>7, Split

(* Relations known stay known. *)
LEMMA MetStays ==
  ASSUME [Next]_vars
  PROVE  following \cup parted \subseteq following' \cup parted' /\ parted \subseteq parted'
<1>1. CASE Reads
  BY <1>1, ReadsKeep
<1>2. CASE Crash
  BY <1>2 DEF Crash, history
<1>3. ASSUME NEW t \in Tweets, Post(t) \/ Remove(t) PROVE UNCHANGED <<following, parted>>
  BY <1>3 DEF Post, Remove, history
<1>4. ASSUME NEW p \in Pairs, Meet(p)
      PROVE following \cup parted \subseteq following' \cup parted' /\ parted \subseteq parted'
  BY <1>4 DEF Meet, history
<1>5. ASSUME NEW p \in Pairs, Part(p)
      PROVE following \cup parted \subseteq following' \cup parted' /\ parted \subseteq parted'
  BY <1>5 DEF Part
<1>6. ASSUME NEW m \in Messages, Handle(m) PROVE UNCHANGED <<following, parted>>
  BY <1>6, WritesOf DEF Handle, Carry, Take, ReadFollowers, history
<1> QED
  BY <1>1, <1>2, <1>3, <1>4, <1>5, <1>6, Split

(* What the worker does between two steps. *)
LEMMA WorkerSteps ==
  ASSUME WInv, [Next]_vars
  PROVE  \/ worker' = worker
         \/ worker'.msg = {}
         \/ worker'.targets = {} /\ worker'.stage = "read"
         \/ \E m \in Messages :
              /\ ReadFollowers(m) /\ worker'.msg = {m} /\ worker'.stage = "write"
              /\ worker'.targets = FollowersOf(m[2])
<1>1. CASE Reads
  BY <1>1, ReadsKeep
<1>2. CASE Crash
  BY <1>2 DEF Crash, Resting
<1>3. ASSUME NEW t \in Tweets, Post(t) \/ Remove(t) PROVE worker' = worker
  BY <1>3 DEF Post, Remove
<1>4. ASSUME NEW p \in Pairs, Meet(p) \/ Part(p) PROVE worker' = worker
  BY <1>4 DEF Meet, Part
<1>5. ASSUME NEW m \in Messages, Handle(m)
      PROVE  \/ worker' = worker
             \/ worker'.msg = {}
             \/ worker'.targets = {} /\ worker'.stage = "read"
             \/ /\ ReadFollowers(m) /\ worker'.msg = {m} /\ worker'.stage = "write"
                /\ worker'.targets = FollowersOf(m[2])
  <2>1. CASE Carry(m)
    BY <2>1 DEF Carry
  <2>2. CASE Take(m)
    BY <2>2 DEF Take
  <2>3. CASE ReadFollowers(m)
    <3>1. worker \in Workers
      BY DEF WInv, TypeOK
    <3> QED
      BY <2>3, <3>1 DEF ReadFollowers, Workers, Followers
  <2>4. CASE Finish(m) \/ Fail(m)
    BY <2>4, WritesOf DEF Resting
  <2> QED
    BY <1>5, <2>1, <2>2, <2>3, <2>4 DEF Handle
<1> QED
  BY <1>1, <1>2, <1>3, <1>4, <1>5, Split

LEMMA TargetsNext == WInv /\ TargetsMet /\ [Next]_vars => TargetsMet'
<1> SUFFICES ASSUME WInv, TargetsMet, [Next]_vars PROVE TargetsMet'
  OBVIOUS
<1>1. CASE worker' = worker
  BY <1>1, MetStays DEF TargetsMet, Met
<1>2. CASE worker'.msg = {} \/ worker'.targets = {}
  BY <1>2 DEF TargetsMet
<1>3. ASSUME NEW m \in Messages, ReadFollowers(m), worker'.msg = {m},
             worker'.targets = FollowersOf(m[2])
      PROVE  TargetsMet'
  BY <1>3, MetStays DEF TargetsMet, Met, FollowersOf
<1> QED
  BY <1>1, <1>2, <1>3, WorkerSteps

(* What is expected of a tweet the worker has, was expected before. *)
LEMMA HeldExpected ==
  ASSUME WInv, [Next]_vars, NEW m \in worker.msg, m[1] = "create", NEW x \in expected', x[2] = m[2]
  PROVE  x \in expected
<1>1. m = <<"create", m[2]>> /\ status[m] # "unsent"
  BY HeldShape, MessageShape
<1>2. ASSUME NEW t \in Tweets, Post(t) PROVE x \in expected
  <2>1. t # m[2]
    BY <1>1, <1>2 DEF Post
  <2> QED
    BY <1>2, <2>1 DEF Post
<1>3. CASE Reads
  BY <1>3, ReadsKeep
<1>4. CASE Crash
  BY <1>4 DEF Crash, history
<1>5. ASSUME NEW t \in Tweets, Remove(t) PROVE x \in expected
  BY <1>5 DEF Remove, history
<1>6. ASSUME NEW p \in Pairs, Meet(p) \/ Part(p) PROVE x \in expected
  BY <1>6 DEF Meet, Part, history
<1>7. ASSUME NEW n \in Messages, Handle(n) PROVE x \in expected
  <2>1. CASE Carry(n) \/ Take(n) \/ ReadFollowers(n)
    BY <2>1 DEF Carry, Take, ReadFollowers, history
  <2>2. CASE Finish(n) \/ Fail(n)
    <3>1. ASSUME NEW S, NEW R, Apply(n, S, R) PROVE expected' \subseteq expected
      BY <3>1 DEF Apply, Written
    <3> QED
      BY <2>2, <3>1, WritesOf
  <2> QED
    BY <1>7, <2>1, <2>2 DEF Handle
<1> QED
  BY <1>2, <1>3, <1>4, <1>5, <1>6, <1>7, Split

LEMMA PushAimedNext == WInv /\ ExpectedFollow /\ PushAimed /\ [Next]_vars => PushAimed'
<1> SUFFICES ASSUME WInv, ExpectedFollow, PushAimed, [Next]_vars PROVE PushAimed'
  OBVIOUS
<1>1. CASE worker' = worker
  BY <1>1, HeldExpected DEF PushAimed
<1>2. CASE worker'.msg = {} \/ worker'.stage = "read"
  BY <1>2 DEF PushAimed
<1>3. ASSUME NEW m \in Messages, ReadFollowers(m), worker'.msg = {m},
             worker'.targets = FollowersOf(m[2])
      PROVE  PushAimed'
  <2>1. expected' = expected /\ expected \subseteq Users \X New
    BY <1>3 DEF ReadFollowers, history, WInv, TypeOK
  <2>2. ASSUME NEW x \in expected, x[2] = m[2] PROVE x[1] \in FollowersOf(m[2])
    BY <2>1, <2>2 DEF FollowersOf, ExpectedFollow
  <2> QED
    BY <1>3, <2>1, <2>2 DEF PushAimed
<1> QED
  BY <1>1, <1>2, <1>3, WorkerSteps

LEMMA RecallAimedNext ==
  WInv /\ FInv /\ RecallAimed /\ FeedOwned /\ [Next]_vars => RecallAimed'
<1> SUFFICES ASSUME WInv, FInv, RecallAimed, FeedOwned, [Next]_vars,
                    NEW m \in worker'.msg, worker'.stage = "write", m[1] = "delete",
                    NEW u \in Users, m[2] \in home'[u],
                    u # Author[m[2]], <<u, Author[m[2]]>> \notin parted'
             PROVE  u \in worker'.targets
  BY DEF RecallAimed
<1>1. <<u, Author[m[2]]>> \notin parted
  BY MetStays
<1>2. CASE worker' = worker
  <2>1. m[2] \in Tweets
    BY <1>2, HeldShape
  <2>2. m[2] \in home[u]
    <3>1. ASSUME NEW n \in Messages, Finish(n) \/ Fail(n) PROVE FALSE
      BY <3>1, <1>2, WritesOf DEF Resting
    <3>2. ASSUME NEW k \in fills, Fill(k) PROVE m[2] \in home[u]
      BY <3>2, FillEffect DEF WInv, FInv, Mine
    <3>3. ASSUME NEW v \in Users, Expire(v) PROVE m[2] \in home[u]
      BY <3>3, ExpireEffect DEF WInv
    <3> QED
      BY <3>1, <3>2, <3>3, HomeSteps
  <2> QED
    BY <1>1, <1>2, <2>2 DEF RecallAimed
<1>3. ASSUME NEW n \in Messages, ReadFollowers(n), worker'.msg = {n},
             worker'.targets = FollowersOf(n[2])
      PROVE  u \in worker'.targets
  <2>1. m = n /\ m[2] \in home[u]
    BY <1>3 DEF ReadFollowers
  <2>2. <<u, Author[m[2]]>> \in following
    BY <1>1, <2>1 DEF FeedOwned
  <2> QED
    BY <1>3, <2>1, <2>2 DEF FollowersOf
<1> QED
  BY <1>2, <1>3, WorkerSteps

-----------------------------------------------------------------------------
(* The properties. *)

(* Whose status becomes done is handled in this step. *)
LEMMA DoneBy ==
  ASSUME WInv, [Next]_vars, NEW m \in Messages, status'[m] = "done", status[m] # "done"
  PROVE  Finish(m)
<1>t. status \in [Messages -> D!Statuses]
  BY DEF WInv, TypeOK
<1>1. CASE Reads
  BY <1>1, ReadsKeep
<1>2. CASE Crash
  BY <1>2, <1>t DEF Crash
<1>3. ASSUME NEW t \in Tweets, Post(t) \/ Remove(t) PROVE FALSE
  BY <1>3, <1>t, MessageShape DEF Post, Remove
<1>4. ASSUME NEW p \in Pairs, Meet(p) \/ Part(p) PROVE FALSE
  BY <1>4 DEF Meet, Part
<1>5. ASSUME NEW n \in Messages, Handle(n) PROVE Finish(m)
  <2>1. CASE Carry(n)
    BY <2>1, <1>t DEF Carry
  <2>2. CASE Take(n)
    BY <2>2, <1>t DEF Take
  <2>3. CASE ReadFollowers(n) \/ Fail(n)
    BY <2>3 DEF ReadFollowers, Fail
  <2>4. CASE Finish(n)
    BY <2>4, <1>t DEF Finish
  <2> QED
    BY <1>5, <2>1, <2>2, <2>3, <2>4 DEF Handle
<1> QED
  BY <1>1, <1>2, <1>3, <1>4, <1>5, Split

(* Rows appear by a post, and then nothing is done about them. *)
LEMMA RowsKept ==
  ASSUME WInv, [Next]_vars, NEW t \in New, t \in rows', status'[<<"create", t>>] # "accepted"
  PROVE  t \in rows
<1>1. CASE Reads
  BY <1>1, ReadsKeep
<1>2. CASE Crash
  BY <1>2 DEF Crash
<1>3. ASSUME NEW s \in Tweets, Post(s) PROVE t \in rows
  BY <1>3, MessageShape DEF Post, WInv, TypeOK
<1>4. ASSUME NEW s \in Tweets, Remove(s) PROVE t \in rows
  BY <1>4 DEF Remove
<1>5. ASSUME NEW p \in Pairs, Meet(p) \/ Part(p) PROVE t \in rows
  BY <1>5 DEF Meet, Part
<1>6. ASSUME NEW m \in Messages, Handle(m) PROVE t \in rows
  BY <1>6 DEF Handle, Carry, Take, ReadFollowers, Finish, Fail
<1> QED
  BY <1>1, <1>2, <1>3, <1>4, <1>5, <1>6, Split

(* And the post's message is then accepted, so nobody is expected of it    *)
(* whose push is done, but who was before.                                 *)
LEMMA ExpectedKept ==
  ASSUME WInv, [Next]_vars, NEW x \in expected', status'[<<"create", x[2]>>] # "accepted"
  PROVE  x \in expected
<1>1. ASSUME NEW t \in Tweets, Post(t) PROVE x \in expected
  <2>1. status'[<<"create", t>>] = "accepted"
    BY <1>1, MessageShape DEF Post, WInv, TypeOK
  <2>2. x[2] # t
    BY <2>1
  <2> QED
    BY <1>1, <2>2 DEF Post
<1>2. CASE Reads
  BY <1>2, ReadsKeep
<1>3. CASE Crash
  BY <1>3 DEF Crash, history
<1>4. ASSUME NEW t \in Tweets, Remove(t) PROVE x \in expected
  BY <1>4 DEF Remove, history
<1>5. ASSUME NEW p \in Pairs, Meet(p) \/ Part(p) PROVE x \in expected
  BY <1>5 DEF Meet, Part, history
<1>6. ASSUME NEW n \in Messages, Handle(n) PROVE x \in expected
  <2>1. CASE Carry(n) \/ Take(n) \/ ReadFollowers(n)
    BY <2>1 DEF Carry, Take, ReadFollowers, history
  <2>2. CASE Finish(n) \/ Fail(n)
    <3>1. ASSUME NEW S, NEW R, Apply(n, S, R) PROVE expected' \subseteq expected
      BY <3>1 DEF Apply, Written
    <3> QED
      BY <2>2, <3>1, WritesOf
  <2> QED
    BY <1>6, <2>1, <2>2 DEF Handle
<1> QED
  BY <1>1, <1>2, <1>3, <1>4, <1>5, <1>6, Split

(* A tweet that exists leaves the timeline of one who expects it only so   *)
(* that he no longer does: recalls are of tweets that do not exist.        *)
LEMMA HomeKept ==
  ASSUME WInv, FInv, [Next]_vars, NEW u \in Users, NEW t \in home[u] \ home'[u], t \in rows
  PROVE  <<u, t>> \notin expected'
<1>1. ASSUME NEW m \in Messages, Finish(m) \/ Fail(m) PROVE <<u, t>> \notin expected'
  <2>1. PICK S, R \in SUBSET worker.targets : Apply(m, S, R)
    BY <1>1, WritesOf
  <2>2. CASE m[1] = "create"
    BY <2>1, <2>2, ApplyEffect DEF WInv
  <2>3. CASE m[1] = "delete"
    <3>1. t = m[2]
      BY <2>1, <2>3, ApplyEffect DEF WInv
    <3>2. m \in worker.msg /\ m = <<"delete", t>>
      BY <1>1, <2>3, <3>1, WritesOf, MessageShape
    <3> QED
      BY <3>1, <3>2, HeldShape DEF WInv, Sent
  <2> QED
    BY <2>2, <2>3, MessageShape
<1>2. ASSUME NEW k \in fills, Fill(k) PROVE <<u, t>> \notin expected'
  BY <1>2, FillEffect DEF WInv, FInv
<1>3. ASSUME NEW v \in Users, Expire(v) PROVE <<u, t>> \notin expected'
  BY <1>3, ExpireEffect DEF WInv
<1> QED
  BY <1>1, <1>2, <1>3, HomeSteps

(* What a timeline gains was pushed to its owner, or is his own. *)
LEMMA HomeGains ==
  ASSUME WInv, FInv, [Next]_vars, NEW u \in Users, NEW t \in home'[u] \ home[u]
  PROVE  \/ t \in Mine(u)
         \/ /\ <<"create", t>> \in worker.msg /\ u \in worker.targets
            /\ status[<<"delete", t>>] \in {"taken", "done"} => t \in overtaken'
<1>1. ASSUME NEW m \in Messages, Finish(m) \/ Fail(m)
      PROVE  /\ <<"create", t>> \in worker.msg /\ u \in worker.targets
             /\ status[<<"delete", t>>] \in {"taken", "done"} => t \in overtaken'
  <2>1. PICK S, R \in SUBSET worker.targets : Apply(m, S, R)
    BY <1>1, WritesOf
  <2>2. m[1] = "create"
    BY <2>1, ApplyEffect, MessageShape DEF WInv
  <2>3. t = m[2] /\ u \in S
    BY <2>1, <2>2, ApplyEffect DEF WInv
  <2>4. m = <<"create", t>> /\ m \in worker.msg
    BY <1>1, <2>2, <2>3, WritesOf, MessageShape
  <2> QED
    BY <2>1, <2>2, <2>3, <2>4, ApplyEffect DEF WInv
<1>2. ASSUME NEW k \in fills, Fill(k) PROVE t \in Mine(u)
  BY <1>2, FillEffect DEF WInv, FInv
<1>3. ASSUME NEW v \in Users, Expire(v) PROVE FALSE
  BY <1>3, ExpireEffect DEF WInv
<1> QED
  BY <1>1, <1>2, <1>3, HomeSteps

LEMMA PushNext ==
  WInv /\ FInv /\ PushAimed /\ PushReaches /\ [Next]_vars => PushReaches'
<1> SUFFICES ASSUME WInv, FInv, PushAimed, PushReaches, [Next]_vars,
                    NEW x \in expected', status'[<<"create", x[2]>>] = "done", x[2] \in rows'
             PROVE  x[2] \in home'[x[1]]
  BY DEF PushReaches
<1> DEFINE m == <<"create", x[2]>>
<1>1. x \in expected
  BY ExpectedKept
<1>2. x = <<x[1], x[2]>> /\ x[1] \in Users /\ x[2] \in New /\ m \in Messages
  <2>1. x \in Users \X New
    BY <1>1 DEF WInv, TypeOK
  <2>2. x = <<x[1], x[2]>> /\ x[1] \in Users /\ x[2] \in New
    BY <2>1
  <2> QED
    BY <2>2, MessageShape
<1>3. x[2] \in rows
  BY <1>2, RowsKept
<1>4. CASE status[m] = "done"
  BY <1>1, <1>2, <1>3, <1>4, HomeKept DEF PushReaches
<1>5. CASE status[m] # "done"
  <2>1. Finish(m)
    BY <1>2, <1>5, DoneBy
  <2>2. m[1] = "create" /\ m[2] = x[2]
    OBVIOUS
  <2>3. worker.stage = "write" /\ Apply(m, worker.targets, {})
    BY <2>1, <2>2 DEF Finish, Malformed
  <2>4. x[1] \in worker.targets
    <3>1. m \in worker.msg
      BY <1>2, <2>1, WritesOf
    <3> HIDE DEF m
    <3> QED
      BY <1>1, <2>2, <2>3, <3>1 DEF PushAimed
  <2>5. x[1] \in worker.targets /\ m[2] \notin home'[x[1]] => <<x[1], m[2]>> \notin expected'
    <3>1. TypeOK /\ m \in Messages /\ m[1] = "create"
      BY <1>2, <2>2 DEF WInv
    <3> HIDE DEF m
    <3>2. \A u \in Users : u \in worker.targets /\ m[2] \notin home'[u] =>
                           <<u, m[2]>> \notin expected'
      BY <2>3, <3>1, ApplyEffect
    <3> QED
      BY <1>2, <3>2
  <2> QED
    BY <1>2, <2>2, <2>4, <2>5
<1> QED
  BY <1>4, <1>5

(* What a recall was to reach is noted when it is done, and only then.     *)
LEMMA NamedKept ==
  ASSUME WInv, [Next]_vars, NEW t \in New, status[<<"delete", t>>] = "done"
  PROVE  named'[t] = named[t]
<1>1. CASE Reads
  BY <1>1, ReadsKeep
<1>2. CASE Crash
  BY <1>2 DEF Crash, history
<1>3. ASSUME NEW s \in Tweets, Post(s) \/ Remove(s) PROVE named' = named
  BY <1>3 DEF Post, Remove, history
<1>4. ASSUME NEW p \in Pairs, Meet(p) \/ Part(p) PROVE named' = named
  BY <1>4 DEF Meet, Part, history
<1>5. ASSUME NEW m \in Messages, Handle(m) PROVE named'[t] = named[t]
  <2>1. CASE Carry(m) \/ Take(m) \/ ReadFollowers(m) \/ Fail(m)
    BY <2>1 DEF Carry, Take, ReadFollowers, Fail, history
  <2>2. CASE Finish(m)
    <3>1. m \in worker.msg /\ status[m] = "taken"
      BY <2>2, WritesOf DEF WInv, Held
    <3>2. m[1] = "create" \/ m[2] # t
      BY <3>1, MessageShape
    <3> QED
      BY <2>2, <3>2 DEF Finish, WInv, TypeOK
  <2> QED
    BY <1>5, <2>1, <2>2 DEF Handle
<1> QED
  BY <1>1, <1>2, <1>3, <1>4, <1>5, Split

(* What is not named or overtaken after a step was not before. *)
LEMMA FlawsStay ==
  ASSUME WInv, [Next]_vars
  PROVE  nameless \subseteq nameless' /\ overtaken \subseteq overtaken'
<1>1. CASE Reads
  BY <1>1, ReadsKeep
<1>2. CASE Crash
  BY <1>2 DEF Crash, history
<1>3. ASSUME NEW t \in Tweets, Post(t) \/ Remove(t)
      PROVE nameless \subseteq nameless' /\ overtaken \subseteq overtaken'
  BY <1>3 DEF Post, Remove, history
<1>4. ASSUME NEW p \in Pairs, Meet(p) \/ Part(p) PROVE UNCHANGED <<nameless, overtaken>>
  BY <1>4 DEF Meet, Part, history
<1>5. ASSUME NEW m \in Messages, Handle(m)
      PROVE nameless \subseteq nameless' /\ overtaken \subseteq overtaken'
  <2>1. CASE Carry(m) \/ Take(m) \/ ReadFollowers(m)
    BY <2>1 DEF Carry, Take, ReadFollowers, history
  <2>2. CASE Finish(m) \/ Fail(m)
    <3>1. ASSUME NEW S, NEW R, Apply(m, S, R) PROVE overtaken \subseteq overtaken'
      BY <3>1 DEF Apply
    <3> QED
      BY <2>2, <3>1, WritesOf
  <2> QED
    BY <1>5, <2>1, <2>2 DEF Handle
<1> QED
  BY <1>1, <1>2, <1>3, <1>4, <1>5, Split

LEMMA RecallNext ==
  WInv /\ FInv /\ RecallAimed /\ RecallReaches /\ [Next]_vars => RecallReaches'
<1> SUFFICES ASSUME WInv, FInv, RecallAimed, RecallReaches, [Next]_vars,
                    NEW t \in New \ (nameless' \cup overtaken'),
                    status'[<<"delete", t>>] = "done"
             PROVE  Kept(t)' = {} \/ Cardinality(Kept(t)') + RecallCap <= named'[t]
  BY DEF RecallReaches, Kept
<1> DEFINE m == <<"delete", t>>
<1>1. t \in New \ (nameless \cup overtaken) /\ m \in Messages
  BY FlawsStay, MessageShape
<1>2. CASE status[m] = "done"
  <2>1. Kept(t)' \subseteq Kept(t)
    BY <1>2, MetStays, HomeGains DEF Kept, Mine
  <2>2. IsFiniteSet(Kept(t)) /\ Cardinality(Kept(t)') <= Cardinality(Kept(t))
    <3>1. IsFiniteSet(Kept(t))
      BY HomeAssumption, FS_Subset DEF Kept
    <3> QED
      BY <2>1, <3>1, FS_Subset
  <2>3. Cardinality(Kept(t)') \in Nat /\ Cardinality(Kept(t)) \in Nat
    BY <2>1, <2>2, FS_Subset, FS_CardinalityType
  <2>4. Kept(t) = {} \/ Cardinality(Kept(t)) + RecallCap <= named[t]
    BY <1>1, <1>2 DEF RecallReaches, Kept
  <2>5. named'[t] = named[t] /\ named[t] \in Nat /\ RecallCap \in Nat
    BY <1>2, NamedKept, HomeAssumption DEF WInv, TypeOK
  <2> QED
    BY <2>1, <2>2, <2>3, <2>4, <2>5
<1>3. CASE status[m] # "done"
  <2>1. Finish(m) /\ worker.msg = {m}
    BY <1>1, <1>3, DoneBy, WritesOf
  <2>2. m[1] = "delete" /\ m[2] = t
    OBVIOUS
  <2>3. PICK S \in Batches(worker.targets) : worker.stage = "write" /\ Apply(m, S, {})
    BY <1>1, <2>1, <2>2 DEF Finish, Malformed
  <2>4. named'[t] = Cardinality(worker.targets)
    BY <1>1, <2>1, <2>2 DEF Finish, Malformed, WInv, TypeOK
  <2>5. ASSUME NEW u \in Kept(t)' PROVE u \in worker.targets \ S
    <3>1. u \in Users /\ u # Author[t] /\ t \in home'[u] /\ <<u, Author[t]>> \notin parted
      BY <2>5, MetStays DEF Kept
    <3>2. t \in home[u] /\ u \notin S
      BY <1>1, <2>2, <2>3, <3>1, ApplyEffect DEF WInv
    <3> QED
      BY <2>1, <2>2, <2>3, <3>1, <3>2 DEF RecallAimed
  <2>6. S \subseteq worker.targets /\ IsFiniteSet(worker.targets)
    BY HomeAssumption, FS_Subset DEF Batches, WInv, TypeOK, Workers
  <2>7. CASE Cardinality(worker.targets) <= RecallCap
    BY <2>3, <2>5, <2>7 DEF Batches
  <2>8. CASE ~(Cardinality(worker.targets) <= RecallCap)
    <3>1. Cardinality(S) = RecallCap
      BY <2>3, <2>8 DEF Batches
    <3>2. /\ IsFiniteSet(worker.targets \ S)
          /\ Cardinality(worker.targets \ S) = Cardinality(worker.targets) - RecallCap
      <4>1. worker.targets \cap S = S
        BY <2>6
      <4> QED
        BY <2>6, <3>1, <4>1, FS_Difference
    <3>3. Cardinality(Kept(t)') <= Cardinality(worker.targets \ S) /\ IsFiniteSet(Kept(t)')
      BY <2>5, <3>2, FS_Subset
    <3>4. /\ Cardinality(Kept(t)') \in Nat /\ Cardinality(worker.targets) \in Nat
          /\ RecallCap \in Nat
      BY <2>6, <3>3, FS_CardinalityType, HomeAssumption
    <3> QED
      BY <2>4, <3>2, <3>3, <3>4
  <2> QED
    BY <2>7, <2>8
<1> QED
  BY <1>2, <1>3

(* The steps that change requests. *)
LEMMA ReqSteps ==
  ASSUME [Next]_vars, reqs' # reqs
  PROVE  \/ \E w \in Wanted : Ask(w[1], w[2], w[3], w[4])
         \/ \E k \in Users : Rebuild(k)
         \/ \E c \in Clients : GiveUp(c) \/ Fetch(c)
         \/ Crash
<1>1. ASSUME NEW t \in Tweets, Post(t) \/ Remove(t) PROVE FALSE
  BY <1>1 DEF Post, Remove, reading
<1>2. ASSUME NEW p \in Pairs, Meet(p) \/ Part(p) PROVE FALSE
  BY <1>2 DEF Meet, Part, reading
<1>3. ASSUME NEW m \in Messages, Handle(m) PROVE FALSE
  BY <1>3 DEF Handle, Carry, Take, ReadFollowers, Finish, Fail, reading
<1>4. ASSUME NEW u \in Users, Expire(u) PROVE FALSE
  BY <1>4 DEF Expire, reading
<1>5. ASSUME NEW k \in fills, Fill(k) PROVE FALSE
  BY <1>5 DEF Fill
<1>6. CASE UNCHANGED vars
  BY <1>6 DEF vars
<1> QED
  BY <1>1, <1>2, <1>3, <1>4, <1>5, <1>6 DEF Next

LEMMA FeedNext == WInv /\ FInv /\ TargetsMet /\ FeedOwned /\ [Next]_vars => FeedOwned'
<1> SUFFICES ASSUME WInv, FInv, TargetsMet, FeedOwned, [Next]_vars PROVE FeedOwned'
  OBVIOUS
<1>t. TypeOK /\ TypeOK'
  BY TypeNext DEF WInv
<1>f. \A u \in Users : Feed(u) \subseteq Feed(u)'
  BY MetStays DEF Feed, Met, Mine
<1>b. /\ \A u \in Users : home[u] \subseteq Feed(u)
      /\ \A c \in Clients : \A u \in reqs[c].user :
           reqs[c].own \subseteq Mine(u) /\ reqs[c].ids \subseteq Feed(u)
  BY DEF FeedOwned, Feed, Met, Mine
<1>1. ASSUME NEW u \in Users PROVE home'[u] \subseteq Feed(u)'
  <2>1. ASSUME NEW t \in home'[u], t \notin home[u] PROVE t \in Feed(u)
    <3>1. t \in Tweets
      BY <1>t DEF TypeOK
    <3>2. CASE t \in Mine(u)
      BY <3>2 DEF Feed
    <3>3. CASE <<"create", t>> \in worker.msg /\ u \in worker.targets
      <4>1. Met(u, t)
        BY <3>3 DEF TargetsMet
      <4> QED
        BY <3>1, <4>1 DEF Feed
    <3> QED
      BY <2>1, <3>2, <3>3, HomeGains
  <2> QED
    BY <1>f, <1>b, <2>1
<1>2. ASSUME NEW c \in Clients, NEW u \in reqs'[c].user
      PROVE  reqs'[c].own \subseteq Mine(u) /\ reqs'[c].ids \subseteq Feed(u)'
  <2>u. u \in Users
    BY <1>t DEF TypeOK, Requests
  <2>1. CASE reqs'[c] = reqs[c]
    BY <1>b, <1>f, <2>1, <2>u
  <2>2. CASE reqs'[c] = Idle
    BY <2>2 DEF Idle
  <2>3. ASSUME NEW w \in Wanted, Ask(w[1], w[2], w[3], w[4]), reqs'[c] # reqs[c]
        PROVE  reqs'[c].own \subseteq Mine(u) /\ reqs'[c].ids \subseteq Feed(u)'
    <3>1. ASSUME NEW ids, NEW again, Turn(w[1], w[2], w[3], w[4], ids, again)
          PROVE  reqs'[c].user = {w[2]} /\ reqs'[c].ids = ids /\ reqs'[c].own = {}
      BY <2>3, <3>1, <1>t DEF Turn, Idle, TypeOK
    <3>2. reqs'[c].user = {w[2]} /\ reqs'[c].ids \subseteq home[w[2]] /\ reqs'[c].own = {}
      <4>1. PageOf(home[w[2]], w[3], w[4]) \subseteq home[w[2]] /\ {} \subseteq home[w[2]]
        BY DEF PageOf
      <4>2. \E ids \in SUBSET home[w[2]] : \E again : Turn(w[1], w[2], w[3], w[4], ids, again)
        BY <2>3, <4>1 DEF Ask
      <4> QED
        BY <3>1, <4>2
    <3> QED
      BY <3>2, <1>b, <1>f, <2>u
  <2>4. ASSUME NEW k \in Users, NEW S \in SUBSET Mine(k), Told(k, S), reqs'[c] # reqs[c]
        PROVE  reqs'[c].own \subseteq Mine(u) /\ reqs'[c].ids \subseteq Feed(u)'
    <3>1. reqs[c] \in Requests /\ \E v \in reqs[c].user : v = k
      BY <2>4, <1>t DEF Told, RebuildKey, TypeOK
    <3>2. reqs'[c] = [reqs[c] EXCEPT !.stage = "fetch", !.own = S]
      BY <2>4 DEF Told
    <3>3. reqs'[c].user = reqs[c].user /\ reqs'[c].ids = reqs[c].ids /\ reqs'[c].own = S
      BY <3>1, <3>2 DEF Requests
    <3>4. reqs[c].user = {k}
      BY <3>1 DEF Requests
    <3> QED
      BY <3>3, <3>4, <1>b, <1>f, <2>4, <2>u
  <2>5. ASSUME NEW k \in Users, Rebuild(k), reqs'[c] # reqs[c]
        PROVE  reqs'[c].own \subseteq Mine(u) /\ reqs'[c].ids \subseteq Feed(u)'
    <3>1. ~RebuildQuery(k)
      BY <2>5 DEF RebuildQuery
    <3>2. \E S \in SUBSET Mine(k) : Told(k, S)
      BY <2>5, <3>1 DEF Rebuild, RebuildDone, RebuildFail, Copies, FInv, RebuildsOwn
    <3> QED
      BY <2>4, <2>5, <3>2
  <2>6. ASSUME NEW d \in Clients, GiveUp(d) \/ Fetch(d)
        PROVE  reqs'[c] = Idle \/ /\ reqs'[c].user = reqs[c].user
                                  /\ reqs'[c].ids = reqs[c].ids /\ reqs'[c].own = reqs[c].own
    <3>1. reqs[c] \in Requests
      BY <1>t DEF TypeOK
    <3> QED
      BY <2>6, <3>1, <1>t DEF GiveUp, Fetch, TypeOK, Requests
  <2>8. CASE Crash
    BY <2>2, <2>8 DEF Crash
  <2> QED
    BY <2>1, <2>2, <2>3, <2>5, <2>6, <2>8, <1>b, <1>f, <2>u, ReqSteps
<1> QED
  BY <1>1, <1>2 DEF FeedOwned, Feed, Met, Mine

LEMMA InitInv == Init => IInv
<1> SUFFICES ASSUME Init PROVE IInv
  OBVIOUS
<1>1. TypeOK /\ Sent /\ Held
  BY InitTyped, MessageShape DEF Init, Sent, Held, Resting, New
<1>2. FillsOwn /\ RebuildsOwn /\ ExpectedFollow
  BY NoneOwn DEF Init, FillsOwn, RebuildsOwn, ExpectedFollow
<1>3. TargetsMet /\ PushAimed /\ RecallAimed
  BY DEF Init, Resting, TargetsMet, PushAimed, RecallAimed
<1>4. PushReaches /\ RecallReaches /\ FeedOwned
  BY DEF Init, Idle, PushReaches, RecallReaches, FeedOwned
<1> QED
  BY <1>1, <1>2, <1>3, <1>4 DEF IInv, WInv, FInv

LEMMA InvNext == IInv /\ [Next]_vars => IInv'
<1> SUFFICES ASSUME IInv, [Next]_vars PROVE IInv'
  OBVIOUS
<1>1. WInv' /\ FInv'
  BY WNext, OwnNext DEF IInv, WInv
<1>2. ExpectedFollow' /\ TargetsMet' /\ PushAimed' /\ RecallAimed'
  BY ExpectedNext, TargetsNext, PushAimedNext, RecallAimedNext DEF IInv
<1>3. PushReaches' /\ RecallReaches' /\ FeedOwned'
  BY PushNext, RecallNext, FeedNext DEF IInv
<1> QED
  BY <1>1, <1>2, <1>3 DEF IInv

LEMMA Inductive == Spec => []IInv
BY InitInv, InvNext, PTL DEF Spec

(* A tweet whose push is done reaches whoever followed its author from the *)
(* post on, whatever the followers, pushes, recalls, backfills and faults. *)
THEOREM PushesReach == Spec => []PushReaches
<1>1. IInv => PushReaches
  BY DEF IInv
<1> QED
  BY <1>1, Inductive, PTL

(* A recall that is done leaves the tweet with its author, with those who  *)
(* ceased to follow him, and with no more of the followers it was to reach *)
(* than exceed RecallCap; for any RecallCap and any number of users, of    *)
(* every tweet that was not pushed after its recall and whose deletion     *)
(* message names it.                                                       *)
THEOREM RecallsReach == Spec => []RecallReaches
<1>1. IInv => RecallReaches
  BY DEF IInv
<1> QED
  BY <1>1, Inductive, PTL

(* Timelines and answers never show anybody the user has not met, and a    *)
(* shared rebuild never another's tweets.                                  *)
THEOREM FeedsOwned == Spec => []FeedOwned
<1>1. IInv => FeedOwned
  BY DEF IInv
<1> QED
  BY <1>1, Inductive, PTL

-----------------------------------------------------------------------------
(* The messages implement Delivery. *)

LEMMA CarryDelivers ==
  ASSUME WInv, NEW m \in Messages, Carry(m) PROVE D!Next
<1>t. status \in [Messages -> D!Statuses]
  BY DEF WInv, TypeOK
<1>1. PICK trimmed \in SUBSET {n \in Messages : status[n] = "queued"}, s \in {"queued", "lost"} :
        status' = [n \in Messages |-> IF n = m THEN s
                                      ELSE IF n \in trimmed THEN "lost" ELSE status[n]]
  BY DEF Carry
<1>2. status[m] = "accepted" /\ status'[m] = s
  BY <1>1 DEF Carry
<1>3. status' \in [Messages -> D!Statuses]
  BY <1>t, <1>1 DEF D!Statuses
<1>4. ASSUME NEW n \in Messages, status'[n] # status[n]
      PROVE  <<status[n], status'[n]>> \in D!Moves
  BY <1>1, <1>2, <1>4 DEF D!Moves
<1>5. ASSUME NEW n \in Messages PROVE status'[n] # "taken" \/ status[n] # "queued"
  BY <1>1, <1>2
<1>6. ASSUME NEW n \in Messages PROVE status'[n] # "done" \/ status[n] # "taken"
  BY <1>1, <1>2
<1> QED
  BY <1>2, <1>3, <1>4, <1>5, <1>6 DEF D!Next, D!Moved

(* A step of one message by itself, other than a trim. *)
LEMMA OneDelivers ==
  ASSUME WInv, NEW m \in Messages, NEW s, status' = [status EXCEPT ![m] = s],
         <<status[m], s>> \in D!Moves, <<status[m], s>> # <<"queued", "lost">>
  PROVE  D!Next
<1>t. status \in [Messages -> D!Statuses]
  BY DEF WInv, TypeOK
<1>1. s \in D!Statuses
  BY DEF D!Moves, D!Statuses
<1>2. status' \in [Messages -> D!Statuses]
  BY <1>t, <1>1
<1>3. \A n \in Messages : status'[n] = IF n = m THEN s ELSE status[n]
  BY <1>t
<1>4. \A n \in Messages : ~(status[n] = "queued" /\ status'[n] = "lost")
  BY <1>3
<1>5. ASSUME NEW n \in Messages, NEW o \in Messages,
             status'[n] # status[n], status'[o] # status[o]
      PROVE  n = o
  BY <1>3, <1>5
<1>6. \A n \in Messages : status'[n] # status[n] => <<status[n], status'[n]>> \in D!Moves
  BY <1>3
<1> QED
  BY <1>2, <1>4, <1>5, <1>6 DEF D!Next, D!Moved

LEMMA CrashDelivers ==
  ASSUME WInv, Crash PROVE D!Next
<1>t. status \in [Messages -> D!Statuses]
  BY DEF WInv, TypeOK
<1>1. \A n \in Messages : status'[n] = IF status[n] = "accepted" THEN "lost" ELSE status[n]
  BY DEF Crash
<1>2. status' \in [Messages -> D!Statuses]
  BY <1>t DEF Crash, D!Statuses
<1> QED
  BY <1>1, <1>2 DEF D!Next, D!Moved, D!Moves

LEMMA StepDelivers == WInv /\ [Next]_vars => [D!Next]_status
<1> SUFFICES ASSUME WInv, [Next]_vars PROVE D!Next \/ status' = status
  OBVIOUS
<1>1. CASE Reads
  BY <1>1, ReadsKeep
<1>2. CASE Crash
  BY <1>2, CrashDelivers
<1>3. ASSUME NEW t \in Tweets, Post(t) PROVE D!Next
  <2>1. <<"create", t>> \in Messages /\ <<status[<<"create", t>>], "accepted">> \in D!Moves
    BY <1>3, MessageShape DEF Post, D!Moves
  <2> QED
    BY <1>3, <2>1, OneDelivers DEF Post
<1>4. ASSUME NEW t \in Tweets, Remove(t) PROVE D!Next
  <2>1. /\ <<"delete", t>> \in Messages /\ status[<<"delete", t>>] = "unsent"
    BY <1>4, MessageShape DEF Remove, WInv, Sent
  <2>2. <<status[<<"delete", t>>], "accepted">> \in D!Moves
    BY <2>1 DEF D!Moves
  <2> QED
    BY <1>4, <2>1, <2>2, OneDelivers DEF Remove
<1>5. ASSUME NEW p \in Pairs, Meet(p) \/ Part(p) PROVE status' = status
  BY <1>5 DEF Meet, Part
<1>6. ASSUME NEW m \in Messages, Handle(m) PROVE D!Next \/ status' = status
  <2>1. CASE Carry(m)
    BY <2>1, CarryDelivers
  <2>2. CASE Take(m)
    <3>1. <<status[m], "taken">> \in D!Moves
      BY <2>2 DEF Take, D!Moves
    <3> QED
      BY <2>2, <3>1, OneDelivers DEF Take
  <2>3. CASE ReadFollowers(m) \/ Fail(m)
    BY <2>3 DEF ReadFollowers, Fail
  <2>4. CASE Finish(m)
    <3>1. status[m] = "taken"
      BY <2>4, WritesOf DEF WInv, Held
    <3>2. <<status[m], "done">> \in D!Moves /\ status' = [status EXCEPT ![m] = "done"]
      BY <2>4, <3>1 DEF Finish, D!Moves
    <3> QED
      BY <3>1, <3>2, OneDelivers
  <2> QED
    BY <1>6, <2>1, <2>2, <2>3, <2>4 DEF Handle
<1> QED
  BY <1>1, <1>2, <1>3, <1>4, <1>5, <1>6, Split

(* What the timelines assume of the messages is what Delivery promises,    *)
(* which is what Fanout is checked to implement: every step is one of      *)
(* Delivery's or none.                                                     *)
THEOREM MessagesDeliver == Spec => Delivers
<1>1. Init => D!Init
  BY DEF Init, D!Init
<1>2. IInv /\ [Next]_vars => [D!Next]_status
  BY StepDelivers DEF IInv
<1> QED
  BY <1>1, <1>2, Inductive, PTL DEF Spec, Delivers, D!Spec
=============================================================================
