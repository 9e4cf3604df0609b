-------------------------- MODULE HomePagesProofs --------------------------
(* Proofs about the pages of home timelines and the length of answers, for *)
(* any timelines, pages and sizes.                                         *)
EXTENDS HomeTimelineProofs

-----------------------------------------------------------------------------
(* Ranks. *)

Newer(S, t) == {s \in S : s > t}
Rank(S, t) == Cardinality(Newer(S, t))

LEMMA RankNat ==
  ASSUME NEW S \in SUBSET Tweets, NEW t PROVE Rank(S, t) \in Nat /\ IsFiniteSet(Newer(S, t))
BY TweetsFinite DEF Rank, Newer

(* A newer tweet has a smaller rank, so no two have the same. *)
LEMMA RankFalls ==
  ASSUME NEW S \in SUBSET Tweets, NEW t \in S, NEW s \in S, t < s
  PROVE  Rank(S, s) < Rank(S, t)
<1>1. S \subseteq Int
  BY TweetsFinite
<1>2. Newer(S, s) \in SUBSET Newer(S, t)
  <2>1. \A x \in S : x > s => x > t
    BY <1>1
  <2> QED
    BY <2>1 DEF Newer
<1>3. s \in Newer(S, t) /\ s \notin Newer(S, s)
  BY <1>1 DEF Newer
<1>4. Cardinality(Newer(S, s)) <= Cardinality(Newer(S, t))
      /\ Cardinality(Newer(S, s)) # Cardinality(Newer(S, t))
  <2>1. IsFiniteSet(Newer(S, t))
    BY RankNat
  <2> QED
    BY <1>2, <1>3, <2>1, FS_Subset
<1> QED
  BY <1>4, RankNat DEF Rank

LEMMA RanksDiffer ==
  ASSUME NEW S \in SUBSET Tweets, NEW t \in S, NEW s \in S, t # s
  PROVE  Rank(S, s) # Rank(S, t)
<1>1. t \in Int /\ s \in Int
  BY TweetsFinite
<1>2. CASE t < s
  BY <1>2, RankFalls, RankNat
<1>3. CASE s < t
  BY <1>3, RankFalls, RankNat
<1> QED
  BY <1>1, <1>2, <1>3

(* The newest has rank zero and so on: every rank is below the size. *)
LEMMA RankBelow ==
  ASSUME NEW S \in SUBSET Tweets, NEW t \in S PROVE Rank(S, t) < Cardinality(S)
<1>1. Newer(S, t) \in SUBSET S /\ t \notin Newer(S, t)
  BY TweetsFinite DEF Newer
<1>2. Cardinality(Newer(S, t)) <= Cardinality(S)
      /\ Cardinality(Newer(S, t)) # Cardinality(S)
  BY <1>1, TweetsFinite, FS_Subset
<1> QED
  BY <1>2, RankNat, TweetsFinite DEF Rank

(* As many tweets as ranks, at most. *)
LEMMA RanksBound ==
  ASSUME NEW S \in SUBSET Tweets, NEW a \in Int, NEW n \in Nat,
         NEW T \in SUBSET S, \A t \in T : Rank(S, t) \in a .. a + n - 1
  PROVE  Cardinality(T) <= n
<1> DEFINE f == [t \in T |-> Rank(S, t)]
           I == a .. a + n - 1
<1>1. f \in Injection(T, I)
  BY RanksDiffer DEF Injection, IsInjective
<1>2. IsFiniteSet(I) /\ Cardinality(I) <= n
  BY FS_Interval
<1>3. Cardinality(T) <= Cardinality(I)
  BY <1>1, <1>2, FS_Injection
<1>4. Cardinality(T) \in Nat /\ Cardinality(I) \in Nat
  BY <1>2, TweetsFinite, FS_CardinalityType
<1> QED
  BY <1>2, <1>3, <1>4

-----------------------------------------------------------------------------
(* Pages. *)

LEMMA PageShort ==
  ASSUME NEW S \in SUBSET Tweets, NEW page \in Nat, NEW size \in Nat \ {0}
  PROVE  Cardinality(PageOf(S, page, size)) <= size
<1> DEFINE a == page * size
<1>1. a \in Int
  OBVIOUS
<1>2. \A t \in PageOf(S, page, size) : Rank(S, t) \in a .. a + size - 1
  BY DEF PageOf, Start, Stop, Rank, Newer
<1>3. PageOf(S, page, size) \in SUBSET S
  BY DEF PageOf
<1> HIDE DEF a
<1> QED
  BY <1>1, <1>2, <1>3, RanksBound

LEMMA OwnShort ==
  ASSUME NEW S \in SUBSET Tweets, NEW page \in Nat, NEW size \in Nat \ {0}
  PROVE  Cardinality(OwnTweets(S, page, size)) <= size
<1> DEFINE n == IF size = 0 \/ size > ListMax THEN ListUsual ELSE size
           T == OwnTweets(S, page, size)
           a == page * n
<1>1. n \in Nat /\ n <= size
  BY HomeAssumption
<1>2. a \in Int
  BY <1>1
<1>3. \A t \in T : Rank(S, t) \in a .. a + n - 1
  BY DEF OwnTweets, Rank, Newer
<1>4. T \in SUBSET S
  BY DEF OwnTweets
<1> HIDE DEF n, a
<1>5. Cardinality(T) <= n
  BY <1>1, <1>2, <1>3, <1>4, RanksBound
<1>6. Cardinality(T) \in Nat
  BY <1>4, TweetsFinite
<1> QED
  BY <1>1, <1>5, <1>6

(* A number is in one interval of n, and in no two. *)
LEMMA QuotientOf ==
  ASSUME NEW n \in Nat \ {0}, NEW r \in Nat
  PROVE  /\ r \div n \in Nat /\ r \div n <= r
         /\ (r \div n) * n <= r /\ r <= (r \div n) * n + n - 1
<1>1. r \div n \in Nat /\ (r \div n) * n <= r /\ r < (r \div n) * n + n
  BY SMT
<1>2. \A a \in Nat : a * n <= r => a <= r
  BY SMT
<1> QED
  BY <1>1, <1>2

LEMMA IntervalsApart ==
  ASSUME NEW n \in Nat \ {0}, NEW p \in Nat, NEW q \in Nat, p < q
  PROVE  p * n + n <= q * n
<1>1. (q - p) * n >= n
  BY SMT
<1> QED
  BY <1>1, SMT

LEMMA PageHas ==
  ASSUME NEW S \in SUBSET Tweets, NEW size \in Nat \ {0, 1}, NEW page \in Nat, NEW t \in S
  PROVE  t \in PageOf(S, page, size) <=>
           Rank(S, t) \in page * size .. page * size + size - 1
<1> DEFINE a == page * size
<1>1. a \in Nat /\ a < a + size - 1
  OBVIOUS
<1> HIDE DEF a
<1>2. t \in PageOf(S, page, size) <=>
        a < a + size - 1 /\ Rank(S, t) \in a .. a + size - 1
  BY DEF a, PageOf, Start, Stop, Rank, Newer
<1> QED
  BY <1>1, <1>2 DEF a

LEMMA PagesMeetOf ==
  ASSUME NEW S \in SUBSET Tweets, NEW size \in Nat \ {0, 1}
  PROVE  LET pages == 0 .. Cardinality(S)
         IN /\ UNION {PageOf(S, p, size) : p \in pages} = S
            /\ \A p, q \in pages : p # q => PageOf(S, p, size) \cap PageOf(S, q, size) = {}
<1> DEFINE pages == 0 .. Cardinality(S)
<1>1. Cardinality(S) \in Nat /\ pages \subseteq Nat
  BY TweetsFinite
<1>2. \A p \in pages : PageOf(S, p, size) \subseteq S
  BY DEF PageOf
<1>3. ASSUME NEW t \in S PROVE \E p \in pages : t \in PageOf(S, p, size)
  <2> DEFINE r == Rank(S, t)
             p == r \div size
  <2>1. r \in Nat /\ r < Cardinality(S)
    BY RankNat, RankBelow
  <2> HIDE DEF r
  <2>2. p \in Nat /\ p <= r /\ p * size <= r /\ r <= p * size + size - 1
    BY <2>1, QuotientOf
  <2> HIDE DEF p
  <2>3. p \in pages
    BY <1>1, <2>1, <2>2
  <2>4. p * size \in Int
    BY <2>2
  <2>5. r \in p * size .. p * size + size - 1
    BY <2>1, <2>2, <2>4
  <2> QED
    BY <2>2, <2>3, <2>5, PageHas DEF r
<1>4. ASSUME NEW p \in pages, NEW q \in pages, p < q,
             NEW t \in PageOf(S, p, size), t \in PageOf(S, q, size)
      PROVE  FALSE
  <2>1. t \in S /\ p \in Nat /\ q \in Nat
    BY <1>1, <1>2
  <2>2. /\ Rank(S, t) \in p * size .. p * size + size - 1
        /\ Rank(S, t) \in q * size .. q * size + size - 1
    BY <1>4, <2>1, PageHas
  <2>3. p * size + size <= q * size
    BY <1>4, <2>1, IntervalsApart
  <2>4. p * size \in Int /\ q * size \in Int /\ Rank(S, t) \in Nat
    BY <2>1, RankNat
  <2> QED
    BY <2>2, <2>3, <2>4
<1>5. \A p, q \in pages : p # q => p < q \/ q < p
  BY <1>1
<1> QED
  BY <1>2, <1>3, <1>4, <1>5

(* The pages of a timeline have each of its tweets once, whatever pushes,  *)
(* trims and recalls left there, and however many tweets a page has, from  *)
(* two on.                                                                 *)
PagesMeetAtAnySize ==
  \A u \in Users, size \in Nat \ {0, 1} :
    LET pages == 0 .. Cardinality(home[u])
    IN /\ UNION {PageOf(home[u], p, size) : p \in pages} = home[u]
       /\ \A p, q \in pages :
            p # q => PageOf(home[u], p, size) \cap PageOf(home[u], q, size) = {}

(* What FindRange answers for the pages GetHomeTimeLine asks for is the    *)
(* timeline, cut in pieces, for all sizes but one, when pages are empty.   *)
THEOREM AllPagesJoin == Spec => []PagesMeetAtAnySize
<1>1. TypeOK => PagesMeetAtAnySize
  BY PagesMeetOf DEF TypeOK, PagesMeetAtAnySize
<1> QED
  BY <1>1, TypeCorrect, PTL

(* The sizes that the run looks at are among them. *)
THEOREM PagesJoin == Spec => []PagesMeet
<1>1. ASSUME TypeOK, PagesMeetAtAnySize PROVE PagesMeet
  <2> SUFFICES ASSUME NEW u \in Users, NEW size \in 2 .. 3, NEW t \in home[u]
               PROVE  LET pages == 0 .. Cardinality(home[u])
                      IN \E p \in pages :
                           \A q \in pages : t \in PageOf(home[u], q, size) <=> q = p
    BY DEF PagesMeet
  <2> DEFINE pages == 0 .. Cardinality(home[u])
  <2>1. size \in Nat \ {0, 1}
    OBVIOUS
  <2>2. /\ UNION {PageOf(home[u], p, size) : p \in pages} = home[u]
        /\ \A p, q \in pages :
             p # q => PageOf(home[u], p, size) \cap PageOf(home[u], q, size) = {}
    BY <1>1, <2>1 DEF PagesMeetAtAnySize
  <2> HIDE DEF pages
  <2>3. PICK p \in pages : t \in PageOf(home[u], p, size)
    BY <2>2
  <2>4. \A q \in pages : t \in PageOf(home[u], q, size) <=> q = p
    BY <2>2, <2>3
  <2> QED
    BY <2>4 DEF pages
<1> QED
  BY <1>1, AllPagesJoin, TypeCorrect, PTL

-----------------------------------------------------------------------------
(* Answers. *)

Room(c) == reqs[c].size - Cardinality(reqs[c].ids)

(* Who waits, waits for a rebuild; for the one it started, it has room for *)
(* what that is to find or has found.                                      *)
Roomy ==
  \A c \in Clients :
    /\ Cardinality(reqs[c].ids) <= reqs[c].size
    /\ reqs[c].stage = "wait" =>
         /\ reqs[c].own = {}
         /\ \A k \in reqs[c].user :
              /\ rebuild[k].stage # "none"
              /\ reqs[c].led /\ rebuild[k].stage = "started" =>
                   rebuild[k].size = Room(c) /\ Room(c) > 0
              /\ reqs[c].led /\ rebuild[k].stage = "queried" =>
                   Cardinality(rebuild[k].ids) <= Room(c)

PInv == TypeOK /\ Roomy /\ AnswerFits

LEMMA Counted ==
  ASSUME TypeOK, NEW c \in Clients
  PROVE  /\ reqs[c] \in Requests /\ reqs[c].user \subseteq Users
         /\ Cardinality(reqs[c].ids) \in Nat /\ Cardinality(reqs[c].own) \in Nat
         /\ Room(c) \in Int
<1>1. reqs[c] \in Requests
  BY DEF TypeOK
<1>2. reqs[c].ids \in SUBSET Tweets /\ reqs[c].own \in SUBSET Tweets /\ reqs[c].size \in Nat
      /\ reqs[c].user \subseteq Users
  BY <1>1 DEF Requests
<1> QED
  BY <1>1, <1>2, TweetsFinite DEF Room

LEMMA IdleFits ==
  /\ Idle.stage = "free" /\ Idle.own = {} /\ Cardinality(Idle.ids) = 0
  /\ Cardinality(Idle.own) = 0 /\ Idle.size = 0
BY FS_EmptySet DEF Idle

(* Its part of the two invariants, for one request. *)
Fits(c) ==
  reqs[c].own = {} \/ reqs[c].led
    => Cardinality(reqs[c].ids) + Cardinality(reqs[c].own) <= reqs[c].size

WaitRoom(c, k) ==
  /\ rebuild[k].stage # "none"
  /\ reqs[c].led /\ rebuild[k].stage = "started" =>
       rebuild[k].size = Room(c) /\ Room(c) > 0
  /\ reqs[c].led /\ rebuild[k].stage = "queried" =>
       Cardinality(rebuild[k].ids) <= Room(c)

Seated(c) ==
  /\ Cardinality(reqs[c].ids) <= reqs[c].size
  /\ reqs[c].stage = "wait" =>
       reqs[c].own = {} /\ \A k \in reqs[c].user : WaitRoom(c, k)

LEMMA ByRequest ==
  /\ Roomy <=> \A c \in Clients : Seated(c)
  /\ AnswerFits <=> \A c \in Clients : Fits(c)
BY DEF Roomy, Seated, WaitRoom, AnswerFits, Fits

LEMMA IdleSeated ==
  ASSUME NEW c \in Clients, reqs'[c] = Idle PROVE Seated(c)' /\ Fits(c)'
BY IdleFits DEF Seated, Fits

(* A request that does not change stays seated while its rebuild does not. *)
LEMMA StillSeated ==
  ASSUME TypeOK, NEW c \in Clients, Seated(c), Fits(c), reqs'[c] = reqs[c],
         reqs[c].stage = "wait" => \A k \in reqs[c].user : rebuild'[k] = rebuild[k]
  PROVE  Seated(c)' /\ Fits(c)'
<1>1. Room(c)' = Room(c)
  BY DEF Room
<1> QED
  BY <1>1 DEF Seated, WaitRoom, Fits

LEMMA AskSeats ==
  ASSUME TypeOK, \A c \in Clients : Seated(c) /\ Fits(c),
         NEW w \in Wanted, Ask(w[1], w[2], w[3], w[4]), NEW c \in Clients
  PROVE  Seated(c)' /\ Fits(c)'
<1>w. w[1] \in Clients /\ w[2] \in Users /\ w[3] \in Nat /\ w[4] \in Nat \ {0}
  BY HomeAssumption
<1> DEFINE u == w[2]
           size == w[4]
<1>0. PICK ids \in SUBSET Tweets :
        \E again : /\ Turn(w[1], u, w[3], size, ids, again)
                   /\ Cardinality(ids) <= size
                   /\ again => Cardinality(ids) < size
  <2> DEFINE page == PageOf(home[u], w[3], size)
  <2>1. home[u] \in SUBSET Tweets
    BY <1>w DEF TypeOK
  <2>2. page \in SUBSET Tweets /\ Cardinality(page) <= size
    BY <1>w, <2>1, PageShort DEF PageOf
  <2>3. ~Content(w[3], size, page) => Cardinality(page) < size
    <3> HIDE DEF page
    <3> QED
      BY <1>w, <2>2, AgainShort
  <2>4. Cardinality({}) <= size /\ Cardinality({}) < size
    BY <1>w, EmptyShort
  <2>6. CASE Turn(w[1], u, w[3], size, page, ~Content(w[3], size, page))
    BY <2>2, <2>3, <2>6
  <2>7. CASE Turn(w[1], u, w[3], size, {}, TRUE)
    BY <2>4, <2>7
  <2> QED
    BY <2>6, <2>7 DEF Ask
<1>1. PICK again : /\ Turn(w[1], u, w[3], size, ids, again)
                   /\ Cardinality(ids) <= size
                   /\ again => Cardinality(ids) < size
  BY <1>0
<1> DEFINE leads == rebuild[u].stage = "none"
           led == again /\ leads
<1>2. rebuild' = IF led THEN [rebuild EXCEPT ![u] =
                      [stage |-> "started", user |-> {u}, page |-> w[3],
                       size |-> size - Cardinality(ids), ids |-> {}]]
                 ELSE rebuild
  BY <1>1 DEF Turn, RebuildKey
<1>3. \A k \in Users : k # u \/ ~led => rebuild'[k] = rebuild[k]
  BY <1>2 DEF TypeOK
<1>4. led => rebuild'[u].stage = "started" /\ rebuild'[u].size = size - Cardinality(ids)
  BY <1>w, <1>2 DEF TypeOK
<1>5. CASE c = w[1]
  <2>1. reqs'[c] = [Idle EXCEPT !.user = {u}, !.size = size, !.ids = ids, !.led = led,
                      !.stage = IF again THEN "wait" ELSE "fetch"]
    BY <1>1, <1>5 DEF Turn, TypeOK, RebuildKey
  <2>2. /\ reqs'[c].user = {u} /\ reqs'[c].size = size /\ reqs'[c].ids = ids
        /\ reqs'[c].led = led /\ reqs'[c].own = {}
        /\ reqs'[c].stage = "wait" <=> again
    BY <2>1 DEF Idle
  <2>3. Room(c)' = size - Cardinality(ids)
    BY <2>2 DEF Room
  <2>4. Cardinality(ids) \in Nat /\ Cardinality({}) = 0
    BY TweetsFinite, FS_EmptySet
  <2> HIDE DEF u, size, led
  <2>s. size \in Nat
    BY <1>w DEF size
  <2>5. again => WaitRoom(c, u)'
    <3>1. CASE again /\ led
      <4>1. size - Cardinality(ids) > 0
        BY <1>1, <2>4, <2>s, <3>1
      <4> QED
        BY <1>4, <2>3, <3>1, <4>1 DEF WaitRoom
    <3>2. CASE again /\ ~led
      <4>1. rebuild'[u].stage # "none"
        BY <1>w, <1>3, <3>2 DEF u, led
      <4> QED
        BY <2>2, <3>2, <4>1 DEF WaitRoom
    <3> QED
      BY <3>1, <3>2
  <2>6. Fits(c)'
    BY <1>1, <2>2, <2>4, <2>s DEF Fits
  <2> QED
    BY <1>1, <2>2, <2>5, <2>6 DEF Seated
<1>6. CASE c # w[1]
  <2>1. reqs'[c] = reqs[c]
    BY <1>1, <1>6 DEF Turn, TypeOK
  <2>2. ASSUME reqs[c].stage = "wait", NEW k \in reqs[c].user PROVE rebuild'[k] = rebuild[k]
    <3>1. k \in Users /\ rebuild[k].stage # "none"
      BY <2>2, Counted DEF Seated, WaitRoom
    <3> QED
      BY <1>3, <3>1
  <2> QED
    BY <2>1, <2>2, StillSeated
<1> QED
  BY <1>5, <1>6

LEMMA QuerySeats ==
  ASSUME TypeOK, \A c \in Clients : Seated(c) /\ Fits(c),
         NEW k \in Users, RebuildQuery(k), NEW c \in Clients
  PROVE  Seated(c)' /\ Fits(c)'
<1>1. PICK u \in rebuild[k].user :
        rebuild' = [rebuild EXCEPT ![k].stage = "queried", ![k].page = 0, ![k].size = 0,
          ![k].ids = OwnTweets({t \in rows : Author[t] = u}, rebuild[k].page, rebuild[k].size)]
  BY DEF RebuildQuery
<1> DEFINE ids == OwnTweets({t \in rows : Author[t] = u}, rebuild[k].page, rebuild[k].size)
<1>2. rebuild[k] \in Rebuilds /\ rebuild[k].stage = "started"
  BY DEF TypeOK, RebuildQuery
<1>3. /\ rebuild'[k].stage = "queried" /\ rebuild'[k].ids = ids
      /\ \A j \in Users : j # k => rebuild'[j] = rebuild[j]
  <2> HIDE DEF ids
  <2>1. rebuild' = [rebuild EXCEPT ![k] =
                     [@ EXCEPT !.stage = "queried", !.page = 0, !.size = 0, !.ids = ids]]
    BY <1>1, <1>2 DEF TypeOK, Rebuilds, ids
  <2> QED
    BY <1>2, <2>1 DEF TypeOK, Rebuilds
<1>4. reqs' = reqs /\ Room(c)' = Room(c)
  BY DEF RebuildQuery, Room
<1>5. CASE reqs[c].stage = "wait" /\ k \in reqs[c].user
  <2>1. ASSUME reqs[c].led PROVE Cardinality(ids) <= Room(c)
    <3>1. rebuild[k].size = Room(c) /\ Room(c) > 0
      BY <1>2, <1>5, <2>1 DEF Seated, WaitRoom
    <3>2. rebuild[k].page \in Nat /\ rebuild[k].size \in Nat \ {0}
      BY <1>2, <3>1 DEF Rebuilds
    <3>3. {t \in rows : Author[t] = u} \in SUBSET Tweets
      BY DEF TypeOK
    <3> QED
      BY <3>1, <3>2, <3>3, OwnShort
  <2>2. WaitRoom(c, k)'
    BY <1>3, <1>4, <2>1 DEF WaitRoom
  <2>3. ASSUME NEW j \in reqs[c].user, j # k PROVE WaitRoom(c, j)'
    <3>1. j \in Users /\ WaitRoom(c, j)
      BY <1>5, <2>3, Counted DEF Seated
    <3> QED
      BY <1>3, <1>4, <2>3, <3>1 DEF WaitRoom
  <2> QED
    BY <1>4, <2>2, <2>3 DEF Seated, Fits
<1>6. CASE ~(reqs[c].stage = "wait" /\ k \in reqs[c].user)
  BY <1>3, <1>4, <1>6, Counted, StillSeated
<1> QED
  BY <1>5, <1>6

(* Who was told S has room for it, if it started the rebuild. *)
LEMMA ToldSeats ==
  ASSUME TypeOK, \A c \in Clients : Seated(c) /\ Fits(c),
         NEW k \in Users, NEW S \in SUBSET Tweets, Told(k, S),
         S = {} \/ (rebuild[k].stage = "queried" /\ S \subseteq rebuild[k].ids),
         \A j \in Users : j # k => rebuild'[j] = rebuild[j], NEW c \in Clients
  PROVE  Seated(c)' /\ Fits(c)'
<1>1. CASE reqs[c].stage = "wait" /\ k \in reqs[c].user
  <2>1. reqs'[c] = [reqs[c] EXCEPT !.stage = "fetch", !.own = S]
    BY <1>1 DEF Told, RebuildKey
  <2>2. /\ reqs'[c].stage = "fetch" /\ reqs'[c].own = S /\ reqs'[c].ids = reqs[c].ids
        /\ reqs'[c].size = reqs[c].size /\ reqs'[c].led = reqs[c].led
    BY <2>1, Counted DEF Requests
  <2>3. Seated(c)'
    BY <2>2 DEF Seated
  <2>4. CASE S = {}
    <3>1. Cardinality(S) = 0
      BY <2>4, FS_EmptySet
    <3>2. Cardinality(reqs[c].ids) <= reqs[c].size /\ Cardinality(reqs[c].ids) \in Nat
      BY Counted DEF Seated
    <3> QED
      BY <2>2, <2>3, <3>1, <3>2 DEF Fits
  <2>5. CASE S # {}
    <3>1. ASSUME reqs[c].led
          PROVE  Cardinality(reqs[c].ids) + Cardinality(S) <= reqs[c].size
      <4>1. Cardinality(rebuild[k].ids) <= Room(c)
        BY <1>1, <2>5, <3>1 DEF Seated, WaitRoom
      <4>2. rebuild[k].ids \in SUBSET Tweets
        BY DEF TypeOK, Rebuilds
      <4>3. Cardinality(S) <= Cardinality(rebuild[k].ids)
        BY <2>5, <4>2, TweetsFinite, FS_Subset
      <4>4. /\ Cardinality(S) \in Nat /\ Cardinality(rebuild[k].ids) \in Nat
            /\ Cardinality(reqs[c].ids) \in Nat /\ reqs[c].size \in Nat
        BY <4>2, TweetsFinite, Counted DEF Requests
      <4> QED
        BY <4>1, <4>3, <4>4 DEF Room
    <3> QED
      BY <2>2, <2>3, <2>5, <3>1 DEF Fits
  <2> QED
    BY <2>4, <2>5
<1>2. CASE ~(reqs[c].stage = "wait" /\ k \in reqs[c].user)
  <2>1. reqs'[c] = reqs[c]
    BY <1>2 DEF Told, RebuildKey
  <2> QED
    BY <1>2, <2>1, Counted, StillSeated
<1> QED
  BY <1>1, <1>2

(* Rebuilds change by steps of their own, or with a request. *)
LEMMA RebuildSteps ==
  ASSUME [Next]_vars, rebuild' # rebuild
  PROVE  \/ \E w \in Wanted : Ask(w[1], w[2], w[3], w[4])
         \/ \E k \in Users : Rebuild(k)
         \/ Crash
<1>1. ASSUME NEW t \in Tweets, Post(t) \/ Remove(t) PROVE FALSE
  BY <1>1 DEF Post, Remove, reading
<1>2. ASSUME NEW p \in Pairs, Meet(p) \/ Part(p) PROVE FALSE
  BY <1>2 DEF Meet, Part, reading
<1>3. ASSUME NEW m \in Messages, Handle(m) PROVE FALSE
  BY <1>3 DEF Handle, Carry, Take, ReadFollowers, Finish, Fail, reading
<1>4. ASSUME NEW u \in Users, Expire(u) PROVE FALSE
  BY <1>4 DEF Expire, reading
<1>5. ASSUME NEW k \in fills, Fill(k) PROVE FALSE
  BY <1>5 DEF Fill
<1>6. ASSUME NEW c \in Clients, GiveUp(c) \/ Fetch(c) PROVE FALSE
  BY <1>6 DEF GiveUp, Fetch
<1>7. CASE UNCHANGED vars
  BY <1>7 DEF vars
<1> QED
  BY <1>1, <1>2, <1>3, <1>4, <1>5, <1>6, <1>7 DEF Next

LEMMA FitsNext == PInv /\ [Next]_vars => PInv'
<1> SUFFICES ASSUME TypeOK, \A c \in Clients : Seated(c) /\ Fits(c), [Next]_vars
             PROVE  TypeOK' /\ \A c \in Clients : Seated(c)' /\ Fits(c)'
  BY ByRequest DEF PInv, Roomy, Seated, WaitRoom, AnswerFits, Fits
<1>t. TypeOK'
  BY TypeNext
<1>1. ASSUME NEW w \in Wanted, Ask(w[1], w[2], w[3], w[4]), NEW c \in Clients
      PROVE  Seated(c)' /\ Fits(c)'
  BY <1>1, AskSeats
<1>2. ASSUME NEW k \in Users, Rebuild(k), NEW c \in Clients
      PROVE  Seated(c)' /\ Fits(c)'
  <2>1. CASE RebuildQuery(k)
    BY <2>1, QuerySeats
  <2>2. CASE RebuildDone(k) \/ RebuildFail(k)
    <3>1. rebuild[k].ids \in SUBSET Tweets
      BY DEF TypeOK, Rebuilds
    <3>2. PICK S \in SUBSET Tweets :
            /\ Told(k, S)
            /\ S = {} \/ (rebuild[k].stage = "queried" /\ S \subseteq rebuild[k].ids)
      <4>1. CASE RebuildFail(k)
        BY <4>1 DEF RebuildFail
      <4>2. CASE RebuildDone(k)
        BY <3>1, <4>2 DEF RebuildDone, Copies
      <4> QED
        BY <2>2, <4>1, <4>2
    <3>3. \A j \in Users : j # k => rebuild'[j] = rebuild[j]
      BY <2>2 DEF RebuildDone, RebuildFail, TypeOK
    <3> QED
      BY <3>2, <3>3, ToldSeats
  <2> QED
    BY <1>2, <2>1, <2>2 DEF Rebuild
<1>3. ASSUME NEW d \in Clients, GiveUp(d) \/ Fetch(d), NEW c \in Clients
      PROVE  Seated(c)' /\ Fits(c)'
  <2>1. rebuild' = rebuild
    BY <1>3 DEF GiveUp, Fetch
  <2>2. CASE c # d
    <3>1. reqs'[c] = reqs[c]
      BY <1>3, <2>2 DEF GiveUp, Fetch, TypeOK
    <3> QED
      BY <2>1, <3>1, StillSeated
  <2>3. CASE c = d /\ Fetch(d)
    <3>1. reqs'[c] = Idle
      BY <2>3 DEF Fetch, TypeOK
    <3> QED
      BY <3>1, IdleSeated
  <2>4. CASE c = d /\ GiveUp(d)
    <3>1. reqs'[c] = [reqs[c] EXCEPT !.stage = "fetch"]
      BY <2>4 DEF GiveUp, TypeOK
    <3>2. /\ reqs'[c].stage = "fetch" /\ reqs'[c].own = reqs[c].own
          /\ reqs'[c].ids = reqs[c].ids /\ reqs'[c].size = reqs[c].size
          /\ reqs'[c].led = reqs[c].led
      BY <3>1, Counted DEF Requests
    <3> QED
      BY <3>2 DEF Seated, Fits
  <2> QED
    BY <1>3, <2>2, <2>3, <2>4
<1>4. ASSUME Crash, NEW c \in Clients PROVE Seated(c)' /\ Fits(c)'
  BY <1>4, IdleSeated DEF Crash
<1>5. ASSUME reqs' = reqs, rebuild' = rebuild, NEW c \in Clients
      PROVE  Seated(c)' /\ Fits(c)'
  BY <1>5, StillSeated
<1> QED
  BY <1>t, <1>1, <1>2, <1>3, <1>4, <1>5, ReqSteps, RebuildSteps

LEMMA PInductive == Spec => []PInv
<1>1. Init => PInv
  BY InitTyped, IdleFits DEF Init, PInv, Roomy, AnswerFits
<1> QED
  BY <1>1, FitsNext, PTL DEF Spec

(* An answer is no longer than what was asked for, whatever the page, the  *)
(* size and the timeline, when its rebuild was its own.                    *)
THEOREM AnswersFit == Spec => []AnswerFits
<1>1. PInv => AnswerFits
  BY DEF PInv
<1> QED
  BY <1>1, PInductive, PTL
=============================================================================
