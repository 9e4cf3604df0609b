---------------------------- MODULE TweetsProofs ----------------------------
(* Proofs about tweets and their cached copies, for any tweets, users,     *)
(* contents, clients, pool tasks and faults.                               *)
EXTENDS Tweets, TLAPS

-----------------------------------------------------------------------------
(* Shapes. *)

LEMMA NoneIs == None \notin Rows /\ None \notin Copies
BY NoneAssumption

LEMMA CopyShape ==
  ASSUME NEW t \in Tweets \cup {0}, NEW r \in Rows
  PROVE  /\ Copy(t, r) \in Copies /\ Copy(t, r).id = t
         /\ Copy(t, r).owner = r.owner /\ Copy(t, r).content = r.content
BY DEF Copy, Copies, Rows

LEMMA TaskShape ==
  /\ \A c \in Copies : /\ SetTask(c) \in Tasks /\ SetTask(c).copies = {c}
                       /\ SetTask(c).kind = "set" /\ SetTask(c).tweet = c.id
  /\ \A S \in SUBSET Copies :
       SetNXTask(S) \in Tasks /\ SetNXTask(S).copies = S /\ SetNXTask(S).kind = "setnx"
  /\ \A t \in Tweets :
       /\ DropTask(t) \in Tasks /\ DropTask(t).copies = {}
       /\ DropTask(t).kind = "drop" /\ DropTask(t).tweet = t
BY DEF SetTask, SetNXTask, DropTask, Tasks, Copies

(* What may become of a request in a step. *)
Became(q, r) ==
  /\ r \in Requests /\ r.client = q.client /\ r.tweet = q.tweet /\ r.user = q.user
  /\ r.op = q.op /\ r.content = q.content
  /\ r.stage \in {"done", "wait", "got", "store", "drop"}

LEMMA StepShape ==
  ASSUME NEW q \in Requests, NEW s \in {"wait", "store", "drop"}
  PROVE  LET r == [q EXCEPT !.stage = s]
         IN Became(q, r) /\ r.stage = s /\ r.got = q.got
BY DEF Requests, Became

LEMMA ReplyShape ==
  ASSUME NEW q \in Requests, NEW a \in {"ok", "error"}
  PROVE  LET r == [q EXCEPT !.stage = "done", !.reply = a]
         IN Became(q, r) /\ r.stage = "done" /\ r.got = q.got
BY DEF Requests, Became

LEMMA GotShape ==
  ASSUME NEW q \in Requests, NEW c \in Copies
  PROVE  /\ [q EXCEPT !.stage = "got", !.got = c] = [q EXCEPT !.got = c, !.stage = "got"]
         /\ LET r == [q EXCEPT !.got = c, !.stage = "got"]
            IN Became(q, r) /\ r.stage = "got" /\ r.got = c
BY DEF Requests, Became

-----------------------------------------------------------------------------
(* Types. *)

(* What an edit writes is a content. *)
EditsWrite == \A q \in reqs : q.op = "edit" => q.content \in Contents

(* A write has one copy and names its tweet; a delayed deletion has none.  *)
TasksShaped ==
  \A k \in tasks :
    /\ k.kind = "set" => \A c \in k.copies : c.id = k.tweet
    /\ k.kind = "drop" => k.tweet \in Tweets /\ k.copies = {}

TInv == TypeOK /\ EditsWrite /\ TasksShaped

LEMMA InitTyped == Init => TInv
BY DEF Init, TInv, TypeOK, EditsWrite, TasksShaped, Loads, NoLoad

LEMMA InvalidateTyped ==
  ASSUME TypeOK, NEW k \in Tweets, Invalidate(k)
  PROVE  /\ cache' \in [Tweets -> Copies \cup {None}] /\ faults' \in Nat
         /\ \A x \in Tweets : cache'[x] = cache[x] \/ cache'[x] = None
         /\ faults' = faults => cache'[k] = None
<1>1. CASE cache' = [cache EXCEPT ![k] = None] /\ UNCHANGED faults
  BY <1>1 DEF TypeOK
<1>2. CASE Fault /\ UNCHANGED cache
  <2>1. faults \in Nat /\ faults' = faults + 1 /\ cache' = cache
    BY <1>2 DEF Fault, TypeOK
  <2>2. faults' # faults
    BY <2>1
  <2> QED
    BY <2>1, <2>2 DEF TypeOK
<1> QED
  BY <1>1, <1>2 DEF Invalidate

LEMMA PutTyped ==
  ASSUME TypeOK, NEW t, NEW c \in Copies \cup {None}
  PROVE  Put(t, c) \in [Tweets -> Copies \cup {None}]
BY DEF Put, TypeOK

LEMMA ContentTyped ==
  \A r \in Rows \cup Copies \cup {None} : ContentOf(r) \in SUBSET Contents
BY DEF ContentOf, Rows, Copies

LEMMA SeenTyped ==
  ASSUME TypeOK, EditsWrite, NEW q \in reqs, Serve(q)
  PROVE  seen' \in [Clients -> SUBSET Contents]
<1>q. q \in Requests /\ q.client \in Clients /\ q.tweet \in Tweets
  BY DEF TypeOK, Requests
<1>s. seen \in [Clients -> SUBSET Contents]
  BY DEF TypeOK
<1>1. CASE Hit(q)
  <2>1. ContentOf(cache[q.tweet]) \in SUBSET Contents
    BY <1>q, ContentTyped DEF TypeOK
  <2> QED
    BY <1>q, <1>s, <1>1, <2>1 DEF Hit
<1>2. CASE Miss(q)
  <2>1. ContentOf(load[q.tweet].value) \in SUBSET Contents
    BY <1>q, ContentTyped DEF TypeOK, Loads
  <2> QED
    BY <1>q, <1>s, <1>2, <2>1 DEF Miss
<1>3. CASE End(q)
  BY <1>q, <1>s, <1>3 DEF End
<1>4. CASE UpdateRow(q)
  <2>1. q.content \in Contents
    BY <1>4 DEF UpdateRow, EditsWrite
  <2> QED
    BY <1>s, <1>4, <2>1 DEF UpdateRow, Shown
<1>5. CASE ~Hit(q) /\ ~Miss(q) /\ ~End(q) /\ ~UpdateRow(q)
  BY <1>s, <1>5 DEF Serve, AnswerFetch, AnswerStranger, CheckEdit, CheckRemove,
     DeleteRow, DropAfterUpdate, DropAfterDelete
<1> QED
  BY <1>1, <1>2, <1>3, <1>4, <1>5

(* How requests move, whatever else a step does. *)
LEMMA ServeTyped ==
  ASSUME TypeOK, NEW q \in reqs, Serve(q)
  PROVE  \/ reqs' = reqs \ {q} /\ q.stage = "done"
         \/ \E r \in Requests : reqs' = (reqs \ {q}) \cup {r} /\ Became(q, r)
<1>q. q \in Requests
  BY DEF TypeOK
<1>1. CASE Hit(q)
  <2>1. cache[q.tweet] \in Copies
    BY <1>1, <1>q DEF Hit, TypeOK, Requests
  <2> DEFINE r == [q EXCEPT !.got = cache[q.tweet], !.stage = "got"]
  <2>2. reqs' = (reqs \ {q}) \cup {r}
    BY <1>1 DEF Hit
  <2>3. r \in Requests /\ Became(q, r)
    BY <1>q, <2>1, GotShape DEF Became
  <2> QED
    BY <2>2, <2>3
<1>2. CASE End(q)
  BY <1>2 DEF End
<1>3. ASSUME NEW s \in {"wait", "store", "drop"}, Step(q, s)
      PROVE  \E r \in Requests : reqs' = (reqs \ {q}) \cup {r} /\ Became(q, r)
  <2> DEFINE r == [q EXCEPT !.stage = s]
  <2>1. r \in Requests /\ Became(q, r)
    BY <1>q, StepShape DEF Became
  <2>2. reqs' = (reqs \ {q}) \cup {r}
    BY <1>3 DEF Step
  <2> QED
    BY <2>1, <2>2
<1>4. ASSUME NEW a \in {"ok", "error"}, Reply(q, a)
      PROVE  \E r \in Requests : reqs' = (reqs \ {q}) \cup {r} /\ Became(q, r)
  <2> DEFINE r == [q EXCEPT !.stage = "done", !.reply = a]
  <2>1. r \in Requests /\ Became(q, r)
    BY <1>q, ReplyShape DEF Became
  <2>2. reqs' = (reqs \ {q}) \cup {r}
    BY <1>4 DEF Reply
  <2> QED
    BY <2>1, <2>2
<1>5. ASSUME ~Hit(q), ~End(q)
      PROVE  (\E s \in {"wait", "store", "drop"} : Step(q, s))
             \/ (\E a \in {"ok", "error"} : Reply(q, a))
  BY <1>5 DEF Serve, Miss, AnswerFetch, AnswerStranger, CheckEdit, CheckRemove, UpdateRow,
     DeleteRow, DropAfterUpdate, DropAfterDelete
<1> QED
  BY <1>1, <1>2, <1>3, <1>4, <1>5

LEMMA ServeTypeNext ==
  ASSUME TInv, NEW q \in reqs, Serve(q)
  PROVE  TInv'
<1>q. TypeOK /\ q \in Requests /\ q.tweet \in Tweets
  BY DEF TInv, TypeOK, Requests
<1>r. reqs' \subseteq Requests
  BY <1>q, ServeTyped DEF TypeOK
<1>e. EditsWrite'
  BY <1>q, ServeTyped DEF TInv, EditsWrite, Became
<1>s. TasksShaped'
  <2>1. tasks' = tasks \/ tasks' = tasks \cup {DropTask(q.tweet)}
    BY DEF Serve, Hit, Miss, AnswerFetch, AnswerStranger, CheckEdit, CheckRemove, UpdateRow,
       DeleteRow, DropAfterUpdate, DropAfterDelete, End, Submit
  <2> QED
    BY <1>q, <2>1, TaskShape DEF TInv, TasksShaped
<1>n. seen' \in [Clients -> SUBSET Contents]
  BY SeenTyped DEF TInv
<1> SUFFICES TypeOK'
  BY <1>e, <1>s DEF TInv
<1>1. CASE Hit(q) \/ End(q) \/ AnswerFetch(q) \/ AnswerStranger(q) \/ CheckEdit(q) \/ CheckRemove(q)
  BY <1>q, <1>r, <1>n, <1>1 DEF TypeOK, Hit, End, AnswerFetch, AnswerStranger, CheckEdit, CheckRemove
<1>2. CASE Miss(q)
  <2>1. load' \in [Tweets -> Loads] /\ faults' \in Nat
    BY <1>2, <1>q DEF Miss, TypeOK, Loads, Fault
  <2> QED
    BY <1>q, <1>r, <1>n, <1>2, <2>1 DEF TypeOK, Miss
<1>3. CASE UpdateRow(q)
  <2>1. q.content \in Contents /\ row[q.tweet] \in Rows \cup {None}
    BY <1>3, <1>q DEF TInv, EditsWrite, UpdateRow, TypeOK
  <2>2. CASE row[q.tweet] # None
    <3>1. [row[q.tweet] EXCEPT !.content = q.content] \in Rows
      BY <2>1, <2>2 DEF Rows
    <3>2. row' = row \/ row' = [row EXCEPT ![q.tweet] = [@ EXCEPT !.content = q.content]]
      BY <1>3 DEF UpdateRow
    <3> QED
      BY <1>q, <1>r, <1>n, <1>3, <3>1, <3>2 DEF TypeOK, UpdateRow
  <2>3. CASE row[q.tweet] = None
    BY <1>q, <1>r, <1>n, <1>3, <2>3 DEF TypeOK, UpdateRow
  <2> QED
    BY <2>2, <2>3
<1>4. CASE DeleteRow(q)
  <2>1. row' \in [Tweets -> Rows \cup {None}]
    BY <1>4, <1>q DEF DeleteRow, TypeOK
  <2> QED
    BY <1>q, <1>r, <1>4, <2>1 DEF TypeOK, DeleteRow
<1>5. CASE DropAfterUpdate(q)
  <2>1. cache' \in [Tweets -> Copies \cup {None}] /\ faults' \in Nat
    BY <1>5, <1>q, InvalidateTyped DEF DropAfterUpdate
  <2>2. tasks' \subseteq Tasks
    BY <1>5, <1>q, TaskShape DEF DropAfterUpdate, Submit, TypeOK
  <2> QED
    BY <1>q, <1>r, <1>5, <2>1, <2>2 DEF TypeOK, DropAfterUpdate
<1>6. CASE DropAfterDelete(q)
  <2>1. cache' \in [Tweets -> Copies \cup {None}] /\ faults' \in Nat
    BY <1>6, <1>q, InvalidateTyped DEF DropAfterDelete, LastInvalidate
  <2>2. exposed' \subseteq Tweets
    BY <1>6, <1>q DEF DropAfterDelete, LastInvalidate, TypeOK
  <2> QED
    BY <1>q, <1>r, <1>6, <2>1, <2>2 DEF TypeOK, DropAfterDelete
<1> QED
  BY <1>1, <1>2, <1>3, <1>4, <1>5, <1>6 DEF Serve

(* What a load that ends does to the requests. *)
LEMMA LoadMoves ==
  ASSUME TypeOK, NEW t \in Tweets, LoadDone(t) \/ LoadFail(t), NEW r \in reqs'
  PROVE  \/ r \in reqs \ Waiting(t)
         \/ \E q \in Waiting(t) :
              /\ Became(q, r)
              /\ \/ r.stage = "done" /\ r.got = q.got
                 \/ /\ r.stage = "got" /\ load[t].value \in Rows
                    /\ r.got = Copy(0, load[t].value)
<1>1. \A q \in Waiting(t) : q \in Requests
  BY DEF Waiting, TypeOK
<1>2. CASE r \in reqs \ Waiting(t)
  BY <1>2
<1>3. CASE \E q \in Waiting(t) : r = [q EXCEPT !.stage = "done", !.reply = "error"]
  <2>1. PICK q \in Waiting(t) : r = [q EXCEPT !.stage = "done", !.reply = "error"]
    BY <1>3
  <2>2. Became(q, r) /\ r.stage = "done" /\ r.got = q.got
    BY <1>1, <2>1, ReplyShape
  <2> QED
    BY <2>2
<1>4. ASSUME NEW q \in Waiting(t), load[t].value # None,
             r = [q EXCEPT !.stage = "got", !.got = Copy(0, load[t].value)]
      PROVE  /\ Became(q, r) /\ r.stage = "got" /\ load[t].value \in Rows
             /\ r.got = Copy(0, load[t].value)
  <2>1. load[t].value \in Rows
    BY <1>4 DEF TypeOK, Loads
  <2> DEFINE c == Copy(0, load[t].value)
  <2>2. c \in Copies
    BY <2>1, CopyShape
  <2> HIDE DEF c
  <2>3. r = [q EXCEPT !.stage = "got", !.got = c]
    BY <1>4 DEF c
  <2>4. Became(q, r) /\ r.stage = "got" /\ r.got = c
    <3>1. q \in Requests
      BY <1>1
    <3>2. r = [q EXCEPT !.got = c, !.stage = "got"]
      BY <2>2, <2>3, <3>1, GotShape
    <3> QED
      BY <2>2, <3>1, <3>2, GotShape
  <2> QED
    BY <2>1, <2>4 DEF c
<1>5. CASE LoadFail(t)
  BY <1>2, <1>3, <1>5 DEF LoadFail
<1>6. CASE LoadDone(t)
  <2> DEFINE v == load[t].value
  <2>1. \/ r \in reqs \ Waiting(t)
        \/ \E q \in Waiting(t) :
             IF v = None THEN r = [q EXCEPT !.stage = "done", !.reply = "error"]
             ELSE r = [q EXCEPT !.stage = "got", !.got = Copy(0, v)]
    BY <1>6 DEF LoadDone, LoadedId
  <2> QED
    BY <1>2, <1>3, <1>4, <2>1
<1> QED
  BY <1>5, <1>6

LEMMA LoadSubmits ==
  ASSUME NEW t \in Tweets, LoadDone(t)
  PROVE  \/ tasks' = tasks
         \/ /\ load[t].value # None
            /\ tasks' = tasks \cup {SetTask(Copy(0, load[t].value))}
<1>1. \/ tasks' = tasks
      \/ (load[t].value # None /\ Submit(SetTask(Copy(LoadedId(t), load[t].value))))
  BY DEF LoadDone
<1> QED
  BY <1>1 DEF Submit, LoadedId

LEMMA LoadTypeNext ==
  ASSUME TInv, NEW t \in Tweets, Load(t)
  PROVE  TInv'
<1>q. TypeOK
  BY DEF TInv
<1>n. NoLoad \in Loads
  BY DEF NoLoad, Loads
<1>1. CASE LoadRead(t)
  <2>1. [stage |-> "read", value |-> row[t]] \in Loads
    BY <1>q DEF TypeOK, Loads
  <2>2. load' \in [Tweets -> Loads]
    BY <1>1, <1>q, <2>1 DEF LoadRead, TypeOK
  <2> QED
    BY <1>1, <1>q, <2>2 DEF LoadRead, TInv, TypeOK, EditsWrite, TasksShaped
<1>2. CASE LoadDone(t) \/ LoadFail(t)
  <2>1. load' \in [Tweets -> Loads]
    BY <1>2, <1>q, <1>n DEF LoadDone, LoadFail, TypeOK
  <2>2. reqs' \subseteq Requests /\ EditsWrite'
    <3>1. ASSUME NEW r \in reqs' PROVE r \in reqs \/ \E q \in Waiting(t) : Became(q, r)
      BY <1>2, <1>q, <3>1, LoadMoves
    <3> QED
      BY <1>q, <3>1 DEF Waiting, Became, TInv, TypeOK, EditsWrite
  <2>3. tasks' \subseteq Tasks /\ faults' \in Nat /\ TasksShaped'
    <3>1. CASE LoadFail(t)
      <4>1. tasks' = tasks /\ faults' = faults + 1
        BY <3>1 DEF LoadFail, Fault
      <4> QED
        BY <1>q, <4>1 DEF TInv, TypeOK, TasksShaped
    <3>2. CASE LoadDone(t)
      <4>1. \/ tasks' = tasks
            \/ /\ load[t].value # None
               /\ tasks' = tasks \cup {SetTask(Copy(0, load[t].value))}
        BY <3>2, LoadSubmits
      <4>2. load[t].value \in Rows \cup {None}
        BY <1>q DEF TypeOK, Loads
      <4> QED
        <5>1. faults' = faults
          BY <3>2 DEF LoadDone
        <5>2. CASE tasks' = tasks
          BY <1>q, <5>1, <5>2 DEF TInv, TypeOK, TasksShaped
        <5>3. CASE tasks' # tasks
          <6> DEFINE c == Copy(0, load[t].value)
          <6>1. c \in Copies /\ tasks' = tasks \cup {SetTask(c)}
            BY <4>1, <4>2, <5>3, CopyShape
          <6> HIDE DEF c
          <6> QED
            BY <1>q, <5>1, <6>1, TaskShape DEF TInv, TypeOK, TasksShaped
        <5> QED
          BY <5>2, <5>3
    <3> QED
      BY <1>2, <3>1, <3>2
  <2> QED
    BY <1>2, <1>q, <2>1, <2>2, <2>3 DEF LoadDone, LoadFail, TInv, TypeOK
<1> QED
  BY <1>1, <1>2 DEF Load

(* What was chosen to be written of a list is of the list. *)
LEMMA Chosen ==
  ASSUME TypeOK, NEW k \in tasks, NEW written, RunSetNX(k, written), NEW x \in Tweets
  PROVE  \/ cache'[x] = cache[x]
         \/ /\ cache[x] = None /\ cache'[x] \in k.copies /\ cache'[x].id = x
            /\ Gone(x) => x \in exposed'
<1> DEFINE new == {c \in written : cache[c.id] = None}
<1>1. CASE \E c \in new : c.id = x
  <2>1. (CHOOSE c \in new : c.id = x) \in new /\ (CHOOSE c \in new : c.id = x).id = x
    BY <1>1
  <2>2. cache'[x] = CHOOSE c \in new : c.id = x
    BY <1>1 DEF RunSetNX
  <2>3. x \in {c.id : c \in new}
    BY <1>1
  <2>4. Gone(x) => x \in exposed'
    BY <2>3 DEF RunSetNX, Filled
  <2> HIDE DEF new
  <2>5. cache'[x] \in new /\ cache'[x].id = x
    BY <2>1, <2>2
  <2> QED
    BY <2>4, <2>5 DEF RunSetNX, new
<1>2. CASE ~\E c \in new : c.id = x
  BY <1>2 DEF RunSetNX
<1> QED
  BY <1>1, <1>2

LEMMA TaskTypeNext ==
  ASSUME TInv, NEW k \in tasks, RunTask(k)
  PROVE  TInv'
<1>q. TypeOK /\ k \in Tasks /\ k.copies \subseteq Copies
  BY DEF TInv, TypeOK, Tasks
<1>k. tasks' \subseteq tasks /\ UNCHANGED <<row, posted, load, reqs, lists, seen>>
  BY DEF RunTask, RunSet, RunSetFail, RunSetNX, RunDrop
<1> SUFFICES cache' \in [Tweets -> Copies \cup {None}] /\ faults' \in Nat /\ exposed' \subseteq Tweets
  BY <1>q, <1>k DEF TInv, TypeOK, EditsWrite, TasksShaped
<1>1. CASE RunSet(k)
  BY <1>1, <1>q, PutTyped DEF RunSet, Filled, TypeOK
<1>2. CASE RunSetFail(k)
  BY <1>2, <1>q, PutTyped DEF RunSetFail, Fault, TypeOK
<1>3. ASSUME NEW written \in SUBSET k.copies, RunSetNX(k, written)
      PROVE  cache' \in [Tweets -> Copies \cup {None}] /\ faults' \in Nat /\ exposed' \subseteq Tweets
  <2>1. \A x \in Tweets : cache'[x] \in Copies \cup {None}
    BY <1>q, <1>3, Chosen DEF TypeOK
  <2>2. cache' = [x \in Tweets |-> cache'[x]]
    BY <1>3 DEF RunSetNX
  <2>3. \A c \in written : cache[c.id] = None => c.id \in Tweets \cup {0}
    BY <1>q DEF Copies
  <2>4. faults' \in Nat
    BY <1>q, <1>3 DEF RunSetNX, Fault, TypeOK
  <2>5. exposed' = exposed \cup {t \in {c.id : c \in {d \in written : cache[d.id] = None}} : Gone(t)}
    BY <1>3 DEF RunSetNX, Filled
  <2>6. \A t : Gone(t) => t \in Tweets
    BY <1>q DEF Gone, TypeOK
  <2> QED
    BY <1>q, <2>1, <2>2, <2>4, <2>5, <2>6 DEF TypeOK
<1>4. CASE RunDrop(k)
  <2>1. k.tweet \in Tweets
    BY <1>4 DEF RunDrop, TInv, TasksShaped
  <2> QED
    BY <1>4, <1>q, <2>1, InvalidateTyped DEF RunDrop, LastInvalidate, TypeOK
<1> QED
  BY <1>1, <1>2, <1>3, <1>4 DEF RunTask

LEMMA Arrives ==
  ASSUME NEW t \in Tweets, NEW c \in Clients, Arrive(c, t)
  PROVE  /\ t \in posted
         /\ \E q \in Requests :
              /\ reqs' = reqs \cup {q} /\ (q.op = "edit" => q.content \in Contents)
              /\ q.client = c /\ q.tweet = t /\ q.stage = "get" /\ q.got = None
<1>1. ASSUME NEW op \in {"fetch", "edit", "remove"}, NEW u \in Users \cup {None},
             NEW x \in Contents \cup {None}, Begin(c, op, t, u, x)
      PROVE  /\ t \in posted
             /\ \E q \in Requests : /\ reqs' = reqs \cup {q} /\ q.op = op /\ q.content = x
                                    /\ q.client = c /\ q.tweet = t
                                    /\ q.stage = "get" /\ q.got = None
  <2> DEFINE q == [client |-> c, op |-> op, tweet |-> t, user |-> u, content |-> x,
                   got |-> None, stage |-> "get", reply |-> "none"]
  <2>1. q \in Requests
    BY DEF Requests
  <2>2. t \in posted /\ reqs' = reqs \cup {q}
    BY <1>1 DEF Begin
  <2> QED
    BY <2>1, <2>2
<1>2. CASE Begin(c, "fetch", t, None, None)
  BY <1>1, <1>2
<1>3. ASSUME NEW u \in Users, Begin(c, "remove", t, u, None)
      PROVE  /\ t \in posted
             /\ \E q \in Requests : /\ reqs' = reqs \cup {q} /\ q.op = "remove"
                                    /\ q.client = c /\ q.tweet = t
                                    /\ q.stage = "get" /\ q.got = None
  BY <1>1, <1>3
<1>4. ASSUME NEW u \in Users, NEW x \in Contents, Begin(c, "edit", t, u, x)
      PROVE  /\ t \in posted
             /\ \E q \in Requests : /\ reqs' = reqs \cup {q} /\ q.content = x
                                    /\ q.client = c /\ q.tweet = t
                                    /\ q.stage = "get" /\ q.got = None
  BY <1>1, <1>4
<1> QED
  BY <1>2, <1>3, <1>4 DEF Arrive

LEMMA TypeNext == TInv /\ [Next]_vars => TInv'
<1> SUFFICES ASSUME TInv, [Next]_vars PROVE TInv'
  OBVIOUS
<1>q. TypeOK
  BY DEF TInv
<1>1. ASSUME NEW t \in Tweets, NEW u \in Users, NEW x \in Contents, Create(t, u, x) PROVE TInv'
  <2> DEFINE new == [owner |-> u, content |-> x]
  <2>1. new \in Rows /\ Copy(t, new) \in Copies /\ Copy(t, new).id = t
    BY CopyShape DEF Rows
  <2>2. /\ row' = [row EXCEPT ![t] = new] /\ posted' = posted \cup {t}
        /\ tasks' = tasks \cup {SetTask(Copy(t, new))}
        /\ UNCHANGED <<cache, load, reqs, lists, faults, exposed, seen>>
    BY <1>1 DEF Create, Submit
  <2> HIDE DEF new
  <2> QED
    BY <1>q, <2>1, <2>2, TaskShape DEF TInv, TypeOK, EditsWrite, TasksShaped
<1>2. ASSUME NEW t \in Tweets, Load(t) PROVE TInv'
  BY <1>2, LoadTypeNext
<1>3. ASSUME NEW t \in Tweets, NEW c \in Clients, Arrive(c, t) PROVE TInv'
  <2>1. PICK q \in Requests :
          reqs' = reqs \cup {q} /\ (q.op = "edit" => q.content \in Contents)
    BY <1>3, Arrives
  <2>2. UNCHANGED <<row, posted, cache, tasks, load, lists, faults, exposed>>
    BY <1>3 DEF Arrive, Begin
  <2>3. seen' \in [Clients -> SUBSET Contents]
    <3>1. ContentOf(row[t]) \in SUBSET Contents
      BY <1>q, ContentTyped DEF TypeOK
    <3>2. seen' = [seen EXCEPT ![c] = ContentOf(row[t])]
      BY <1>3 DEF Arrive, Begin
    <3> QED
      BY <1>q, <3>1, <3>2 DEF TypeOK
  <2> QED
    BY <1>q, <2>1, <2>2, <2>3 DEF TInv, TypeOK, EditsWrite, TasksShaped
<1>4. ASSUME NEW q \in reqs, Serve(q) PROVE TInv'
  BY <1>4, ServeTypeNext
<1>5. ASSUME NEW T \in SUBSET Tweets, ListMiss(T) PROVE TInv'
  BY <1>q, <1>5 DEF ListMiss, TInv, TypeOK, EditsWrite, TasksShaped
<1>6. ASSUME NEW T \in SUBSET Tweets, ListLoad(T) PROVE TInv'
  <2> DEFINE found == {Copy(t, row[t]) : t \in {s \in T : row[s] # None}}
  <2>1. found \in SUBSET Copies
    BY <1>q, CopyShape DEF TypeOK
  <2>2. tasks' = tasks \/ tasks' = tasks \cup {SetNXTask(found)}
    BY <1>6 DEF ListLoad, Submit
  <2>3. lists' \subseteq lists /\ UNCHANGED <<row, posted, cache, load, reqs, faults, exposed, seen>>
    BY <1>6 DEF ListLoad
  <2> HIDE DEF found
  <2> QED
    BY <1>q, <2>1, <2>2, <2>3, TaskShape DEF TInv, TypeOK, EditsWrite, TasksShaped
<1>7. ASSUME NEW k \in tasks, RunTask(k) PROVE TInv'
  BY <1>7, TaskTypeNext
<1>8. ASSUME NEW t \in Tweets, Expire(t) PROVE TInv'
  BY <1>q, <1>8 DEF Expire, TInv, TypeOK, EditsWrite, TasksShaped
<1>9. CASE Crash
  <2>1. NoLoad \in Loads
    BY DEF NoLoad, Loads
  <2>2. exposed' \subseteq Tweets /\ faults' \in Nat
    BY <1>q, <1>9 DEF Crash, Fault, TypeOK
  <2> QED
    BY <1>q, <1>9, <2>1, <2>2 DEF Crash, TInv, TypeOK, EditsWrite, TasksShaped
<1>10. CASE UNCHANGED vars
  BY <1>q, <1>10 DEF vars, TInv, TypeOK, EditsWrite, TasksShaped
<1> QED
  BY <1>1, <1>2, <1>3, <1>4, <1>5, <1>6, <1>7, <1>8, <1>9, <1>10 DEF Next

(* Every reachable state of Tweets is well typed: an edit writes a content *)
(* and a delayed deletion names a tweet.                                   *)
THEOREM TypeCorrect == Spec => []TypeOK
<1>1. TInv => TypeOK
  BY DEF TInv
<1> QED
  BY <1>1, InitTyped, TypeNext, PTL DEF Spec

-----------------------------------------------------------------------------
(* Owners. *)

(* What is known of tweet t, that its owner is o, is so as long as its row *)
(* is there.                                                               *)
Fits(t, o) == t \in posted /\ (row[t] # None => row[t].owner = o)

RowsPosted == \A t \in Tweets : row[t] # None => t \in posted
CacheFits == \A t \in Tweets : cache[t] # None => Fits(t, cache[t].owner)
LoadsFit == \A t \in Tweets : load[t].value # None => Fits(t, load[t].value.owner)
TasksFit == \A k \in tasks : \A c \in k.copies : c.id # 0 => Fits(c.id, c.owner)

RequestFits(q) ==
  /\ q.tweet \in posted
  /\ q.got # None => Fits(q.tweet, q.got.owner)
  /\ q.stage = "got" => q.got # None
  /\ q.stage = "store" => Fits(q.tweet, q.user)
  /\ q.stage = "drop" /\ q.op = "remove" => row[q.tweet] = None

RequestsFit == \A q \in reqs : RequestFits(q)

OwnersFit == RowsPosted /\ CacheFits /\ LoadsFit /\ TasksFit /\ RequestsFit

(* Rows change when a tweet is created or a request is served. *)
LEMMA OthersKeepRows ==
  ASSUME [Next]_vars, ~\E q \in reqs : Serve(q),
         ~\E t \in Tweets, u \in Users, x \in Contents : Create(t, u, x)
  PROVE  row' = row /\ posted' = posted
<1>1. ASSUME NEW t \in Tweets, Load(t) PROVE row' = row /\ posted' = posted
  BY <1>1 DEF Load, LoadRead, LoadDone, LoadFail
<1>2. ASSUME NEW t \in Tweets, NEW c \in Clients, Arrive(c, t)
      PROVE  row' = row /\ posted' = posted
  BY <1>2 DEF Arrive, Begin
<1>3. ASSUME NEW T, ListMiss(T) \/ ListLoad(T) PROVE row' = row /\ posted' = posted
  BY <1>3 DEF ListMiss, ListLoad
<1>4. ASSUME NEW k \in tasks, RunTask(k) PROVE row' = row /\ posted' = posted
  BY <1>4 DEF RunTask, RunSet, RunSetFail, RunSetNX, RunDrop
<1>5. ASSUME NEW t \in Tweets, Expire(t) PROVE row' = row /\ posted' = posted
  BY <1>5 DEF Expire
<1>6. CASE Crash
  BY <1>6 DEF Crash
<1>7. CASE UNCHANGED vars
  BY <1>7 DEF vars
<1> QED
  BY <1>1, <1>2, <1>3, <1>4, <1>5, <1>6, <1>7 DEF Next

(* No step but Create gives a tweet a row, and none changes its owner. *)
LEMMA RowMoves ==
  ASSUME TInv, [Next]_vars, ~\E t \in Tweets, u \in Users, x \in Contents : Create(t, u, x)
  PROVE  /\ posted' = posted
         /\ \A t \in Tweets : row'[t] # None => row[t] # None /\ row'[t].owner = row[t].owner
<1>q. TypeOK
  BY DEF TInv
<1>1. ASSUME NEW q \in reqs, Serve(q)
      PROVE  /\ posted' = posted
             /\ \A t \in Tweets : row'[t] # None => row[t] # None /\ row'[t].owner = row[t].owner
  <2>p. posted' = posted
    BY <1>1 DEF Serve, Hit, Miss, AnswerFetch, AnswerStranger, CheckEdit, CheckRemove, UpdateRow,
       DeleteRow, DropAfterUpdate, DropAfterDelete, End
  <2>1. CASE UpdateRow(q)
    <3>1. \/ row' = row
          \/ row[q.tweet] # None /\ row' = [row EXCEPT ![q.tweet] = [@ EXCEPT !.content = q.content]]
      BY <2>1 DEF UpdateRow
    <3>2. \A t \in Tweets : row[t] \in Rows \cup {None}
      BY <1>q DEF TypeOK
    <3>3. \A r \in Rows : [r EXCEPT !.content = q.content].owner = r.owner
      BY DEF Rows
    <3>4. ASSUME NEW t \in Tweets, row'[t] # None PROVE row[t] # None /\ row'[t].owner = row[t].owner
      <4>1. CASE row'[t] = row[t]
        BY <3>4, <4>1
      <4>2. CASE row'[t] # row[t]
        <5>1. t = q.tweet /\ row[t] # None /\ row'[t] = [row[t] EXCEPT !.content = q.content]
          BY <1>q, <3>1, <4>2 DEF TypeOK
        <5> QED
          BY <3>2, <3>3, <5>1
      <4> QED
        BY <4>1, <4>2
    <3> QED
      BY <2>p, <3>4
  <2>2. CASE DeleteRow(q)
    BY <2>p, <2>2, <1>q DEF DeleteRow, TypeOK
  <2>3. CASE ~UpdateRow(q) /\ ~DeleteRow(q)
    <3>1. row' = row
      BY <1>1, <2>3 DEF Serve, Hit, Miss, AnswerFetch, AnswerStranger, CheckEdit, CheckRemove,
         DropAfterUpdate, DropAfterDelete, End
    <3> QED
      BY <2>p, <3>1
  <2> QED
    BY <2>1, <2>2, <2>3
<1>2. CASE ~\E q \in reqs : Serve(q)
  <2>1. row' = row /\ posted' = posted
    BY <1>2, OthersKeepRows
  <2> QED
    BY <2>1
<1> QED
  BY <1>1, <1>2

(* Then what fits stays so. *)
LEMMA FitsKept ==
  ASSUME TInv, [Next]_vars, ~\E t \in Tweets, u \in Users, x \in Contents : Create(t, u, x)
  PROVE  \A t \in Tweets : \A o : Fits(t, o) => Fits(t, o)'
BY RowMoves DEF Fits

LEMMA InitFits == Init => OwnersFit
BY DEF Init, OwnersFit, RowsPosted, CacheFits, LoadsFit, TasksFit, RequestsFit, NoLoad

(* A new row: nothing was known of the tweet before. *)
LEMMA CreateFits ==
  ASSUME TInv, OwnersFit, NEW t \in Tweets, NEW u \in Users, NEW x \in Contents, Create(t, u, x)
  PROVE  OwnersFit'
<1>q. TypeOK
  BY DEF TInv
<1> DEFINE new == [owner |-> u, content |-> x]
<1>1. new \in Rows /\ new.owner = u
  BY DEF Rows
<1>2. /\ t \notin posted /\ posted' = posted \cup {t} /\ row' = [row EXCEPT ![t] = new]
      /\ tasks' = tasks \cup {SetTask(Copy(t, new))}
      /\ UNCHANGED <<cache, load, reqs, lists, faults, exposed>>
  BY DEF Create, Submit
<1> HIDE DEF new
<1>3. \A s \in Tweets : \A o : Fits(s, o) => s # t /\ Fits(s, o)'
  BY <1>q, <1>2 DEF Fits, TypeOK
<1>4. Fits(t, u)'
  BY <1>q, <1>1, <1>2 DEF Fits, TypeOK
<1>5. RowsPosted'
  BY <1>q, <1>2 DEF OwnersFit, RowsPosted, TypeOK
<1>6. CacheFits' /\ LoadsFit'
  BY <1>2, <1>3 DEF OwnersFit, CacheFits, LoadsFit
<1>7. TasksFit'
  <2>1. \A k \in tasks : \A c \in k.copies : c.id \in Tweets \cup {0}
    BY <1>q DEF TypeOK, Tasks, Copies
  <2> DEFINE copy == Copy(t, new)
  <2>2. copy.id = t /\ copy.owner = u /\ copy \in Copies
    BY <1>1, CopyShape
  <2> HIDE DEF copy
  <2>3. SetTask(copy).copies = {copy}
    BY <2>2, TaskShape
  <2>4. tasks' = tasks \cup {SetTask(copy)}
    BY <1>2 DEF copy
  <2>5. ASSUME NEW k \in tasks', NEW c \in k.copies, c.id # 0 PROVE Fits(c.id, c.owner)'
    <3>1. CASE k \in tasks
      BY <1>3, <2>1, <2>5, <3>1 DEF OwnersFit, TasksFit
    <3>2. CASE k = SetTask(copy)
      BY <1>4, <2>2, <2>3, <3>2
    <3> QED
      BY <2>4, <3>1, <3>2
  <2> QED
    BY <2>5 DEF TasksFit
<1>8. RequestsFit'
  <2>1. ASSUME NEW q \in reqs PROVE RequestFits(q)'
    <3>1. q.tweet \in Tweets /\ RequestFits(q)
      BY <1>q DEF OwnersFit, RequestsFit, TypeOK, Requests
    <3>2. q.tweet \in posted /\ q.tweet # t
      BY <1>2, <3>1 DEF RequestFits
    <3>3. row'[q.tweet] = row[q.tweet] /\ q.tweet \in posted'
      BY <1>2, <1>q, <3>1, <3>2 DEF TypeOK
    <3> QED
      BY <1>3, <3>1, <3>3 DEF RequestFits
  <2> QED
    BY <1>2, <2>1 DEF RequestsFit
<1> QED
  BY <1>5, <1>6, <1>7, <1>8 DEF OwnersFit

(* What a request becomes when it is served fits. *)
LEMMA ServedFits ==
  ASSUME TInv, OwnersFit, NEW q \in reqs, Serve(q), [Next]_vars,
         ~\E t \in Tweets, u \in Users, x \in Contents : Create(t, u, x)
  PROVE  RequestsFit'
<1>q. TypeOK /\ q \in Requests /\ q.tweet \in Tweets /\ RequestFits(q)
  BY DEF TInv, TypeOK, Requests, OwnersFit, RequestsFit
<1>k. \A p \in Requests : RequestFits(p) => RequestFits(p)'
  <2>1. \A t \in Tweets : row[t] = None => row'[t] = None
    BY RowMoves
  <2>2. posted' = posted
    BY RowMoves
  <2> QED
    BY <2>1, <2>2, FitsKept DEF RequestFits, Requests
<1>o. \A p \in reqs : p \in Requests /\ RequestFits(p)'
  BY <1>k, <1>q DEF TypeOK, OwnersFit, RequestsFit
<1>e. ASSUME NEW r, reqs' = (reqs \ {q}) \cup {r}, RequestFits(r)' PROVE RequestsFit'
  BY <1>o, <1>e DEF RequestsFit
<1>1. ASSUME NEW c \in Copies, Hit(q), cache[q.tweet] = c PROVE RequestsFit'
  <2> DEFINE r == [q EXCEPT !.got = c, !.stage = "got"]
  <2>1. c # None /\ reqs' = (reqs \ {q}) \cup {r}
    BY <1>1 DEF Hit
  <2>2. r.tweet = q.tweet /\ r.got = c /\ r.stage = "got"
    BY <1>q, GotShape DEF Became
  <2>3. Fits(q.tweet, c.owner)' /\ RequestFits(q)'
    <3>1. Fits(q.tweet, c.owner)
      BY <1>1, <1>q, <2>1 DEF OwnersFit, CacheFits
    <3> QED
      BY <1>q, <1>k, <3>1, FitsKept
  <2> HIDE DEF r
  <2>4. RequestFits(r)'
    BY <2>1, <2>2, <2>3 DEF RequestFits
  <2> QED
    BY <1>e, <2>1, <2>4
<1>h. ASSUME Hit(q) PROVE cache[q.tweet] \in Copies
  BY <1>h, <1>q DEF Hit, TypeOK
<1>2. CASE End(q)
  BY <1>2, <1>o DEF End, RequestsFit
<1>3. ASSUME NEW s \in {"wait", "store", "drop"}, Step(q, s),
             s = "store" => Fits(q.tweet, q.user),
             s = "drop" /\ q.op = "remove" => row'[q.tweet] = None
      PROVE  RequestsFit'
  <2> DEFINE r == [q EXCEPT !.stage = s]
  <2>1. /\ r.tweet = q.tweet /\ r.user = q.user /\ r.op = q.op /\ r.stage = s /\ r.got = q.got
        /\ reqs' = (reqs \ {q}) \cup {r}
    BY <1>3, <1>q, StepShape DEF Step, Became
  <2>2. RequestFits(q)' /\ (s = "store" => Fits(q.tweet, q.user)')
    BY <1>3, <1>q, <1>k, FitsKept
  <2> HIDE DEF r
  <2>3. RequestFits(r)'
    BY <1>3, <2>1, <2>2 DEF RequestFits
  <2> QED
    BY <1>e, <2>1, <2>3
<1>4. ASSUME NEW a \in {"ok", "error"}, Reply(q, a) PROVE RequestsFit'
  <2> DEFINE r == [q EXCEPT !.stage = "done", !.reply = a]
  <2>1. /\ r.tweet = q.tweet /\ r.user = q.user /\ r.op = q.op /\ r.stage = "done" /\ r.got = q.got
        /\ reqs' = (reqs \ {q}) \cup {r}
    BY <1>4, <1>q, ReplyShape DEF Reply, Became
  <2>2. RequestFits(q)'
    BY <1>q, <1>k
  <2> HIDE DEF r
  <2>3. RequestFits(r)'
    BY <2>1, <2>2 DEF RequestFits
  <2> QED
    BY <1>e, <2>1, <2>3
<1>5. CASE Miss(q)
  BY <1>3, <1>5 DEF Miss
<1>6. CASE AnswerFetch(q) \/ AnswerStranger(q)
  BY <1>4, <1>6 DEF AnswerFetch, AnswerStranger
<1>7. CASE CheckEdit(q) \/ CheckRemove(q)
  <2>1. q.stage = "got" /\ q.got.owner = q.user
    BY <1>7 DEF CheckEdit, CheckRemove, Owns
  <2>2. Fits(q.tweet, q.user)
    BY <1>q, <2>1 DEF RequestFits
  <2>3. Step(q, "store") \/ Reply(q, "ok") \/ Reply(q, "error")
    BY <1>7 DEF CheckEdit, CheckRemove
  <2> QED
    BY <1>3, <1>4, <2>2, <2>3
<1>8. CASE UpdateRow(q)
  <2>1. q.op = "edit" /\ (Step(q, "drop") \/ Reply(q, "error"))
    BY <1>8 DEF UpdateRow
  <2> QED
    BY <1>3, <1>4, <2>1
<1>9. CASE DeleteRow(q)
  <2>1. (row'[q.tweet] = None /\ Step(q, "drop")) \/ Reply(q, "error")
    BY <1>9, <1>q DEF DeleteRow, TypeOK
  <2> QED
    BY <1>3, <1>4, <2>1
<1>10. CASE DropAfterUpdate(q) \/ DropAfterDelete(q)
  BY <1>4, <1>10 DEF DropAfterUpdate, DropAfterDelete
<1> QED
  BY <1>1, <1>h, <1>2, <1>5, <1>6, <1>7, <1>8, <1>9, <1>10 DEF Serve

(* The other parts, when no tweet is created: what is new is a copy of     *)
(* what was there.                                                         *)
LEMMA RowsStayPosted ==
  ASSUME TInv, OwnersFit, [Next]_vars,
         ~\E t \in Tweets, u \in Users, x \in Contents : Create(t, u, x)
  PROVE  RowsPosted'
BY RowMoves DEF OwnersFit, RowsPosted

LEMMA CacheStaysFit ==
  ASSUME TInv, OwnersFit, [Next]_vars,
         ~\E t \in Tweets, u \in Users, x \in Contents : Create(t, u, x)
  PROVE  CacheFits'
<1>q. TypeOK
  BY DEF TInv
<1>s. SUFFICES ASSUME NEW x \in Tweets, cache'[x] # None
               PROVE  \/ cache'[x] = cache[x]
                      \/ \E k \in tasks : \E c \in k.copies : c.id = x /\ cache'[x] = c
  <2>1. ASSUME NEW x \in Tweets, NEW c, c # None, cache[x] = c PROVE Fits(x, c.owner)'
    <3>1. Fits(x, c.owner)
      BY <2>1 DEF OwnersFit, CacheFits
    <3> QED
      BY <3>1, FitsKept
  <2>2. ASSUME NEW x \in Tweets, NEW k \in tasks, NEW c \in k.copies, c.id = x
        PROVE  Fits(x, c.owner)'
    <3>1. Fits(x, c.owner)
      BY <2>2, TweetsAssumption DEF OwnersFit, TasksFit
    <3> QED
      BY <3>1, FitsKept
  <2>3. ASSUME NEW x \in Tweets, NEW c, c # None, cache'[x] = c PROVE Fits(x, c.owner)'
    <3>1. \/ cache[x] = c
          \/ \E k \in tasks : \E d \in k.copies : d.id = x /\ c = d
      BY <1>s, <2>3
    <3> QED
      BY <2>1, <2>2, <2>3, <3>1
  <2> QED
    BY <2>3 DEF CacheFits
<1>1. ASSUME NEW q \in reqs, Serve(q) PROVE cache'[x] = cache[x]
  <2>1. CASE DropAfterUpdate(q) \/ DropAfterDelete(q)
    <3>1. Invalidate(q.tweet) /\ q.tweet \in Tweets
      BY <1>1, <1>q, <2>1 DEF DropAfterUpdate, DropAfterDelete, LastInvalidate, TypeOK, Requests
    <3> QED
      BY <1>q, <1>s, <3>1, InvalidateTyped
  <2>2. CASE ~DropAfterUpdate(q) /\ ~DropAfterDelete(q)
    BY <1>1, <2>2 DEF Serve, Hit, Miss, AnswerFetch, AnswerStranger, CheckEdit, CheckRemove,
       UpdateRow, DeleteRow, End
  <2> QED
    BY <2>1, <2>2
<1>2. ASSUME NEW k \in tasks, RunTask(k)
      PROVE  \/ cache'[x] = cache[x]
             \/ \E c \in k.copies : c.id = x /\ cache'[x] = c
  <2>1. CASE RunSet(k)
    BY <1>s, <2>1 DEF RunSet, Put
  <2>2. CASE RunSetFail(k)
    BY <1>s, <2>2 DEF RunSetFail, Put
  <2>3. ASSUME NEW written \in SUBSET k.copies, RunSetNX(k, written)
        PROVE  \/ cache'[x] = cache[x]
               \/ \E c \in k.copies : c.id = x /\ cache'[x] = c
    BY <1>q, <2>3, Chosen
  <2>4. CASE RunDrop(k)
    <3>1. k.tweet \in Tweets /\ Invalidate(k.tweet)
      BY <1>2, <2>4 DEF RunDrop, LastInvalidate, TInv, TasksShaped
    <3> QED
      BY <1>q, <1>s, <3>1, InvalidateTyped
  <2> QED
    BY <1>2, <2>1, <2>2, <2>3, <2>4 DEF RunTask
<1>3. ASSUME NEW t \in Tweets, Expire(t) PROVE cache'[x] = cache[x]
  BY <1>q, <1>s, <1>3 DEF Expire, TypeOK
<1>4. ASSUME NEW t \in Tweets, Load(t) PROVE cache'[x] = cache[x]
  BY <1>4 DEF Load, LoadRead, LoadDone, LoadFail
<1>5. ASSUME NEW t \in Tweets, NEW c \in Clients, Arrive(c, t) PROVE cache'[x] = cache[x]
  BY <1>5 DEF Arrive, Begin
<1>6. ASSUME NEW T, ListMiss(T) \/ ListLoad(T) PROVE cache'[x] = cache[x]
  BY <1>6 DEF ListMiss, ListLoad
<1>7. CASE Crash
  BY <1>7 DEF Crash
<1>8. CASE UNCHANGED vars
  BY <1>8 DEF vars
<1> QED
  BY <1>1, <1>2, <1>3, <1>4, <1>5, <1>6, <1>7, <1>8 DEF Next

LEMMA LoadsStayFit ==
  ASSUME TInv, OwnersFit, [Next]_vars,
         ~\E t \in Tweets, u \in Users, x \in Contents : Create(t, u, x)
  PROVE  LoadsFit'
<1>q. TypeOK
  BY DEF TInv
<1>s. SUFFICES ASSUME NEW x \in Tweets
               PROVE  load'[x].value \in {None, load[x].value, row[x]}
  <2>1. ASSUME NEW x \in Tweets, load'[x].value # None PROVE Fits(x, load'[x].value.owner)
    <3>1. CASE load'[x].value = load[x].value
      BY <2>1, <3>1 DEF OwnersFit, LoadsFit
    <3>2. CASE load'[x].value = row[x]
      BY <2>1, <3>2 DEF OwnersFit, RowsPosted, Fits
    <3> QED
      BY <1>s, <2>1, <3>1, <3>2
  <2> QED
    BY <2>1, FitsKept DEF LoadsFit
<1>1. ASSUME NEW q \in reqs, Serve(q) PROVE load'[x].value = load[x].value
  <2>1. CASE Miss(q)
    BY <1>q, <2>1 DEF Miss, TypeOK, Loads
  <2>2. CASE ~Miss(q)
    BY <1>1, <2>2 DEF Serve, Hit, AnswerFetch, AnswerStranger, CheckEdit, CheckRemove,
       UpdateRow, DeleteRow, DropAfterUpdate, DropAfterDelete, End
  <2> QED
    BY <2>1, <2>2
<1>2. ASSUME NEW t \in Tweets, Load(t) PROVE load'[x].value \in {None, load[x].value, row[x]}
  <2>1. CASE LoadRead(t)
    BY <1>q, <2>1 DEF LoadRead, TypeOK
  <2>2. CASE LoadDone(t) \/ LoadFail(t)
    <3>1. load' = [load EXCEPT ![t] = NoLoad]
      BY <2>2 DEF LoadDone, LoadFail
    <3> QED
      BY <1>q, <3>1 DEF NoLoad, TypeOK
  <2> QED
    BY <1>2, <2>1, <2>2 DEF Load
<1>3. ASSUME NEW t \in Tweets, Expire(t) PROVE load' = load
  BY <1>3 DEF Expire
<1>4. ASSUME NEW k \in tasks, RunTask(k) PROVE load' = load
  BY <1>4 DEF RunTask, RunSet, RunSetFail, RunSetNX, RunDrop
<1>5. ASSUME NEW t \in Tweets, NEW c \in Clients, Arrive(c, t) PROVE load' = load
  BY <1>5 DEF Arrive, Begin
<1>6. ASSUME NEW T, ListMiss(T) \/ ListLoad(T) PROVE load' = load
  BY <1>6 DEF ListMiss, ListLoad
<1>7. CASE Crash
  BY <1>7 DEF Crash, NoLoad
<1>8. CASE UNCHANGED vars
  BY <1>8 DEF vars
<1> QED
  BY <1>1, <1>2, <1>3, <1>4, <1>5, <1>6, <1>7, <1>8 DEF Next

(* A task whose copies, but those with id 0, say what the rows say. *)
Current(k) ==
  /\ k \in Tasks
  /\ \A c \in k.copies : c.id # 0 => /\ row[c.id] # None /\ c.owner = row[c.id].owner
                                     /\ c.content = row[c.id].content

LEMMA NewTasks ==
  ASSUME TInv, [Next]_vars,
         ~\E t \in Tweets, u \in Users, x \in Contents : Create(t, u, x)
  PROVE  \A k \in tasks' : k \in tasks \/ Current(k)
<1>q. TypeOK
  BY DEF TInv
<1>1. ASSUME NEW q \in reqs, Serve(q) PROVE \A k \in tasks' : k \in tasks \/ Current(k)
  <2>1. q.tweet \in Tweets
    BY <1>q DEF TypeOK, Requests
  <2>2. tasks' = tasks \/ tasks' = tasks \cup {DropTask(q.tweet)}
    BY <1>1 DEF Serve, Hit, Miss, AnswerFetch, AnswerStranger, CheckEdit, CheckRemove, UpdateRow,
       DeleteRow, DropAfterUpdate, DropAfterDelete, End, Submit
  <2> QED
    BY <2>1, <2>2, TaskShape DEF Current
<1>2. ASSUME NEW t \in Tweets, Load(t) PROVE \A k \in tasks' : k \in tasks \/ Current(k)
  <2>1. CASE LoadRead(t) \/ LoadFail(t)
    BY <2>1 DEF LoadRead, LoadFail
  <2>2. CASE LoadDone(t)
    <3> DEFINE v == load[t].value
               copy == Copy(0, v)
    <3>1. CASE v = None
      BY <2>2, <3>1, LoadSubmits
    <3>2. CASE v # None
      <4>1. v \in Rows
        BY <1>q, <3>2 DEF TypeOK, Loads
      <4>2. copy \in Copies /\ copy.id = 0
        BY <4>1, CopyShape
      <4>3. tasks' = tasks \/ tasks' = tasks \cup {SetTask(copy)}
        BY <2>2, LoadSubmits
      <4> HIDE DEF copy
      <4>4. Current(SetTask(copy))
        BY <4>2, TaskShape DEF Current
      <4> QED
        BY <4>3, <4>4
    <3> QED
      BY <3>1, <3>2
  <2> QED
    BY <1>2, <2>1, <2>2 DEF Load
<1>3. ASSUME NEW T \in SUBSET Tweets, ListLoad(T) PROVE \A k \in tasks' : k \in tasks \/ Current(k)
  <2> DEFINE found == {Copy(t, row[t]) : t \in {s \in T : row[s] # None}}
  <2>1. \A c \in found : c \in Copies /\ row[c.id] # None /\ c.owner = row[c.id].owner
                      /\ c.content = row[c.id].content
    <3>1. ASSUME NEW t \in T, row[t] # None
          PROVE  /\ Copy(t, row[t]) \in Copies /\ Copy(t, row[t]).id = t
                 /\ Copy(t, row[t]).owner = row[t].owner
                 /\ Copy(t, row[t]).content = row[t].content
      <4>1. row[t] \in Rows
        BY <1>q, <3>1 DEF TypeOK
      <4> QED
        BY <4>1, CopyShape
    <3> QED
      BY <3>1
  <2>2. tasks' = tasks \/ tasks' = tasks \cup {SetNXTask(found)}
    BY <1>3 DEF ListLoad, Submit
  <2> HIDE DEF found
  <2>3. found \in SUBSET Copies
    BY <2>1
  <2>4. Current(SetNXTask(found))
    BY <2>1, <2>3, TaskShape DEF Current
  <2> QED
    BY <2>2, <2>4
<1>4. ASSUME NEW k \in tasks, RunTask(k) PROVE tasks' \subseteq tasks
  BY <1>4 DEF RunTask, RunSet, RunSetFail, RunSetNX, RunDrop
<1>5. ASSUME NEW t \in Tweets, NEW c \in Clients, Arrive(c, t) PROVE tasks' = tasks
  BY <1>5 DEF Arrive, Begin
<1>6. ASSUME NEW T, ListMiss(T) PROVE tasks' = tasks
  BY <1>6 DEF ListMiss
<1>7. ASSUME NEW t \in Tweets, Expire(t) PROVE tasks' = tasks
  BY <1>7 DEF Expire
<1>8. CASE Crash
  BY <1>8 DEF Crash
<1>9. CASE UNCHANGED vars
  BY <1>9 DEF vars
<1> QED
  BY <1>1, <1>2, <1>3, <1>4, <1>5, <1>6, <1>7, <1>8, <1>9 DEF Next

LEMMA TasksStayFit ==
  ASSUME TInv, OwnersFit, [Next]_vars,
         ~\E t \in Tweets, u \in Users, x \in Contents : Create(t, u, x)
  PROVE  TasksFit'
<1>1. \A k \in Tasks : \A c \in k.copies : c.id # 0 => c.id \in Tweets
  BY DEF Tasks, Copies
<1>2. \A k \in tasks' : k \in Tasks
  BY TypeNext DEF TInv, TypeOK
<1>3. ASSUME NEW k \in tasks', NEW c \in k.copies, c.id # 0 PROVE Fits(c.id, c.owner)
  BY <1>1, <1>2, <1>3, NewTasks DEF OwnersFit, TasksFit, RowsPosted, Fits, Current
<1> QED
  BY <1>1, <1>2, <1>3, FitsKept DEF TasksFit

LEMMA RequestsStayFit ==
  ASSUME TInv, OwnersFit, [Next]_vars,
         ~\E t \in Tweets, u \in Users, x \in Contents : Create(t, u, x)
  PROVE  RequestsFit'
<1>q. TypeOK
  BY DEF TInv
<1>k. \A p \in reqs : p \in Requests /\ RequestFits(p)'
  <2>1. \A t \in Tweets : row[t] = None => row'[t] = None
    BY RowMoves
  <2>2. \A p \in reqs : p \in Requests /\ RequestFits(p)
    BY <1>q DEF TypeOK, OwnersFit, RequestsFit
  <2>3. posted' = posted
    BY RowMoves
  <2> QED
    BY <2>1, <2>2, <2>3, FitsKept DEF RequestFits, Requests
<1>1. ASSUME NEW q \in reqs, Serve(q) PROVE RequestsFit'
  BY <1>1, ServedFits
<1>2. ASSUME NEW t \in Tweets, LoadDone(t) \/ LoadFail(t) PROVE RequestsFit'
  <2>1. ASSUME NEW q \in Waiting(t), NEW v \in Rows, load[t].value = v, NEW r, Became(q, r),
               r.stage = "got", r.got = Copy(0, v)
        PROVE  RequestFits(r)'
    <3>1. q \in reqs /\ q.tweet = t
      BY DEF Waiting
    <3>2. v # None /\ Copy(0, v) # None /\ Copy(0, v).owner = v.owner
      BY NoneIs, CopyShape
    <3>3. Fits(t, v.owner)
      BY <2>1, <3>2 DEF OwnersFit, LoadsFit
    <3>4. Fits(t, v.owner)' /\ RequestFits(q)'
      BY <1>k, <3>1, <3>3, FitsKept
    <3>5. r.tweet = t /\ r.got # None /\ r.got.owner = v.owner
      BY <2>1, <3>1, <3>2 DEF Became
    <3> QED
      BY <2>1, <3>1, <3>4, <3>5 DEF RequestFits
  <2>2. ASSUME NEW q \in Waiting(t), NEW r, Became(q, r), r.stage = "done", r.got = q.got
        PROVE  RequestFits(r)'
    <3>1. RequestFits(q)' /\ r.tweet = q.tweet
      BY <1>k, <2>2 DEF Waiting, Became
    <3> QED
      BY <2>2, <3>1 DEF RequestFits
  <2>3. ASSUME NEW r \in reqs' PROVE RequestFits(r)'
    <3>1. \/ r \in reqs
          \/ \E q \in Waiting(t) :
               /\ Became(q, r)
               /\ \/ r.stage = "done" /\ r.got = q.got
                  \/ /\ r.stage = "got" /\ load[t].value \in Rows
                     /\ r.got = Copy(0, load[t].value)
      BY <1>2, <1>q, LoadMoves
    <3> QED
      BY <1>k, <2>1, <2>2, <3>1
  <2> QED
    BY <2>3 DEF RequestsFit
<1>3. ASSUME NEW t \in Tweets, NEW c \in Clients, Arrive(c, t) PROVE RequestsFit'
  <2>1. PICK q \in Requests : /\ reqs' = reqs \cup {q} /\ q.tweet = t
                              /\ q.stage = "get" /\ q.got = None
    BY <1>3, Arrives
  <2>2. t \in posted'
    BY <1>3, Arrives, RowMoves
  <2>3. RequestFits(q)'
    BY <2>1, <2>2 DEF RequestFits
  <2> QED
    BY <1>k, <2>1, <2>3 DEF RequestsFit
<1>4. ASSUME reqs' \subseteq reqs PROVE RequestsFit'
  BY <1>k, <1>4 DEF RequestsFit
<1>5. ASSUME NEW t \in Tweets, LoadRead(t) PROVE reqs' = reqs
  BY <1>5 DEF LoadRead
<1>6. ASSUME NEW T, ListMiss(T) \/ ListLoad(T) PROVE reqs' = reqs
  BY <1>6 DEF ListMiss, ListLoad
<1>7. ASSUME NEW k \in tasks, RunTask(k) PROVE reqs' = reqs
  BY <1>7 DEF RunTask, RunSet, RunSetFail, RunSetNX, RunDrop
<1>8. ASSUME NEW t \in Tweets, Expire(t) PROVE reqs' = reqs
  BY <1>8 DEF Expire
<1>9. CASE Crash
  BY <1>4, <1>9 DEF Crash
<1>10. CASE UNCHANGED vars
  BY <1>4, <1>10 DEF vars
<1> QED
  BY <1>1, <1>2, <1>3, <1>4, <1>5, <1>6, <1>7, <1>8, <1>9, <1>10 DEF Next, Load

LEMMA FitsNext == TInv /\ OwnersFit /\ [Next]_vars => OwnersFit'
<1> SUFFICES ASSUME TInv, OwnersFit, [Next]_vars PROVE OwnersFit'
  OBVIOUS
<1>1. ASSUME NEW t \in Tweets, NEW u \in Users, NEW x \in Contents, Create(t, u, x)
      PROVE  OwnersFit'
  BY <1>1, CreateFits
<1>2. CASE ~\E t \in Tweets, u \in Users, x \in Contents : Create(t, u, x)
  BY <1>2, RowsStayPosted, CacheStaysFit, LoadsStayFit, TasksStayFit, RequestsStayFit DEF OwnersFit
<1> QED
  BY <1>1, <1>2

(* A row's owner is the only one for whom a step changes or deletes it.    *)
LEMMA OwnersStep ==
  ASSUME TInv, OwnersFit, [Next]_vars, NEW t \in Tweets, row[t] # None, row'[t] # row[t]
  PROVE  \E q \in reqs : /\ q.tweet = t /\ q.user = row[t].owner
                         /\ q.stage = "store" /\ q.op # "fetch"
<1>q. TypeOK
  BY DEF TInv
<1>1. ASSUME NEW q \in reqs, UpdateRow(q) \/ DeleteRow(q)
      PROVE  /\ q.tweet = t /\ q.user = row[t].owner
             /\ q.stage = "store" /\ q.op # "fetch"
  <2>1. q.stage = "store" /\ q.op # "fetch" /\ q.tweet \in Tweets
    BY <1>1, <1>q DEF UpdateRow, DeleteRow, TypeOK, Requests
  <2>2. q.tweet = t
    BY <1>1, <1>q, <2>1 DEF UpdateRow, DeleteRow, TypeOK
  <2>3. Fits(q.tweet, q.user)
    BY <2>1 DEF OwnersFit, RequestsFit, RequestFits
  <2> QED
    BY <2>1, <2>2, <2>3 DEF Fits
<1>2. ASSUME NEW s \in Tweets, NEW u \in Users, NEW x \in Contents, Create(s, u, x) PROVE FALSE
  <2>1. s # t
    BY <1>2 DEF Create, OwnersFit, RowsPosted
  <2> QED
    BY <1>2, <1>q, <2>1 DEF Create, TypeOK
<1>3. ASSUME NEW q \in reqs, Serve(q), ~UpdateRow(q), ~DeleteRow(q) PROVE row' = row
  BY <1>3 DEF Serve, Hit, Miss, AnswerFetch, AnswerStranger, CheckEdit, CheckRemove,
     DropAfterUpdate, DropAfterDelete, End
<1>4. CASE ~\E q \in reqs : Serve(q)
  BY <1>2, <1>4, OthersKeepRows
<1> QED
  BY <1>1, <1>3, <1>4

(* A tweet is edited or removed only for its owner, through whatever       *)
(* copies, loads and pool tasks the service got the copy it checked.       *)
THEOREM OwnersOnly == Spec => OwnerOnly
<1>1. TInv /\ OwnersFit /\ [Next]_vars =>
        [\A t \in Tweets :
           row[t] # None /\ row'[t] # row[t]
             => \E q \in reqs : /\ q.tweet = t /\ q.user = row[t].owner
                                /\ q.stage = "store" /\ q.op # "fetch"]_vars
  BY OwnersStep
<1> QED
  BY <1>1, InitTyped, TypeNext, InitFits, FitsNext, PTL DEF Spec, OwnerOnly

-----------------------------------------------------------------------------
(* Deletions of cached copies to come. *)

(* A row that a step changed or deleted has a deletion of its copy to come. *)
LEMMA RowTouched ==
  ASSUME TInv, OwnersFit, [Next]_vars, NEW t \in Tweets, row[t] # None, row'[t] # row[t]
  PROVE  DropPending(t)'
<1>q. TypeOK
  BY DEF TInv
<1>1. ASSUME NEW q \in reqs, UpdateRow(q) \/ DeleteRow(q) PROVE DropPending(t)'
  <2>1. q \in Requests /\ q.tweet \in Tweets
    BY <1>q DEF TypeOK, Requests
  <2>2. q.tweet = t /\ Step(q, "drop")
    BY <1>1, <1>q, <2>1 DEF UpdateRow, DeleteRow, TypeOK
  <2> DEFINE r == [q EXCEPT !.stage = "drop"]
  <2>3. r \in reqs' /\ r.stage = "drop" /\ r.tweet = t
    BY <2>1, <2>2, StepShape DEF Step, Became
  <2> HIDE DEF r
  <2> QED
    BY <2>3 DEF DropPending
<1>2. ASSUME NEW s \in Tweets, NEW u \in Users, NEW x \in Contents, Create(s, u, x) PROVE FALSE
  <2>1. s # t
    BY <1>2 DEF Create, OwnersFit, RowsPosted
  <2> QED
    BY <1>2, <1>q, <2>1 DEF Create, TypeOK
<1>3. ASSUME NEW q \in reqs, Serve(q), ~UpdateRow(q), ~DeleteRow(q) PROVE row' = row
  BY <1>3 DEF Serve, Hit, Miss, AnswerFetch, AnswerStranger, CheckEdit, CheckRemove,
     DropAfterUpdate, DropAfterDelete, End
<1>4. CASE ~\E q \in reqs : Serve(q)
  BY <1>2, <1>4, OthersKeepRows
<1> QED
  BY <1>1, <1>3, <1>4

LEMMA ExposedKept == ASSUME [Next]_vars PROVE exposed \subseteq exposed'
<1>1. ASSUME NEW q \in reqs, Serve(q) PROVE exposed \subseteq exposed'
  BY <1>1 DEF Serve, Hit, Miss, AnswerFetch, AnswerStranger, CheckEdit, CheckRemove, UpdateRow,
     DeleteRow, DropAfterUpdate, DropAfterDelete, End, LastInvalidate
<1>2. ASSUME NEW t \in Tweets, Load(t) PROVE exposed \subseteq exposed'
  BY <1>2 DEF Load, LoadRead, LoadDone, LoadFail
<1>3. ASSUME NEW t \in Tweets, NEW c \in Clients, Arrive(c, t) PROVE exposed \subseteq exposed'
  BY <1>3 DEF Arrive, Begin
<1>4. ASSUME NEW T, ListMiss(T) \/ ListLoad(T) PROVE exposed \subseteq exposed'
  BY <1>4 DEF ListMiss, ListLoad
<1>5. ASSUME NEW k \in tasks, RunTask(k) PROVE exposed \subseteq exposed'
  BY <1>5 DEF RunTask, RunSet, RunSetFail, RunSetNX, RunDrop, Filled, LastInvalidate
<1>6. ASSUME NEW t \in Tweets, Expire(t) PROVE exposed \subseteq exposed'
  BY <1>6 DEF Expire
<1>7. CASE Crash
  BY <1>7 DEF Crash
<1>8. CASE UNCHANGED vars
  BY <1>8 DEF vars
<1>9. ASSUME NEW t \in Tweets, NEW u \in Users, NEW x \in Contents, Create(t, u, x)
      PROVE  exposed \subseteq exposed'
  BY <1>9 DEF Create
<1> QED
  BY <1>1, <1>2, <1>3, <1>4, <1>5, <1>6, <1>7, <1>8, <1>9 DEF Next

(* A deletion to come stays to come until it is done, and then no write of *)
(* an older copy is under way, or the row is gone; or it failed or was     *)
(* lost.                                                                   *)
DeletedFor(t) ==
  /\ cache'[t] = None
  /\ row[t] = None \/ ((Timely => Outdated(t) = {}) /\ tasks' \subseteq tasks)

LEMMA PendingMoves ==
  ASSUME TInv, OwnersFit, [Next]_vars, NEW t \in Tweets, DropPending(t)
  PROVE  DropPending(t)' \/ t \in exposed' \/ DeletedFor(t)
<1>q. TypeOK
  BY DEF TInv
<1>a. ASSUME DropTask(t) \in tasks, DropTask(t) \in tasks' PROVE DropPending(t)'
  BY <1>a DEF DropPending
<1>b. ASSUME NEW p \in reqs, p \in reqs', p.stage = "drop", p.tweet = t PROVE DropPending(t)'
  BY <1>b DEF DropPending
<1>c. ASSUME tasks \subseteq tasks', \A p \in reqs : p.stage = "drop" => p \in reqs'
      PROVE  DropPending(t)'
  BY <1>c DEF DropPending
<1>1. ASSUME NEW q \in reqs, Serve(q)
      PROVE  DropPending(t)' \/ t \in exposed' \/ DeletedFor(t)
  <2>q. q \in Requests /\ q.tweet \in Tweets
    BY <1>q DEF TypeOK, Requests
  <2>1. reqs \ {q} \subseteq reqs'
    BY <1>1, <1>q, ServeTyped
  <2>2. tasks \subseteq tasks'
    BY <1>1 DEF Serve, Hit, Miss, AnswerFetch, AnswerStranger, CheckEdit, CheckRemove, UpdateRow,
       DeleteRow, DropAfterUpdate, DropAfterDelete, End, Submit
  <2>3. CASE q.stage # "drop" \/ q.tweet # t
    BY <2>1, <2>2, <2>3 DEF DropPending
  <2>4. CASE DropAfterUpdate(q) /\ q.tweet = t
    BY <2>4 DEF DropAfterUpdate, Submit, DropPending
  <2>5. CASE DropAfterDelete(q) /\ q.tweet = t
    <3>1. row[t] = None
      BY <2>5 DEF DropAfterDelete, OwnersFit, RequestsFit, RequestFits
    <3>2. cache'[t] = None \/ t \in exposed'
      BY <1>q, <2>5, InvalidateTyped DEF DropAfterDelete, LastInvalidate
    <3> QED
      BY <3>1, <3>2 DEF DeletedFor
  <2>6. q.stage = "drop" => DropAfterUpdate(q) \/ DropAfterDelete(q)
    BY <1>1 DEF Serve, Hit, Miss, AnswerFetch, AnswerStranger, CheckEdit, CheckRemove, UpdateRow,
       DeleteRow, End
  <2> QED
    BY <2>3, <2>4, <2>5, <2>6
<1>2. ASSUME NEW s \in Tweets, Load(s) PROVE DropPending(t)'
  <2>1. tasks \subseteq tasks'
    BY <1>2 DEF Load, LoadRead, LoadDone, LoadFail, Submit
  <2>2. \A p \in reqs : p.stage = "drop" => p \in reqs'
    BY <1>2 DEF Load, LoadRead, LoadDone, LoadFail, Waiting
  <2> QED
    BY <1>c, <2>1, <2>2
<1>3. ASSUME NEW s \in Tweets, NEW c \in Clients, Arrive(c, s) PROVE DropPending(t)'
  BY <1>c, <1>3 DEF Arrive, Begin
<1>4. ASSUME NEW T, ListMiss(T) \/ ListLoad(T) PROVE DropPending(t)'
  BY <1>c, <1>4 DEF ListMiss, ListLoad, Submit
<1>5. ASSUME NEW k \in tasks, RunTask(k)
      PROVE  DropPending(t)' \/ t \in exposed' \/ DeletedFor(t)
  <2>1. reqs' = reqs /\ tasks' = tasks \ {k}
    BY <1>5 DEF RunTask, RunSet, RunSetFail, RunSetNX, RunDrop
  <2>2. CASE k # DropTask(t)
    BY <2>1, <2>2 DEF DropPending
  <2>3. CASE k = DropTask(t)
    <3>1. k.kind = "drop" /\ k.tweet = t
      BY <2>3, TaskShape
    <3>2. RunDrop(k)
      BY <1>5, <3>1 DEF RunTask, RunSet, RunSetFail, RunSetNX
    <3>3. cache'[t] = None \/ t \in exposed'
      BY <1>q, <3>1, <3>2, InvalidateTyped DEF RunDrop, LastInvalidate
    <3>4. (Timely => Outdated(t) = {}) /\ tasks' \subseteq tasks
      BY <3>1, <3>2 DEF RunDrop
    <3> QED
      BY <3>3, <3>4 DEF DeletedFor
  <2> QED
    BY <2>2, <2>3
<1>6. ASSUME NEW s \in Tweets, Expire(s) PROVE DropPending(t)'
  BY <1>c, <1>6 DEF Expire
<1>7. CASE Crash
  BY <1>7 DEF Crash
<1>8. CASE UNCHANGED vars
  BY <1>c, <1>8 DEF vars
<1>9. ASSUME NEW s \in Tweets, NEW u \in Users, NEW x \in Contents, Create(s, u, x)
      PROVE  DropPending(t)'
  BY <1>c, <1>9 DEF Create, Submit
<1> QED
  BY <1>1, <1>2, <1>3, <1>4, <1>5, <1>6, <1>7, <1>8, <1>9 DEF Next

(* A copy comes to the cache from a pool task.                             *)
LEMMA CacheWritten ==
  ASSUME TInv, [Next]_vars, NEW t \in Tweets, cache'[t] # None, cache'[t] # cache[t]
  PROVE  /\ \E k \in tasks : \E c \in k.copies : c.id = t /\ cache'[t] = c
         /\ Gone(t) => t \in exposed'
         /\ row' = row /\ posted' = posted
<1>q. TypeOK
  BY DEF TInv
<1>1. ASSUME NEW k \in tasks, RunTask(k)
      PROVE  /\ \E c \in k.copies : c.id = t /\ cache'[t] = c
             /\ Gone(t) => t \in exposed'
             /\ row' = row /\ posted' = posted
  <2>0. row' = row /\ posted' = posted
    BY <1>1 DEF RunTask, RunSet, RunSetFail, RunSetNX, RunDrop
  <2>1. CASE RunSet(k)
    <3>1. PICK c \in k.copies : cache' = Put(c.id, c)
      BY <2>1 DEF RunSet
    <3>2. c.id = t /\ cache'[t] = c
      BY <3>1 DEF Put
    <3>3. k.tweet = t
      BY <2>1, <3>2 DEF RunSet, TInv, TasksShaped
    <3>4. Gone(t) => t \in exposed'
      BY <2>1, <3>3 DEF RunSet, Filled
    <3> QED
      BY <2>0, <3>2, <3>4
  <2>2. CASE RunSetFail(k)
    BY <2>2 DEF RunSetFail, Put
  <2>3. ASSUME NEW written \in SUBSET k.copies, RunSetNX(k, written)
        PROVE  (\E c \in k.copies : c.id = t /\ cache'[t] = c) /\ (Gone(t) => t \in exposed')
    BY <1>q, <2>3, Chosen
  <2>4. CASE RunDrop(k)
    <3>1. k.tweet \in Tweets /\ Invalidate(k.tweet)
      BY <1>1, <2>4 DEF RunDrop, LastInvalidate, TInv, TasksShaped
    <3> QED
      BY <1>q, <3>1, InvalidateTyped
  <2> QED
    BY <1>1, <2>0, <2>1, <2>2, <2>3, <2>4 DEF RunTask
<1>2. ASSUME NEW q \in reqs, Serve(q) PROVE FALSE
  <2>1. CASE DropAfterUpdate(q) \/ DropAfterDelete(q)
    <3>1. Invalidate(q.tweet) /\ q.tweet \in Tweets
      BY <1>2, <1>q, <2>1 DEF DropAfterUpdate, DropAfterDelete, LastInvalidate, TypeOK, Requests
    <3> QED
      BY <1>q, <3>1, InvalidateTyped
  <2>2. CASE ~DropAfterUpdate(q) /\ ~DropAfterDelete(q)
    BY <1>2, <2>2 DEF Serve, Hit, Miss, AnswerFetch, AnswerStranger, CheckEdit, CheckRemove,
       UpdateRow, DeleteRow, End
  <2> QED
    BY <2>1, <2>2
<1>3. ASSUME NEW s \in Tweets, Expire(s) PROVE FALSE
  BY <1>q, <1>3 DEF Expire, TypeOK
<1>4. ASSUME NEW s \in Tweets, Load(s) PROVE FALSE
  BY <1>4 DEF Load, LoadRead, LoadDone, LoadFail
<1>5. ASSUME NEW s \in Tweets, NEW c \in Clients, Arrive(c, s) PROVE FALSE
  BY <1>5 DEF Arrive, Begin
<1>6. ASSUME NEW T, ListMiss(T) \/ ListLoad(T) PROVE FALSE
  BY <1>6 DEF ListMiss, ListLoad
<1>7. CASE Crash
  BY <1>7 DEF Crash
<1>8. CASE UNCHANGED vars
  BY <1>8 DEF vars
<1>9. ASSUME NEW s \in Tweets, NEW u \in Users, NEW x \in Contents, Create(s, u, x) PROVE FALSE
  BY <1>9 DEF Create
<1> QED
  BY <1>1, <1>2, <1>3, <1>4, <1>5, <1>6, <1>7, <1>8, <1>9 DEF Next

(* A tweet that is posted in a step had no cached copy.                    *)
LEMMA NewUncached ==
  ASSUME TInv, OwnersFit, [Next]_vars, NEW t \in Tweets,
         row[t] = None, row'[t] # None \/ (t \notin posted /\ t \in posted')
  PROVE  /\ cache'[t] = None
         /\ \A k \in tasks' : \A c \in k.copies : c.id = t => c.content = row'[t].content
<1>q. TypeOK
  BY DEF TInv
<1>1. PICK s \in Tweets, u \in Users, x \in Contents : Create(s, u, x)
  BY RowMoves
<1> DEFINE new == [owner |-> u, content |-> x]
           copy == Copy(s, new)
<1>2. /\ s \notin posted /\ posted' = posted \cup {s} /\ row' = [row EXCEPT ![s] = new]
      /\ tasks' = tasks \cup {SetTask(copy)} /\ cache' = cache
  BY <1>1 DEF Create, Submit
<1>3. new \in Rows /\ new.content = x /\ copy \in Copies /\ copy.content = x
  BY CopyShape DEF Rows
<1> HIDE DEF new, copy
<1>4. SetTask(copy).copies = {copy}
  BY <1>3, TaskShape
<1>5. s = t /\ t \notin posted /\ row'[t] = new
  BY <1>2, <1>q DEF TypeOK
<1>6. cache[t] = None /\ \A k \in tasks : \A c \in k.copies : c.id # t
  BY <1>5, TweetsAssumption DEF OwnersFit, CacheFits, TasksFit, Fits
<1> QED
  BY <1>2, <1>3, <1>4, <1>5, <1>6

LEMMA InitCovered == Init => GoneCovered /\ StaleCovered
BY DEF Init, GoneCovered, StaleCovered

LEMMA GoneNext ==
  ASSUME TInv, OwnersFit, [Next]_vars, GoneCovered
  PROVE  GoneCovered'
<1> SUFFICES ASSUME NEW t \in Tweets, t \notin exposed', t \in posted', row'[t] = None,
                    cache'[t] # None
             PROVE  DropPending(t)'
  BY DEF GoneCovered, Gone
<1>1. CASE row[t] # None
  BY <1>1, RowTouched
<1>2. CASE row[t] = None
  <2>1. t \in posted
    BY <1>2, NewUncached
  <2>2. cache'[t] = cache[t]
    BY <1>2, <2>1, CacheWritten DEF Gone
  <2>3. DropPending(t)
    BY <1>2, <2>1, <2>2, ExposedKept DEF GoneCovered, Gone
  <2> QED
    BY <2>3, PendingMoves DEF DeletedFor
<1> QED
  BY <1>1, <1>2

(* The cached copy of a removed tweet has its deletion to come, unless     *)
(* that failed, was lost, or came before a late write.                     *)
THEOREM GoneIsCovered == Spec => []GoneCovered
<1>1. TInv /\ OwnersFit /\ GoneCovered /\ [Next]_vars => GoneCovered'
  BY GoneNext
<1> QED
  BY <1>1, InitTyped, TypeNext, InitFits, FitsNext, InitCovered, PTL DEF Spec

(* A write of an older copy has a deletion to come as well.                *)
OutdatedCovered == \A t \in Tweets \ exposed : Outdated(t) # {} => DropPending(t)

LEMMA OutdatedNext ==
  ASSUME TInv, OwnersFit, [Next]_vars, Timely, OutdatedCovered
  PROVE  OutdatedCovered'
<1> SUFFICES ASSUME NEW t \in Tweets, t \notin exposed', NEW k \in tasks', NEW c \in k.copies,
                    c.id = t, row'[t] # None, c.content # row'[t].content
             PROVE  DropPending(t)'
  BY DEF OutdatedCovered, Outdated
<1>1. CASE row[t] # None /\ row'[t] # row[t]
  BY <1>1, RowTouched
<1>2. CASE row[t] = None
  BY <1>2, NewUncached
<1>3. CASE row[t] # None /\ row'[t] = row[t]
  <2>1. k \in tasks
    <3>1. CASE ~\E s \in Tweets, u \in Users, x \in Contents : Create(s, u, x)
      BY <1>3, <3>1, NewTasks, TweetsAssumption DEF Current
    <3>2. ASSUME NEW s \in Tweets, NEW u \in Users, NEW x \in Contents, Create(s, u, x)
          PROVE  k \in tasks
      <4> DEFINE new == [owner |-> u, content |-> x]
                 copy == Copy(s, new)
      <4>1. s # t
        BY <1>3, <3>2 DEF Create, OwnersFit, RowsPosted
      <4>2. copy \in Copies /\ copy.id = s
        BY CopyShape DEF Rows
      <4>3. tasks' = tasks \cup {SetTask(copy)}
        BY <3>2 DEF Create, Submit
      <4> HIDE DEF copy
      <4> QED
        BY <4>1, <4>2, <4>3, TaskShape
    <3> QED
      BY <3>1, <3>2
  <2>2. k \in Outdated(t)
    BY <1>3, <2>1 DEF Outdated
  <2>3. DropPending(t)
    BY <2>2, ExposedKept DEF OutdatedCovered
  <2> QED
    BY <1>3, <2>2, <2>3, PendingMoves DEF DeletedFor
<1> QED
  BY <1>1, <1>2, <1>3

LEMMA StaleNext ==
  ASSUME TInv, OwnersFit, [Next]_vars, OutdatedCovered, StaleCovered
  PROVE  StaleCovered'
<1> SUFFICES ASSUME NEW t \in Tweets, t \notin exposed', row'[t] # None, cache'[t] # None,
                    cache'[t].content # row'[t].content
             PROVE  DropPending(t)'
  BY DEF StaleCovered
<1>1. CASE row[t] # None /\ row'[t] # row[t]
  BY <1>1, RowTouched
<1>2. CASE row[t] = None
  BY <1>2, NewUncached
<1>3. CASE row[t] # None /\ row'[t] = row[t]
  <2>1. DropPending(t)
    <3>1. CASE cache'[t] = cache[t]
      BY <1>3, <3>1, ExposedKept DEF StaleCovered
    <3>2. CASE cache'[t] # cache[t]
      <4>1. PICK k \in tasks : \E c \in k.copies : c.id = t /\ cache'[t] = c
        BY <3>2, CacheWritten
      <4>2. k \in Outdated(t)
        BY <1>3, <4>1 DEF Outdated
      <4> QED
        BY <4>2, ExposedKept DEF OutdatedCovered
    <3> QED
      BY <3>1, <3>2
  <2> QED
    BY <2>1, PendingMoves DEF DeletedFor
<1> QED
  BY <1>1, <1>2, <1>3

(* If the 800 ms outlast every cache write under way, then a cached copy   *)
(* that is not what the row says has a deletion to come: the edit's own or *)
(* its delayed second one.                                                 *)
THEOREM StaleIsCovered == ASSUME Timely PROVE Spec => []StaleCovered
<1>1. Init => OutdatedCovered
  BY DEF Init, OutdatedCovered, Outdated
<1>2. TInv /\ OwnersFit /\ OutdatedCovered /\ [Next]_vars => OutdatedCovered'
  BY OutdatedNext
<1>3. TInv /\ OwnersFit /\ OutdatedCovered /\ StaleCovered /\ [Next]_vars => StaleCovered'
  BY StaleNext
<1> QED
  BY <1>1, <1>2, <1>3, InitTyped, TypeNext, InitFits, FitsNext, InitCovered, PTL DEF Spec

-----------------------------------------------------------------------------
(* What requests find. *)

OneRequest == \A p, q \in reqs : p.client = q.client => p = q

(* The row as it is, and what a load has read for those who wait for it.   *)
RowSeen == \A q \in reqs : ContentOf(row[q.tweet]) \subseteq seen[q.client]
LoadSeen ==
  \A q \in reqs :
    q.stage = "wait" => ContentOf(load[q.tweet].value) \subseteq seen[q.client]

SeenInv == OneRequest /\ RowSeen /\ LoadSeen /\ ReadsRecent

LEMMA ServeOne ==
  ASSUME TInv, OneRequest, NEW q \in reqs, Serve(q) PROVE OneRequest'
<1>1. \/ reqs' = reqs \ {q}
      \/ \E r \in Requests : reqs' = (reqs \ {q}) \cup {r} /\ r.client = q.client
  BY ServeTyped DEF TInv, Became
<1> QED
  BY <1>1 DEF OneRequest

LEMMA LoadOne ==
  ASSUME TInv, OneRequest, NEW t \in Tweets, LoadDone(t) \/ LoadFail(t) PROVE OneRequest'
<1> DEFINE failed(q) == [q EXCEPT !.stage = "done", !.reply = "error"]
           got(q) == [q EXCEPT !.stage = "got", !.got = Copy(0, load[t].value)]
<1>1. \A q \in reqs : failed(q).client = q.client /\ got(q).client = q.client
  BY DEF TInv, TypeOK, Requests
<1>2. Waiting(t) \subseteq reqs
  BY DEF Waiting
<1>3. \/ reqs' = (reqs \ Waiting(t)) \cup {failed(q) : q \in Waiting(t)}
      \/ reqs' = (reqs \ Waiting(t)) \cup {got(q) : q \in Waiting(t)}
  BY DEF LoadDone, LoadFail, LoadedId
<1> HIDE DEF failed, got
<1> QED
  BY <1>1, <1>2, <1>3 DEF OneRequest

LEMMA SeenGrows ==
  ASSUME TInv, NEW q \in reqs, Serve(q), ~End(q)
  PROVE  \A c \in Clients : seen[c] \subseteq seen'[c]
<1>1. seen \in [Clients -> SUBSET Contents] /\ q.client \in Clients
  BY DEF TInv, TypeOK, Requests
<1> QED
  BY <1>1 DEF Serve, Hit, Miss, AnswerFetch, AnswerStranger, CheckEdit, CheckRemove, UpdateRow,
     DeleteRow, DropAfterUpdate, DropAfterDelete, Shown

(* r is what q has become in a step. *)
Continues(q, r) ==
  /\ r.client = q.client /\ r.tweet = q.tweet
  /\ seen[q.client] \subseteq seen'[q.client]
  /\ \/ r.got = q.got
     \/ Hit(q) /\ r.got = cache[q.tweet]
     \/ /\ q.stage = "wait" /\ load[q.tweet].value \in Rows
        /\ r.got = Copy(0, load[q.tweet].value)
  /\ r.stage = "wait" => q.stage = "wait" \/ Miss(q)

LEMMA ServeContinues ==
  ASSUME TInv, OneRequest, NEW p \in reqs, Serve(p), NEW r \in reqs'
  PROVE  \E q \in reqs : Continues(q, r)
<1>q. p \in Requests /\ p.client \in Clients /\ \A q \in reqs : q.client \in Clients
  BY DEF TInv, TypeOK, Requests
<1>1. ASSUME ~End(p), r \in reqs PROVE Continues(r, r)
  BY <1>q, <1>1, SeenGrows DEF Continues
<1>2. CASE End(p)
  <2>1. r \in reqs /\ r.client # p.client
    BY <1>2 DEF End, OneRequest
  <2>2. seen'[r.client] = seen[r.client]
    BY <1>2, <1>q, <2>1 DEF End, TInv, TypeOK
  <2> QED
    BY <2>1, <2>2 DEF Continues
<1>3. CASE Hit(p)
  <2>1. PICK c \in Copies : c = cache[p.tweet]
    BY <1>3, <1>q DEF Hit, TInv, TypeOK, Requests
  <2> DEFINE n == [p EXCEPT !.got = c, !.stage = "got"]
  <2>2. reqs' = (reqs \ {p}) \cup {n} /\ ~End(p)
    BY <1>3, <2>1 DEF Hit, End
  <2>3. n.client = p.client /\ n.tweet = p.tweet /\ n.got = cache[p.tweet] /\ n.stage = "got"
    <3>1. Became(p, n) /\ n.stage = "got" /\ n.got = c
      BY <1>q, GotShape
    <3> QED
      BY <2>1, <3>1 DEF Became
  <2> HIDE DEF n
  <2>4. Continues(p, n)
    BY <1>3, <1>q, <2>2, <2>3, SeenGrows DEF Continues
  <2> QED
    BY <1>1, <2>2, <2>4
<1>4. ASSUME NEW s \in {"wait", "store", "drop"}, Step(p, s), s = "wait" => Miss(p), ~End(p)
      PROVE  \E q \in reqs : Continues(q, r)
  <2> DEFINE n == [p EXCEPT !.stage = s]
  <2>1. /\ n.client = p.client /\ n.tweet = p.tweet /\ n.got = p.got /\ n.stage = s
        /\ reqs' = (reqs \ {p}) \cup {n}
    BY <1>4, <1>q, StepShape DEF Step, Became
  <2> HIDE DEF n
  <2>2. Continues(p, n)
    BY <1>4, <1>q, <2>1, SeenGrows DEF Continues
  <2> QED
    BY <1>1, <1>4, <2>1, <2>2
<1>5. ASSUME NEW a \in {"ok", "error"}, Reply(p, a), ~End(p)
      PROVE  \E q \in reqs : Continues(q, r)
  <2> DEFINE n == [p EXCEPT !.stage = "done", !.reply = a]
  <2>1. /\ n.client = p.client /\ n.tweet = p.tweet /\ n.got = p.got /\ n.stage = "done"
        /\ reqs' = (reqs \ {p}) \cup {n}
    BY <1>5, <1>q, ReplyShape DEF Reply, Became
  <2> HIDE DEF n
  <2>2. Continues(p, n)
    BY <1>5, <1>q, <2>1, SeenGrows DEF Continues
  <2> QED
    BY <1>1, <1>5, <2>1, <2>2
<1>6. ASSUME ~Hit(p), ~End(p)
      PROVE  \/ \E s \in {"wait", "store", "drop"} : Step(p, s) /\ (s = "wait" => Miss(p))
             \/ \E a \in {"ok", "error"} : Reply(p, a)
  <2>1. CASE Miss(p)
    BY <2>1 DEF Miss
  <2>2. CASE AnswerFetch(p) \/ AnswerStranger(p) \/ DropAfterUpdate(p) \/ DropAfterDelete(p)
    BY <2>2 DEF AnswerFetch, AnswerStranger, DropAfterUpdate, DropAfterDelete
  <2>3. CASE CheckEdit(p) \/ CheckRemove(p) \/ UpdateRow(p) \/ DeleteRow(p)
    BY <2>3 DEF CheckEdit, CheckRemove, UpdateRow, DeleteRow
  <2> QED
    BY <1>6, <2>1, <2>2, <2>3 DEF Serve
<1> QED
  BY <1>2, <1>3, <1>4, <1>5, <1>6

(* A request that comes finds its tweet as it is. *)
Arrived(r) ==
  /\ r.got = None /\ r.stage = "get" /\ row' = row
  /\ ContentOf(row[r.tweet]) \subseteq seen'[r.client]

LEMMA RequestMoves ==
  ASSUME TInv, OneRequest, [Next]_vars
  PROVE  /\ OneRequest'
         /\ \A r \in reqs' : Arrived(r) \/ \E q \in reqs : Continues(q, r)
<1>q. \A q \in reqs : q \in Requests /\ q.client \in Clients
  BY DEF TInv, TypeOK, Requests
<1> DEFINE Goal == /\ OneRequest'
                   /\ \A r \in reqs' : Arrived(r) \/ \E q \in reqs : Continues(q, r)
<1>1. ASSUME reqs' \subseteq reqs, seen' = seen PROVE Goal
  <2>1. \A r \in reqs' : Continues(r, r)
    BY <1>1 DEF Continues
  <2> QED
    BY <1>1, <2>1 DEF OneRequest
<1>2. ASSUME NEW p \in reqs, Serve(p) PROVE Goal
  BY <1>2, ServeOne, ServeContinues
<1>3. ASSUME NEW t \in Tweets, LoadDone(t) \/ LoadFail(t) PROVE Goal
  <2>1. seen' = seen
    BY <1>3 DEF LoadDone, LoadFail
  <2>2. ASSUME NEW r \in reqs' PROVE \E q \in reqs : Continues(q, r)
    <3>1. CASE r \in reqs
      BY <2>1, <3>1 DEF Continues
    <3>2. CASE r \notin reqs
      <4>1. PICK q \in Waiting(t) :
              /\ Became(q, r)
              /\ \/ r.stage = "done" /\ r.got = q.got
                 \/ /\ r.stage = "got" /\ load[t].value \in Rows
                    /\ r.got = Copy(0, load[t].value)
        BY <1>3, <3>2, LoadMoves DEF TInv
      <4>2. q \in reqs /\ q.stage = "wait" /\ q.tweet = t
        BY DEF Waiting
      <4>3. Continues(q, r)
        BY <2>1, <4>1, <4>2 DEF Continues, Became
      <4> QED
        BY <4>2, <4>3
    <3> QED
      BY <3>1, <3>2
  <2> QED
    BY <1>3, <2>2, LoadOne
<1>4. ASSUME NEW t \in Tweets, NEW c \in Clients, Arrive(c, t) PROVE Goal
  <2>1. PICK n \in Requests : /\ reqs' = reqs \cup {n} /\ n.client = c /\ n.tweet = t
                              /\ n.stage = "get" /\ n.got = None
    BY <1>4, Arrives
  <2>2. /\ \A q \in reqs : q.client # c
        /\ seen' = [seen EXCEPT ![c] = ContentOf(row[t])] /\ row' = row
    BY <1>4 DEF Arrive, Begin
  <2>3. seen'[c] = ContentOf(row[t]) /\ \A d \in Clients \ {c} : seen'[d] = seen[d]
    BY <2>2 DEF TInv, TypeOK
  <2>4. \A q \in reqs : Continues(q, q)
    BY <1>q, <2>2, <2>3 DEF Continues
  <2>5. Arrived(n)
    BY <2>1, <2>2, <2>3 DEF Arrived
  <2> QED
    BY <2>1, <2>2, <2>4, <2>5 DEF OneRequest
<1>5. ASSUME NEW t \in Tweets, LoadRead(t) PROVE Goal
  BY <1>1, <1>5 DEF LoadRead
<1>6. ASSUME NEW T, ListMiss(T) \/ ListLoad(T) PROVE Goal
  BY <1>1, <1>6 DEF ListMiss, ListLoad
<1>7. ASSUME NEW k \in tasks, RunTask(k) PROVE Goal
  BY <1>1, <1>7 DEF RunTask, RunSet, RunSetFail, RunSetNX, RunDrop
<1>8. ASSUME NEW t \in Tweets, Expire(t) PROVE Goal
  BY <1>1, <1>8 DEF Expire
<1>9. CASE Crash
  BY <1>9 DEF Crash, OneRequest
<1>10. CASE UNCHANGED vars
  BY <1>1, <1>10 DEF vars
<1>11. ASSUME NEW t \in Tweets, NEW u \in Users, NEW x \in Contents, Create(t, u, x) PROVE Goal
  BY <1>1, <1>11 DEF Create
<1> QED
  BY <1>2, <1>3, <1>4, <1>5, <1>6, <1>7, <1>8, <1>9, <1>10, <1>11 DEF Next, Load

(* A load comes to hold the row as it is, or nothing. *)
LEMMA LoadValues ==
  ASSUME TInv, [Next]_vars, NEW t \in Tweets
  PROVE  \/ load'[t].value \in {load[t].value, None}
         \/ load'[t].value = row[t]
<1>q. TypeOK
  BY DEF TInv
<1>1. ASSUME NEW s \in Tweets, Load(s)
      PROVE  load'[t].value \in {load[t].value, None} \/ load'[t].value = row[t]
  <2>1. CASE s = t
    <3>1. load \in [Tweets -> Loads] /\ NoLoad.value = None
      BY <1>q DEF TypeOK, NoLoad
    <3>2. \/ load' = [load EXCEPT ![t] = [stage |-> "read", value |-> row[t]]]
          \/ load' = [load EXCEPT ![t] = NoLoad]
      BY <1>1, <2>1 DEF Load, LoadRead, LoadDone, LoadFail
    <3>3. load'[t] = [stage |-> "read", value |-> row[t]] \/ load'[t] = NoLoad
      BY <3>1, <3>2
    <3> QED
      BY <3>1, <3>3
  <2>2. CASE s # t
    BY <1>1, <1>q, <2>2 DEF Load, LoadRead, LoadDone, LoadFail, TypeOK
  <2> QED
    BY <2>1, <2>2
<1>2. ASSUME NEW q \in reqs, Serve(q) PROVE load'[t].value = load[t].value
  <2>1. CASE Miss(q)
    <3>1. load \in [Tweets -> Loads] /\ load[t] \in Loads
      BY <1>q DEF TypeOK
    <3>2. load' = load \/ load' = [load EXCEPT ![q.tweet] = [@ EXCEPT !.stage = "started"]]
      BY <2>1 DEF Miss
    <3>3. load'[t] = load[t] \/ load'[t] = [load[t] EXCEPT !.stage = "started"]
      BY <3>1, <3>2
    <3> QED
      BY <3>1, <3>3 DEF Loads
  <2>2. CASE ~Miss(q)
    BY <1>2, <2>2 DEF Serve, Hit, AnswerFetch, AnswerStranger, CheckEdit, CheckRemove, UpdateRow,
       DeleteRow, DropAfterUpdate, DropAfterDelete, End
  <2> QED
    BY <2>1, <2>2
<1>3. ASSUME NEW s \in Tweets, NEW c \in Clients, Arrive(c, s) PROVE load' = load
  BY <1>3 DEF Arrive, Begin
<1>4. ASSUME NEW T, ListMiss(T) \/ ListLoad(T) PROVE load' = load
  BY <1>4 DEF ListMiss, ListLoad
<1>5. ASSUME NEW k \in tasks, RunTask(k) PROVE load' = load
  BY <1>5 DEF RunTask, RunSet, RunSetFail, RunSetNX, RunDrop
<1>6. ASSUME NEW s \in Tweets, Expire(s) PROVE load' = load
  BY <1>6 DEF Expire
<1>7. CASE Crash
  BY <1>7 DEF Crash, NoLoad
<1>8. CASE UNCHANGED vars
  BY <1>8 DEF vars
<1>9. ASSUME NEW s \in Tweets, NEW u \in Users, NEW x \in Contents, Create(s, u, x)
      PROVE  load' = load
  BY <1>9 DEF Create
<1> QED
  BY <1>1, <1>2, <1>3, <1>4, <1>5, <1>6, <1>7, <1>8, <1>9 DEF Next

(* A row that gets another content is shown to the requests for it.        *)
LEMMA RowShown ==
  ASSUME TInv, OwnersFit, [Next]_vars, NEW q \in reqs
  PROVE  \/ ContentOf(row'[q.tweet]) \subseteq ContentOf(row[q.tweet])
         \/ ContentOf(row'[q.tweet]) \subseteq seen'[q.client]
<1>q. q.tweet \in Tweets /\ q.client \in Clients /\ row \in [Tweets -> Rows \cup {None}]
  BY DEF TInv, TypeOK, Requests
<1> DEFINE t == q.tweet
<1>1. ASSUME NEW p \in reqs, UpdateRow(p)
      PROVE  row'[t] = row[t] \/ ContentOf(row'[t]) \subseteq seen'[q.client]
  <2>1. CASE row' = row
    BY <2>1
  <2>2. CASE row' # row
    <3>1. /\ row[p.tweet] # None /\ seen' = Shown(p.tweet, p.content)
          /\ row' = [row EXCEPT ![p.tweet] = [@ EXCEPT !.content = p.content]]
      BY <1>1, <2>2 DEF UpdateRow
    <3>2. CASE p.tweet = t
      <4>1. row'[t] = [row[t] EXCEPT !.content = p.content] /\ row[t] \in Rows
        BY <1>q, <3>1, <3>2
      <4>2. row'[t].content = p.content
        BY <4>1 DEF Rows
      <4>3. seen'[q.client] = seen[q.client] \cup {p.content}
        BY <1>q, <3>1, <3>2 DEF Shown
      <4> QED
        BY <4>2, <4>3 DEF ContentOf
    <3>3. CASE p.tweet # t
      BY <1>q, <3>1, <3>3
    <3> QED
      BY <3>2, <3>3
  <2> QED
    BY <2>1, <2>2
<1>2. ASSUME NEW p \in reqs, DeleteRow(p) PROVE row'[t] = row[t] \/ row'[t] = None
  BY <1>2, <1>q DEF DeleteRow
<1>3. ASSUME NEW p \in reqs, Serve(p), ~UpdateRow(p), ~DeleteRow(p) PROVE row' = row
  BY <1>3 DEF Serve, Hit, Miss, AnswerFetch, AnswerStranger, CheckEdit, CheckRemove,
     DropAfterUpdate, DropAfterDelete, End
<1>4. ASSUME NEW s \in Tweets, NEW u \in Users, NEW x \in Contents, Create(s, u, x)
      PROVE  row'[t] = row[t]
  <2>1. s # t
    BY <1>4 DEF Create, OwnersFit, RequestsFit, RequestFits
  <2> QED
    BY <1>4, <1>q, <2>1 DEF Create
<1>5. row'[t] \in {row[t], None} \/ ContentOf(row'[t]) \subseteq seen'[q.client]
  BY <1>1, <1>2, <1>3, <1>4, OthersKeepRows
<1> QED
  BY <1>5 DEF ContentOf

(* A cached copy that is taken says what the row says, or its deletion is  *)
(* to come and what it says is noted.                                      *)
LEMMA HitSeen ==
  ASSUME TInv, OwnersFit, StaleCovered, GoneCovered, RowSeen, NEW q \in reqs, Hit(q),
         q.tweet \notin exposed, seen[q.client] \subseteq seen'[q.client]
  PROVE  cache[q.tweet].content \in seen'[q.client]
<1>q. /\ q.tweet \in Tweets /\ q.tweet \in posted /\ cache[q.tweet] # None
      /\ q.client \in Clients /\ seen \in [Clients -> SUBSET Contents]
  BY DEF TInv, TypeOK, Requests, OwnersFit, RequestsFit, RequestFits, Hit
<1>1. CASE DropPending(q.tweet)
  <2>1. seen' = [seen EXCEPT ![q.client] = @ \cup ContentOf(cache[q.tweet])]
    BY <1>1 DEF Hit
  <2> QED
    BY <1>q, <2>1 DEF ContentOf
<1>2. CASE ~DropPending(q.tweet)
  <2>1. row[q.tweet] # None
    BY <1>q, <1>2 DEF GoneCovered, Gone
  <2>2. cache[q.tweet].content = row[q.tweet].content
    BY <1>q, <1>2, <2>1 DEF StaleCovered
  <2> QED
    BY <2>1, <2>2 DEF RowSeen, ContentOf
<1> QED
  BY <1>1, <1>2

LEMMA SeenNext ==
  ASSUME TInv, OwnersFit, StaleCovered, GoneCovered, SeenInv, [Next]_vars
  PROVE  SeenInv'
<1>s. OneRequest /\ RowSeen /\ LoadSeen /\ ReadsRecent
  BY DEF SeenInv
<1>m. OneRequest' /\ \A r \in reqs' : Arrived(r) \/ \E q \in reqs : Continues(q, r)
  BY <1>s, RequestMoves
<1>q. \A q \in reqs : q.tweet \in Tweets /\ q.client \in Clients
  BY DEF TInv, TypeOK, Requests
<1>1. ASSUME NEW q \in reqs, NEW r \in reqs', Continues(q, r)
      PROVE  ContentOf(row'[r.tweet]) \subseteq seen'[r.client]
  <2>1. r.tweet = q.tweet /\ r.client = q.client /\ seen[q.client] \subseteq seen'[q.client]
    BY <1>1 DEF Continues
  <2>2. ContentOf(row[q.tweet]) \subseteq seen[q.client]
    BY <1>s DEF RowSeen
  <2> QED
    BY <2>1, <2>2, RowShown
<1>2. ASSUME NEW q \in reqs, NEW r \in reqs', Continues(q, r), r.stage = "wait"
      PROVE  ContentOf(load'[r.tweet].value) \subseteq seen'[r.client]
  <2>1. /\ r.tweet = q.tweet /\ r.client = q.client /\ seen[q.client] \subseteq seen'[q.client]
        /\ q.stage = "wait" \/ Miss(q)
    BY <1>2 DEF Continues
  <2>2. ContentOf(row[q.tweet]) \subseteq seen'[q.client]
    BY <1>s, <2>1 DEF RowSeen
  <2>3. ContentOf(load[q.tweet].value) \subseteq seen'[q.client]
    <3>1. CASE q.stage = "wait"
      BY <1>s, <2>1, <3>1 DEF LoadSeen
    <3>2. CASE Miss(q)
      <4>1. seen' = [seen EXCEPT ![q.client] = @ \cup ContentOf(load[q.tweet].value)]
        BY <3>2 DEF Miss
      <4>2. seen \in [Clients -> SUBSET Contents]
        BY DEF TInv, TypeOK
      <4> QED
        BY <1>q, <4>1, <4>2
    <3> QED
      BY <2>1, <3>1, <3>2
  <2>4. q.tweet \in Tweets /\ ContentOf(None) = {}
    BY <1>q DEF ContentOf
  <2> QED
    BY <2>1, <2>2, <2>3, <2>4, LoadValues
<1>3. ASSUME NEW q \in reqs, NEW r \in reqs', Continues(q, r), r.got # None, r.tweet \notin exposed'
      PROVE  r.got.content \in seen'[r.client]
  <2>1. /\ r.tweet = q.tweet /\ r.client = q.client /\ seen[q.client] \subseteq seen'[q.client]
        /\ q.tweet \notin exposed
    BY <1>3, ExposedKept DEF Continues
  <2>2. CASE r.got = q.got
    BY <1>s, <1>3, <2>1, <2>2 DEF ReadsRecent
  <2>3. CASE Hit(q) /\ r.got = cache[q.tweet]
    BY <1>s, <2>1, <2>3, HitSeen
  <2>4. CASE /\ q.stage = "wait" /\ load[q.tweet].value \in Rows
             /\ r.got = Copy(0, load[q.tweet].value)
    <3>1. r.got.content = load[q.tweet].value.content /\ load[q.tweet].value # None
      BY <2>4, CopyShape, NoneIs
    <3>2. ContentOf(load[q.tweet].value) \subseteq seen[q.client]
      BY <1>s, <2>4 DEF LoadSeen
    <3> QED
      BY <2>1, <3>1, <3>2 DEF ContentOf
  <2> QED
    BY <1>3, <2>2, <2>3, <2>4 DEF Continues
<1>4. RowSeen'
  BY <1>m, <1>1 DEF RowSeen, Arrived
<1>5. LoadSeen'
  BY <1>m, <1>2 DEF LoadSeen, Arrived
<1>6. ReadsRecent'
  BY <1>m, <1>3 DEF ReadsRecent, Arrived
<1> QED
  BY <1>m, <1>4, <1>5, <1>6 DEF SeenInv

(* If the 800 ms outlast every cache write under way, then what a request  *)
(* works with, its tweet said since the request came or since the load it  *)
(* shares was read, but for a copy whose deletion is to come.              *)
THEOREM ReadsAreRecent == ASSUME Timely PROVE Spec => []ReadsRecent
<1>1. Init => OutdatedCovered /\ SeenInv
  BY DEF Init, OutdatedCovered, Outdated, SeenInv, OneRequest, RowSeen, LoadSeen, ReadsRecent
<1>2. TInv /\ OwnersFit /\ OutdatedCovered /\ [Next]_vars => OutdatedCovered'
  BY OutdatedNext
<1>3. TInv /\ OwnersFit /\ OutdatedCovered /\ StaleCovered /\ [Next]_vars => StaleCovered'
  BY StaleNext
<1>4. TInv /\ OwnersFit /\ GoneCovered /\ [Next]_vars => GoneCovered'
  BY GoneNext
<1>5. TInv /\ OwnersFit /\ StaleCovered /\ GoneCovered /\ SeenInv /\ [Next]_vars => SeenInv'
  BY SeenNext
<1>6. SeenInv => ReadsRecent
  BY DEF SeenInv
<1> QED
  BY <1>1, <1>2, <1>3, <1>4, <1>5, <1>6, InitTyped, TypeNext, InitFits, FitsNext, InitCovered,
     PTL DEF Spec
=============================================================================
