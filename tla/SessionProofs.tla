--------------------------- MODULE SessionProofs ---------------------------
(***************************************************************************)
(* Proofs about sessions, for any users, tokens and durations.             *)
(*                                                                         *)
(* None of the three properties is inductive alone.  A record waits in     *)
(* "issuing" or "extending" while time passes and other writes happen, so  *)
(* the bounds must hold of waiting records too (RecordsBounded); the index *)
(* outlives every session of its user because each write gives it the      *)
(* margin on top of an expiry that still lies ahead, while no session,     *)
(* stored or waiting, ends later than SessionDuration from now; and a      *)
(* token generated once is stored at most once (FreshTokens).  A refresh   *)
(* that waits to be written continues the session that is stored, or one   *)
(* that has ended, and grants SessionDuration from its start               *)
(* (RefreshesContinue).                                                    *)
(***************************************************************************)
EXTENDS Session, TLAPS

RecordsBounded ==
  /\ \A i \in issuing : Bounded(i.rec)
  /\ \A e \in extending : Bounded(e.rec)

FreshTokens ==
  /\ LiveTokens \subseteq used /\ ended \subseteq used
  /\ \A i \in issuing :
       /\ i.token \in used
       /\ i.token \notin collided => ~Live(i.token) /\ i.token \notin ended
  /\ \A i, j \in issuing :
       i.token = j.token /\ i.token \notin collided => i = j

Continues(e) ==
  \/ e.token \in ended
  \/ /\ Live(e.token)
     /\ e.rec.uid = data[e.token].uid /\ e.rec.created = data[e.token].created

Granted(e) ==
  Smaller(e.start + SessionDuration, e.rec.created + MaxSessionLife) <= e.rec.exp

RefreshesContinue ==
  /\ \A r \in refreshing : r.start <= now
  /\ \A e \in extending : Continues(e) /\ Granted(e)

IInv ==
  /\ TypeOK /\ LifetimeCap /\ RecordsBounded /\ IndexCovers
  /\ NoResurrection /\ FreshTokens /\ RefreshesContinue

(* The types hold at the start and are kept by every step. *)
LEMMA TypeInit == Init => TypeOK
BY SessionAssumption DEF Init, TypeOK

LEMMA TypeNext == TypeOK /\ [Next]_vars => TypeOK'
<1> SUFFICES ASSUME TypeOK, [Next]_vars PROVE TypeOK'
  OBVIOUS
<1>1. CASE Tick
  BY <1>1 DEF TypeOK, Tick, inFlight, LiveTokens, Live
<1>2. CASE Crash
  BY <1>2 DEF TypeOK, Crash, store, history
<1>3. ASSUME NEW u \in Users, PurgeRead(u) PROVE TypeOK'
  BY <1>3 DEF TypeOK, PurgeRead, store, history
<1>4. ASSUME NEW u \in Users, NEW t \in Tokens, Issue(u, t) PROVE TypeOK'
  BY <1>4, SessionAssumption DEF TypeOK, Issue, store, Session, SessionRec
<1>5. ASSUME NEW t \in Tokens, Validate(t) PROVE TypeOK'
  BY <1>5 DEF TypeOK, Validate, store, history
<1>6. ASSUME NEW t \in Tokens, Revoke(t) PROVE TypeOK'
  BY <1>6 DEF TypeOK, Revoke, Authentic, Live, SessionRec, store, history
<1>7. ASSUME NEW i \in issuing, CreateFail(i) PROVE TypeOK'
  BY <1>7 DEF TypeOK, CreateFail, store, history
<1>8. ASSUME NEW i \in issuing, NEW n \in 0 .. 2, Create(i, n) PROVE TypeOK'
  BY <1>8, MarginAssumption DEF TypeOK, Create, SetNX, IndexWrite, IndexTTL, SessionRec
<1>9. ASSUME NEW r \in refreshing, RefreshGet(r) PROVE TypeOK'
  BY <1>9, SessionAssumption DEF TypeOK, RefreshGet, Live, Extended, Session, Capped, Smaller,
              SessionRec, store, history
<1>10. ASSUME NEW e \in extending, RefreshFail(e) PROVE TypeOK'
  BY <1>10 DEF TypeOK, RefreshFail, store, history
<1>11. ASSUME NEW e \in extending, NEW n \in 0 .. 2, RefreshPut(e, n) PROVE TypeOK'
  BY <1>11, MarginAssumption DEF TypeOK, RefreshPut, SetXX, IndexWrite, IndexTTL, SessionRec
<1>12. ASSUME NEW r \in revoking, DeleteFail(r) PROVE TypeOK'
  BY <1>12 DEF TypeOK, DeleteFail, store, history
<1>13. ASSUME NEW r \in revoking, NEW n \in 0 .. 1, Delete(r, n) PROVE TypeOK'
  BY <1>13 DEF TypeOK, Delete
<1>14. ASSUME NEW p \in purging, NEW some \in SUBSET Tokens, NEW all \in BOOLEAN,
              PurgeDelete(p, some, all)
       PROVE TypeOK'
  BY <1>14 DEF TypeOK, PurgeDelete, OwnedBy, LiveTokens
<1>15. CASE UNCHANGED vars
  BY <1>15 DEF TypeOK, vars
<1>16. QED
  BY <1>1, <1>2, <1>3, <1>4, <1>5, <1>6, <1>7, <1>8, <1>9, <1>10, <1>11,
     <1>12, <1>13, <1>14, <1>15 DEF Next

(* Types are an invariant of the specification. *)
THEOREM TypeCorrect == Spec => []TypeOK
BY TypeInit, TypeNext, PTL DEF Spec

-----------------------------------------------------------------------------
(* What a refresh computes lies within the bounds. *)
LEMMA ExtendedBounded ==
  ASSUME TypeOK, NEW t \in Tokens, Live(t), Bounded(data[t])
  PROVE  Extended(data[t]) \in SessionRec /\ Bounded(Extended(data[t]))
<1>1. data[t] \in SessionRec
  BY DEF TypeOK, Live
<1>2. /\ now \in Nat /\ SessionDuration \in Nat /\ MaxSessionLife \in Nat
      /\ data[t].created \in Nat /\ data[t].uid \in Users
  BY <1>1, SessionAssumption DEF TypeOK, SessionRec
<1>3. Capped(data[t].created) \in Nat
  BY <1>2 DEF Capped, Smaller
<1>4. Extended(data[t]) \in SessionRec
  BY <1>2, <1>3 DEF Extended, Session, SessionRec
<1>5. Bounded(Extended(data[t]))
  BY <1>2, <1>3 DEF Bounded, Extended, Session, Capped, Smaller
<1> QED
  BY <1>4, <1>5

(* The bounds of stored and of waiting records are kept together. *)
LEMMA BoundsNext ==
  TypeOK /\ LifetimeCap /\ RecordsBounded /\ [Next]_vars
    => LifetimeCap' /\ RecordsBounded'
<1> SUFFICES ASSUME TypeOK, LifetimeCap, RecordsBounded, [Next]_vars
             PROVE  LifetimeCap' /\ RecordsBounded'
  OBVIOUS
<1>a. now \in Nat /\ SessionDuration \in Nat /\ MaxSessionLife \in Nat
      /\ SessionDuration <= MaxSessionLife
  BY SessionAssumption DEF TypeOK
<1>1. CASE Tick
  <2>1. now' = now + 1
    BY <1>1 DEF Tick
  <2>2. ASSUME NEW s \in SessionRec, Bounded(s) PROVE Bounded(s)'
    BY <1>a, <2>1, <2>2 DEF Bounded, SessionRec
  <2>3. \A t \in LiveTokens' : t \in LiveTokens /\ data'[t] = data[t]
                               /\ data[t] \in SessionRec
    BY <1>1 DEF Tick, LiveTokens, Live, TypeOK
  <2>4. issuing' = issuing /\ extending' = extending
    BY <1>1 DEF Tick, inFlight
  <2>5. RecordsBounded'
    BY <2>2, <2>4 DEF RecordsBounded, TypeOK
  <2>6. LifetimeCap'
    BY <2>2, <2>3 DEF LifetimeCap, Bounded
  <2> QED
    BY <2>5, <2>6
<1>2. ASSUME UNCHANGED now,
             \A t \in LiveTokens' :
               \/ t \in LiveTokens /\ data'[t] = data[t]
               \/ \E i \in issuing : data'[t] = i.rec
               \/ \E e \in extending : data'[t] = e.rec,
             \A i \in issuing' : i \in issuing \/ Bounded(i.rec),
             \A e \in extending' : e \in extending \/ Bounded(e.rec)
      PROVE  LifetimeCap' /\ RecordsBounded'
  BY <1>2 DEF LifetimeCap, RecordsBounded, Bounded
<1>3. CASE Crash
  BY <1>2, <1>3 DEF Crash, store, LiveTokens, Live
<1>4. ASSUME NEW u \in Users, PurgeRead(u) PROVE LifetimeCap' /\ RecordsBounded'
  BY <1>2, <1>4 DEF PurgeRead, store, LiveTokens, Live
<1>5. ASSUME NEW u \in Users, NEW t \in Tokens, Issue(u, t)
      PROVE  LifetimeCap' /\ RecordsBounded'
  <2>1. Bounded(Session(u, now + SessionDuration, now))
    BY <1>a DEF Bounded, Session
  <2> QED
    BY <1>2, <1>5, <2>1 DEF Issue, store, LiveTokens, Live
<1>6. ASSUME NEW t \in Tokens, Validate(t) \/ Revoke(t)
      PROVE  LifetimeCap' /\ RecordsBounded'
  BY <1>2, <1>6 DEF Validate, Revoke, store, LiveTokens, Live
<1>7. ASSUME NEW i \in issuing, CreateFail(i) \/ \E n \in 0 .. 2 : Create(i, n)
      PROVE  LifetimeCap' /\ RecordsBounded'
  <2>1. CASE CreateFail(i)
    BY <1>2, <2>1 DEF CreateFail, store, LiveTokens, Live
  <2>2. ASSUME NEW n \in 0 .. 2, Create(i, n)
        PROVE  LifetimeCap' /\ RecordsBounded'
    BY <1>2, <2>2 DEF Create, SetNX, LiveTokens, Live, TypeOK
  <2> QED
    BY <1>7, <2>1, <2>2
<1>8. ASSUME NEW r \in refreshing, RefreshGet(r)
      PROVE  LifetimeCap' /\ RecordsBounded'
  <2>1. r.token \in Tokens
    BY DEF TypeOK
  <2>2. Live(r.token) => Bounded(Extended(data[r.token]))
    BY <2>1, ExtendedBounded DEF LifetimeCap, LiveTokens
  <2>3. \A e \in extending' : e \in extending \/ Bounded(e.rec)
    BY <1>8, <2>2 DEF RefreshGet
  <2> QED
    BY <1>2, <1>8, <2>3 DEF RefreshGet, store, LiveTokens, Live
<1>9. ASSUME NEW e \in extending, RefreshFail(e) \/ \E n \in 0 .. 2 : RefreshPut(e, n)
      PROVE  LifetimeCap' /\ RecordsBounded'
  <2>1. CASE RefreshFail(e)
    BY <1>2, <2>1 DEF RefreshFail, store, LiveTokens, Live
  <2>2. ASSUME NEW n \in 0 .. 2, RefreshPut(e, n)
        PROVE  LifetimeCap' /\ RecordsBounded'
    BY <1>2, <2>2 DEF RefreshPut, SetXX, LiveTokens, Live, TypeOK
  <2> QED
    BY <1>9, <2>1, <2>2
<1>10. ASSUME NEW r \in revoking, DeleteFail(r) \/ \E n \in 0 .. 1 : Delete(r, n)
       PROVE  LifetimeCap' /\ RecordsBounded'
  BY <1>2, <1>10 DEF DeleteFail, Delete, store, LiveTokens, Live, TypeOK
<1>11. ASSUME NEW p \in purging, NEW some \in SUBSET Tokens, NEW all \in BOOLEAN,
              PurgeDelete(p, some, all)
       PROVE  LifetimeCap' /\ RecordsBounded'
  BY <1>2, <1>11 DEF PurgeDelete, LiveTokens, Live, TypeOK
<1>12. CASE UNCHANGED vars
  BY <1>2, <1>12 DEF vars, LiveTokens, Live
<1> QED
  BY <1>1, <1>3, <1>4, <1>5, <1>6, <1>7, <1>8, <1>9, <1>10, <1>11, <1>12 DEF Next

-----------------------------------------------------------------------------
(* One session is covered by the index. *)
Covered(t) ==
  /\ t \in index[data[t].uid]
  /\ indexExp[data[t].uid] = 0 \/ indexExp[data[t].uid] >= data[t].exp

(* A write to the index whose expiry lies ahead leaves every session that  *)
(* was covered, and that it does not write itself, covered.                *)
LEMMA IndexWriteKeeps ==
  ASSUME TypeOK, LifetimeCap, NEW t \in LiveTokens, Covered(t),
         NEW u \in Users, NEW x \in Tokens, NEW exp \in Nat, exp > now,
         NEW n \in 0 .. 2, IndexWrite(u, x, exp, n), data'[t] = data[t]
  PROVE  Covered(t)'
<1>1. data[t] \in SessionRec /\ data[t].exp <= now + SessionDuration
  BY DEF TypeOK, LiveTokens, Live, LifetimeCap, Bounded
<1>2. IndexTTL(exp) >= data[t].exp
  BY <1>1, SessionAssumption, MarginAssumption DEF IndexTTL, TypeOK, SessionRec
<1>3. t \in index'[data[t].uid]
  BY <1>1 DEF Covered, IndexWrite, TypeOK, SessionRec
<1>4. indexExp'[data[t].uid] = 0 \/ indexExp'[data[t].uid] >= data[t].exp
  BY <1>1, <1>2 DEF Covered, IndexWrite, TypeOK, SessionRec
<1> QED
  BY <1>3, <1>4 DEF Covered

(* A complete write covers the session it is about. *)
LEMMA IndexWriteCovers ==
  ASSUME TypeOK, NEW t \in Tokens, NEW rec \in SessionRec,
         IndexWrite(rec.uid, t, rec.exp, 2), data'[t] = rec
  PROVE  Covered(t)'
BY MarginAssumption DEF Covered, IndexWrite, IndexTTL, TypeOK, SessionRec

LEMMA CoverNext ==
  TypeOK /\ LifetimeCap /\ IndexCovers /\ [Next]_vars => IndexCovers'
<1> SUFFICES ASSUME TypeOK, LifetimeCap, IndexCovers, [Next]_vars,
                    NEW t \in LiveTokens', t \notin uncovered'
             PROVE  Covered(t)'
  BY DEF IndexCovers, Covered
<1>a. t \in Tokens
  BY DEF LiveTokens
<1>b. t \in LiveTokens /\ t \notin uncovered => Covered(t)
  BY DEF IndexCovers, Covered
<1>c. t \in LiveTokens => data[t] \in SessionRec
  BY DEF TypeOK, LiveTokens, Live
(* The steps that leave this session and the index alone. *)
<1>d. ASSUME UNCHANGED <<index, indexExp>>, t \in LiveTokens, data'[t] = data[t],
             t \notin uncovered
      PROVE  Covered(t)'
  BY <1>b, <1>d DEF Covered
<1>1. CASE Tick
  <2>1. t \in LiveTokens /\ data'[t] = data[t] /\ data[t].exp > now + 1
    BY <1>1, <1>c DEF Tick, LiveTokens, Live, TypeOK, SessionRec
  <2>2. Covered(t)
    BY <1>1, <1>b, <2>1 DEF Tick
  <2>3. data[t].uid \in Users /\ data[t].exp \in Nat /\ now \in Nat
        /\ indexExp[data[t].uid] \in Nat
    BY <1>c, <2>1 DEF SessionRec, TypeOK
  <2>4. ~(indexExp[data[t].uid] # 0 /\ indexExp[data[t].uid] <= now + 1)
    BY <2>1, <2>2, <2>3 DEF Covered
  <2>5. index'[data[t].uid] = index[data[t].uid]
        /\ indexExp'[data[t].uid] = indexExp[data[t].uid]
    BY <1>1, <2>3, <2>4 DEF Tick
  <2> QED
    BY <2>1, <2>2, <2>5 DEF Covered
<1>2. CASE Crash
  BY <1>2, <1>d DEF Crash, store, history, LiveTokens, Live
<1>3. ASSUME NEW u \in Users, PurgeRead(u) \/ \E x \in Tokens : Issue(u, x)
      PROVE  Covered(t)'
  BY <1>3, <1>d DEF PurgeRead, Issue, store, history, LiveTokens, Live
<1>4. ASSUME NEW x \in Tokens, Validate(x) \/ Revoke(x) PROVE Covered(t)'
  BY <1>4, <1>d DEF Validate, Revoke, store, history, LiveTokens, Live
<1>5. ASSUME NEW i \in issuing, CreateFail(i) PROVE Covered(t)'
  BY <1>5, <1>d DEF CreateFail, store, history, LiveTokens, Live
<1>6. ASSUME NEW i \in issuing, NEW n \in 0 .. 2, Create(i, n) PROVE Covered(t)'
  <2>1. i.token \in Tokens /\ i.rec \in SessionRec /\ i.rec.uid \in Users
        /\ i.rec.exp \in Nat
    BY DEF TypeOK, SessionRec
  <2>2. CASE t = i.token /\ ~Live(t)
    <3>1. n = 2 /\ data'[t] = i.rec
      BY <1>6, <2>1, <2>2 DEF Create, SetNX, TypeOK
    <3> QED
      BY <1>6, <2>1, <2>2, <3>1, IndexWriteCovers DEF Create
  <2>3. CASE t # i.token \/ Live(t)
    <3>1. t \in LiveTokens /\ data'[t] = data[t] /\ t \notin uncovered
      BY <1>6, <2>1, <2>3 DEF Create, SetNX, LiveTokens, Live, TypeOK
    <3> QED
      BY <1>6, <1>b, <2>1, <3>1, IndexWriteKeeps DEF Create
  <2> QED
    BY <2>2, <2>3
<1>7. ASSUME NEW r \in refreshing, RefreshGet(r) PROVE Covered(t)'
  BY <1>7, <1>d DEF RefreshGet, store, history, LiveTokens, Live
<1>8. ASSUME NEW e \in extending, RefreshFail(e) PROVE Covered(t)'
  BY <1>8, <1>d DEF RefreshFail, store, history, LiveTokens, Live
<1>9. ASSUME NEW e \in extending, NEW n \in 0 .. 2, RefreshPut(e, n)
      PROVE  Covered(t)'
  <2>1. e.token \in Tokens /\ e.rec \in SessionRec /\ e.rec.uid \in Users
        /\ e.rec.exp \in Nat
    BY DEF TypeOK, SessionRec
  <2>2. CASE t = e.token
    <3>1. Live(t) /\ n = 2 /\ data'[t] = e.rec
      BY <1>9, <2>1, <2>2 DEF RefreshPut, SetXX, LiveTokens, Live, TypeOK
    <3> QED
      BY <1>9, <2>1, <2>2, <3>1, IndexWriteCovers DEF RefreshPut
  <2>3. CASE t # e.token
    <3>1. t \in LiveTokens /\ data'[t] = data[t] /\ t \notin uncovered
      BY <1>9, <2>1, <2>3 DEF RefreshPut, SetXX, LiveTokens, Live, TypeOK
    <3> QED
      BY <1>9, <1>b, <2>1, <3>1, IndexWriteKeeps DEF RefreshPut
  <2> QED
    BY <2>2, <2>3
<1>10. ASSUME NEW r \in revoking, DeleteFail(r) PROVE Covered(t)'
  BY <1>10, <1>d DEF DeleteFail, store, history, LiveTokens, Live
<1>11. ASSUME NEW r \in revoking, NEW n \in 0 .. 1, Delete(r, n) PROVE Covered(t)'
  <2>1. r.token \in Tokens /\ r.uid \in Users
    BY DEF TypeOK
  <2>2. t # r.token /\ t \in LiveTokens /\ data'[t] = data[t] /\ t \notin uncovered
    BY <1>11, <2>1 DEF Delete, LiveTokens, Live, TypeOK
  <2>3. CASE n = 0
    BY <1>11, <1>d, <2>2, <2>3 DEF Delete
  <2>4. CASE n # 0 /\ data[t].uid # r.uid
    BY <1>11, <1>b, <1>c, <2>1, <2>2, <2>4 DEF Delete, Covered, TypeOK, SessionRec
  <2>5. CASE n # 0 /\ data[t].uid = r.uid
    <3>1. t \in index[r.uid] \ {r.token}
      BY <1>b, <2>2, <2>5 DEF Covered
    <3>2. index'[r.uid] = index[r.uid] \ {r.token} /\ indexExp'[r.uid] = indexExp[r.uid]
      BY <1>11, <2>1, <2>5, <3>1 DEF Delete, TypeOK
    <3> QED
      BY <1>b, <2>2, <2>5, <3>1, <3>2 DEF Covered
  <2> QED
    BY <2>3, <2>4, <2>5
<1>12. ASSUME NEW p \in purging, NEW some \in SUBSET Tokens, NEW all \in BOOLEAN,
              PurgeDelete(p, some, all)
       PROVE  Covered(t)'
  <2>1. t \in LiveTokens /\ data'[t] = data[t] /\ t \notin some /\ p.uid \in Users
    BY <1>12, <1>a DEF PurgeDelete, LiveTokens, Live, TypeOK
  <2>2. CASE ~all
    BY <1>12, <1>d, <2>1, <2>2 DEF PurgeDelete
  <2>3. CASE all
    <3>1. t \notin uncovered /\ data[t].uid # p.uid
      BY <1>12, <2>1, <2>3 DEF PurgeDelete, OwnedBy
    <3> QED
      BY <1>12, <1>b, <1>c, <2>1, <2>3, <3>1
         DEF PurgeDelete, Covered, TypeOK, SessionRec
  <2> QED
    BY <2>2, <2>3
<1>13. CASE UNCHANGED vars
  BY <1>13, <1>d DEF vars, LiveTokens, Live
<1> QED
  BY <1>1, <1>2, <1>3, <1>4, <1>5, <1>6, <1>7, <1>8, <1>9, <1>10, <1>11, <1>12,
     <1>13 DEF Next

-----------------------------------------------------------------------------
(* A token drawn once is stored at most once, so what has ended is over.   *)
LEMMA FreshNext ==
  TypeOK /\ NoResurrection /\ FreshTokens /\ [Next]_vars
    => NoResurrection' /\ FreshTokens'
<1> SUFFICES ASSUME TypeOK, NoResurrection, FreshTokens, [Next]_vars
             PROVE  NoResurrection' /\ FreshTokens'
  OBVIOUS
(* The steps that store nothing new and generate no token. *)
<1>a. ASSUME UNCHANGED <<used, collided>>, issuing' \subseteq issuing,
             LiveTokens' \subseteq LiveTokens,
             ended' \subseteq ended \cup (LiveTokens \ LiveTokens')
      PROVE  NoResurrection' /\ FreshTokens'
  <2>1. NoResurrection'
    BY <1>a DEF NoResurrection, LiveTokens, TypeOK
  <2>2. FreshTokens'
    BY <1>a DEF FreshTokens, LiveTokens, TypeOK
  <2> QED
    BY <2>1, <2>2
<1>1. CASE Tick
  BY <1>1, <1>a DEF Tick, inFlight, LiveTokens, Live, TypeOK
<1>2. CASE Crash
  BY <1>2, <1>a DEF Crash, store, history, LiveTokens, Live
<1>3. ASSUME NEW u \in Users, PurgeRead(u) PROVE NoResurrection' /\ FreshTokens'
  BY <1>3, <1>a DEF PurgeRead, store, history, LiveTokens, Live
<1>4. ASSUME NEW u \in Users, NEW t \in Tokens, Issue(u, t)
      PROVE  NoResurrection' /\ FreshTokens'
  <2>1. LiveTokens' = LiveTokens /\ ended' = ended /\ collided \subseteq collided'
        /\ \A x \in Tokens : Live(x)' <=> Live(x)
    BY <1>4 DEF Issue, store, LiveTokens, Live
  <2>2. NoResurrection'
    BY <2>1 DEF NoResurrection, TypeOK
  <2>3. t \notin collided' => t \notin used
    BY <1>4 DEF Issue
  <2>4. \A i \in issuing' : i \in issuing \/ i.token = t
    BY <1>4 DEF Issue
  <2>5. t \notin used => ~Live(t) /\ t \notin ended
    BY DEF FreshTokens, LiveTokens
  <2>6. \A i \in issuing' :
          i.token \in used' /\
          (i.token \notin collided' => ~Live(i.token)' /\ i.token \notin ended')
    BY <1>4, <2>1, <2>3, <2>4, <2>5 DEF FreshTokens, Issue, TypeOK
  <2>7. \A i, j \in issuing' : i.token = j.token /\ i.token \notin collided' => i = j
    BY <1>4, <2>1, <2>3 DEF FreshTokens, Issue
  <2>8. LiveTokens' \subseteq used' /\ ended' \subseteq used'
    BY <1>4, <2>1 DEF FreshTokens, Issue
  <2> QED
    BY <2>2, <2>6, <2>7, <2>8 DEF FreshTokens
<1>5. ASSUME NEW t \in Tokens, Validate(t) \/ Revoke(t)
      PROVE  NoResurrection' /\ FreshTokens'
  BY <1>5, <1>a DEF Validate, Revoke, store, history, LiveTokens, Live
<1>6. ASSUME NEW i \in issuing, CreateFail(i) PROVE NoResurrection' /\ FreshTokens'
  BY <1>6, <1>a DEF CreateFail, store, history, LiveTokens, Live
<1>7. ASSUME NEW i \in issuing, NEW n \in 0 .. 2, Create(i, n)
      PROVE  NoResurrection' /\ FreshTokens'
  <2>1. i.token \in used /\ i.token \in Tokens
        /\ (i.token \notin collided => ~Live(i.token) /\ i.token \notin ended)
    BY DEF FreshTokens, TypeOK
  <2>2. UNCHANGED <<used, collided, ended>> /\ issuing' = issuing \ {i}
    BY <1>7 DEF Create
  <2>3. \A x \in Tokens : Live(x)' => Live(x) \/ x = i.token
    BY <1>7 DEF Create, SetNX, Live, TypeOK
  <2>4. NoResurrection'
    BY <2>1, <2>2, <2>3 DEF NoResurrection, TypeOK
  <2>5. LiveTokens' \subseteq used'
    BY <2>1, <2>2, <2>3 DEF FreshTokens, LiveTokens
  <2>6. \A j \in issuing' :
          j.token \in used' /\
          (j.token \notin collided' => ~Live(j.token)' /\ j.token \notin ended')
    BY <2>2, <2>3 DEF FreshTokens, TypeOK
  <2> QED
    BY <2>2, <2>4, <2>5, <2>6 DEF FreshTokens
<1>8. ASSUME NEW r \in refreshing, RefreshGet(r) PROVE NoResurrection' /\ FreshTokens'
  BY <1>8, <1>a DEF RefreshGet, store, history, LiveTokens, Live
<1>9. ASSUME NEW e \in extending, RefreshFail(e) PROVE NoResurrection' /\ FreshTokens'
  BY <1>9, <1>a DEF RefreshFail, store, history, LiveTokens, Live
<1>10. ASSUME NEW e \in extending, NEW n \in 0 .. 2, RefreshPut(e, n)
       PROVE  NoResurrection' /\ FreshTokens'
  <2>1. LiveTokens' \subseteq LiveTokens
    BY <1>10 DEF RefreshPut, SetXX, LiveTokens, Live, TypeOK
  <2> QED
    BY <1>10, <1>a, <2>1 DEF RefreshPut
<1>11. ASSUME NEW r \in revoking, DeleteFail(r) PROVE NoResurrection' /\ FreshTokens'
  BY <1>11, <1>a DEF DeleteFail, store, history, LiveTokens, Live
<1>12. ASSUME NEW r \in revoking, NEW n \in 0 .. 1, Delete(r, n)
       PROVE  NoResurrection' /\ FreshTokens'
  <2>1. LiveTokens' = LiveTokens \ {r.token}
    BY <1>12 DEF Delete, LiveTokens, Live, TypeOK
  <2>2. ended' \subseteq ended \cup (LiveTokens \ LiveTokens')
    BY <1>12, <2>1 DEF Delete, LiveTokens, TypeOK
  <2> QED
    BY <1>12, <1>a, <2>1, <2>2 DEF Delete
<1>13. ASSUME NEW p \in purging, NEW some \in SUBSET Tokens, NEW all \in BOOLEAN,
              PurgeDelete(p, some, all)
       PROVE  NoResurrection' /\ FreshTokens'
  <2>1. LiveTokens' = LiveTokens \ some
    BY <1>13 DEF PurgeDelete, LiveTokens, Live, TypeOK
  <2> QED
    BY <1>13, <1>a, <2>1 DEF PurgeDelete
<1>14. CASE UNCHANGED vars
  BY <1>14, <1>a DEF vars, LiveTokens, Live
<1> QED
  BY <1>1, <1>2, <1>3, <1>4, <1>5, <1>6, <1>7, <1>8, <1>9, <1>10, <1>11, <1>12,
     <1>13, <1>14 DEF Next

-----------------------------------------------------------------------------
(* A refresh goes on to continue what it read, or that has ended.          *)
LEMMA ContinuesNext ==
  TypeOK /\ RefreshesContinue /\ [Next]_vars => RefreshesContinue'
<1> SUFFICES ASSUME TypeOK, RefreshesContinue, [Next]_vars
             PROVE  RefreshesContinue'
  OBVIOUS
(* The steps that end sessions, or leave them the user and the start. *)
<1>a. ASSUME now \in Nat, now' \in Nat, now <= now',
             \A r \in refreshing' : r \in refreshing \/ r.start <= now',
             extending' \subseteq extending, ended \subseteq ended',
             \A t \in Tokens \ ended' :
               Live(t) => /\ Live(t)' /\ data'[t].uid = data[t].uid
                          /\ data'[t].created = data[t].created
      PROVE  RefreshesContinue'
  <2>1. \A r \in refreshing' : r.start <= now'
    BY <1>a DEF RefreshesContinue, TypeOK
  <2>2. ASSUME NEW e \in extending' PROVE Continues(e)' /\ Granted(e)
    <3>1. e \in extending /\ e.token \in Tokens
      BY <1>a DEF TypeOK
    <3>2. Continues(e) /\ Granted(e)
      BY <3>1 DEF RefreshesContinue
    <3> QED
      BY <1>a, <3>1, <3>2 DEF Continues
  <2> QED
    BY <2>1, <2>2 DEF RefreshesContinue, Granted
<1>b. now \in Nat
  BY DEF TypeOK
<1>1. CASE Tick
  <2>1. \A t \in Tokens \ ended' : Live(t) => data'[t] = data[t]
    BY <1>1 DEF Tick, LiveTokens
  <2> QED
    BY <1>1, <1>a, <1>b, <2>1 DEF Tick, inFlight, Live
<1>2. CASE Crash
  BY <1>2 DEF Crash, RefreshesContinue
<1>3. ASSUME NEW u \in Users, PurgeRead(u) \/ \E t \in Tokens : Issue(u, t)
      PROVE  RefreshesContinue'
  BY <1>3, <1>a, <1>b DEF PurgeRead, Issue, store, history, Live
<1>4. ASSUME NEW t \in Tokens, Validate(t) \/ Revoke(t) PROVE RefreshesContinue'
  BY <1>4, <1>a, <1>b DEF Validate, Revoke, store, history, Live
<1>5. ASSUME NEW i \in issuing, CreateFail(i) \/ \E n \in 0 .. 2 : Create(i, n)
      PROVE  RefreshesContinue'
  <2>1. CASE CreateFail(i)
    BY <2>1, <1>a, <1>b DEF CreateFail, store, history, Live
  <2>2. ASSUME NEW n \in 0 .. 2, Create(i, n) PROVE RefreshesContinue'
    <3>1. \A t \in Tokens : Live(t) => data'[t] = data[t]
      BY <2>2 DEF Create, SetNX, Live, TypeOK
    <3> QED
      BY <2>2, <3>1, <1>a, <1>b DEF Create, Live
  <2> QED
    BY <1>5, <2>1, <2>2
<1>6. ASSUME NEW r \in refreshing, RefreshGet(r) PROVE RefreshesContinue'
  <2>1. r.start \in Nat /\ r.start <= now /\ r.token \in Tokens
    BY DEF RefreshesContinue, TypeOK
  <2>2. CASE ~(Live(r.token) /\ InTime(r.start))
    BY <1>6, <2>2, <1>a, <1>b DEF RefreshGet, store, history, Live
  <2>3. CASE Live(r.token) /\ InTime(r.start)
    <3> DEFINE new == [token |-> r.token, start |-> r.start,
                       rec |-> Extended(data[r.token])]
    <3>1. /\ extending' = extending \cup {new} /\ refreshing' \subseteq refreshing
          /\ now' = now /\ data' = data /\ ended' = ended
      BY <1>6, <2>3 DEF RefreshGet, store, history
    <3>2. data[r.token] \in SessionRec
      BY <2>1, <2>3 DEF TypeOK, Live
    <3>3. Continues(new)
      BY <2>3 DEF Continues, Extended, Session
    <3>4. Granted(new)
      BY <1>b, <2>1, <3>2, SessionAssumption
         DEF Granted, Extended, Session, Capped, Smaller, SessionRec
    <3>5. \A e \in extending' : Continues(e) /\ Granted(e)
      BY <3>1, <3>3, <3>4 DEF RefreshesContinue
    <3> QED
      BY <3>1, <3>5 DEF RefreshesContinue, Continues, Live, Granted
  <2> QED
    BY <2>2, <2>3
<1>7. ASSUME NEW e \in extending, RefreshFail(e) \/ \E n \in 0 .. 2 : RefreshPut(e, n)
      PROVE  RefreshesContinue'
  <2>1. CASE RefreshFail(e)
    BY <2>1, <1>a, <1>b DEF RefreshFail, store, history, Live
  <2>2. ASSUME NEW n \in 0 .. 2, RefreshPut(e, n) PROVE RefreshesContinue'
    <3>1. e.token \in Tokens /\ e.rec \in SessionRec /\ Continues(e)
      BY DEF TypeOK, RefreshesContinue
    <3>2. e.rec # NoSession
      BY <3>1, SessionAssumption
    <3>3. \A t \in Tokens \ ended :
            Live(t) => /\ Live(t)' /\ data'[t].uid = data[t].uid
                       /\ data'[t].created = data[t].created
      BY <2>2, <3>1, <3>2 DEF RefreshPut, SetXX, Live, Continues, TypeOK
    <3> QED
      BY <2>2, <3>3, <1>a, <1>b DEF RefreshPut
  <2> QED
    BY <1>7, <2>1, <2>2
<1>8. ASSUME NEW r \in revoking, DeleteFail(r) \/ \E n \in 0 .. 1 : Delete(r, n)
      PROVE  RefreshesContinue'
  <2>1. CASE DeleteFail(r)
    BY <2>1, <1>a, <1>b DEF DeleteFail, store, history, Live
  <2>2. ASSUME NEW n \in 0 .. 1, Delete(r, n) PROVE RefreshesContinue'
    <3>1. \A t \in Tokens \ ended' : Live(t) => data'[t] = data[t]
      BY <2>2 DEF Delete, TypeOK
    <3> QED
      BY <2>2, <3>1, <1>a, <1>b DEF Delete, Live
  <2> QED
    BY <1>8, <2>1, <2>2
<1>9. ASSUME NEW p \in purging, NEW some \in SUBSET Tokens, NEW all \in BOOLEAN,
              PurgeDelete(p, some, all)
       PROVE  RefreshesContinue'
  <2>1. \A t \in Tokens \ ended' : Live(t) => data'[t] = data[t]
    BY <1>9 DEF PurgeDelete, LiveTokens
  <2> QED
    BY <1>9, <2>1, <1>a, <1>b DEF PurgeDelete, Live
<1>10. CASE UNCHANGED vars
  BY <1>10, <1>a, <1>b DEF vars, Live
<1> QED
  BY <1>1, <1>2, <1>3, <1>4, <1>5, <1>6, <1>7, <1>8, <1>9, <1>10 DEF Next

(* Only a refresh changes what is stored for a live session. *)
LEMMA OnlyRefreshes ==
  ASSUME TypeOK, [Next]_vars, NEW t \in Tokens, Live(t), Live(t)', data'[t] # data[t]
  PROVE  \E e \in extending : e.token = t /\ InTime(e.start) /\ data'[t] = e.rec
<1>1. CASE Tick
  BY <1>1 DEF Tick, LiveTokens, Live
<1>2. CASE Crash
  BY <1>2 DEF Crash, store
<1>3. CASE \E u \in Users : PurgeRead(u) \/ \E x \in Tokens : Issue(u, x)
  BY <1>3 DEF PurgeRead, Issue, store
<1>4. CASE \E x \in Tokens : Validate(x) \/ Revoke(x)
  BY <1>4 DEF Validate, Revoke, store
<1>5. CASE \E i \in issuing : CreateFail(i) \/ \E n \in 0 .. 2 : Create(i, n)
  BY <1>5 DEF CreateFail, Create, SetNX, Live, store, TypeOK
<1>6. CASE \E r \in refreshing : RefreshGet(r)
  BY <1>6 DEF RefreshGet, store
<1>7. CASE \E e \in extending : RefreshFail(e) \/ \E n \in 0 .. 2 : RefreshPut(e, n)
  BY <1>7 DEF RefreshFail, RefreshPut, SetXX, store, TypeOK
<1>8. CASE \E r \in revoking : DeleteFail(r) \/ \E n \in 0 .. 1 : Delete(r, n)
  BY <1>8 DEF DeleteFail, Delete, Live, store, TypeOK
<1>9. CASE \E p \in purging, some \in SUBSET Tokens, all \in BOOLEAN :
             PurgeDelete(p, some, all)
  BY <1>9 DEF PurgeDelete, Live
<1>10. CASE UNCHANGED vars
  BY <1>10 DEF vars
<1> QED
  BY <1>1, <1>2, <1>3, <1>4, <1>5, <1>6, <1>7, <1>8, <1>9, <1>10 DEF Next

-----------------------------------------------------------------------------
(* The inductive invariant, of which the properties are the parts. *)
LEMMA Inductive == Init /\ [][Next]_vars => []IInv
<1>1. Init => IInv
  BY TypeInit DEF Init, IInv, LifetimeCap, RecordsBounded, IndexCovers,
     NoResurrection, FreshTokens, RefreshesContinue, LiveTokens, Live
<1>2. IInv /\ [Next]_vars => IInv'
  BY TypeNext, BoundsNext, CoverNext, FreshNext, ContinuesNext DEF IInv
<1> QED
  BY <1>1, <1>2, PTL

(* However refreshes are delayed and reordered, no session exceeds         *)
(* MaxSessionLife, or SessionDuration from now.                            *)
THEOREM LifetimeBounded == Spec => []LifetimeCap
<1>1. IInv => LifetimeCap
  BY DEF IInv
<1> QED
  BY <1>1, Inductive, PTL DEF Spec

(* DeleteByUserID finds every live session of its user whose index writes  *)
(* were not cut and that no purge raced.                                   *)
THEOREM IndexComplete == Spec => []IndexCovers
<1>1. IInv => IndexCovers
  BY DEF IInv
<1> QED
  BY <1>1, Inductive, PTL DEF Spec

(* A session that has ended stays ended, unless its token is drawn again. *)
THEOREM EndedForGood == Spec => []NoResurrection
<1>1. IInv => NoResurrection
  BY DEF IInv
<1> QED
  BY <1>1, Inductive, PTL DEF Spec

(* A live session is never another one's, and never starts again, however *)
(* tokens collide and refreshes are delayed.                               *)
THEOREM NotTakenOver == Spec => [][SameSession]_vars
<1>1. IInv /\ [Next]_vars => [SameSession]_vars
  <2> SUFFICES ASSUME IInv, [Next]_vars, NEW t \in Tokens \ ended, Live(t), Live(t)'
               PROVE  data'[t].uid = data[t].uid /\ data'[t].created = data[t].created
    BY DEF SameSession
  <2>1. CASE data'[t] = data[t]
    BY <2>1
  <2>2. CASE data'[t] # data[t]
    <3>1. PICK e \in extending : e.token = t /\ data'[t] = e.rec
      BY <2>2, OnlyRefreshes DEF IInv
    <3> QED
      BY <3>1 DEF IInv, RefreshesContinue, Continues
  <2> QED
    BY <2>1, <2>2
<1> QED
  BY <1>1, Inductive, PTL DEF Spec

(* A refresh that overtakes another one costs a session no more than the   *)
(* timeout of a refresh.                                                   *)
THEOREM HardlyShortened == Spec => [][EndKept]_vars
<1>1. IInv /\ [Next]_vars => [EndKept]_vars
  <2> SUFFICES ASSUME IInv, [Next]_vars, NEW t \in Tokens \ ended, Live(t), Live(t)'
               PROVE  data'[t].exp + RefreshTimeout >= data[t].exp
    BY DEF EndKept
  <2>1. data[t] \in SessionRec /\ now \in Nat
    BY DEF IInv, TypeOK, Live
  <2>2. CASE data'[t] = data[t]
    BY <2>1, <2>2, SessionAssumption DEF SessionRec
  <2>3. CASE data'[t] # data[t]
    <3>1. PICK e \in extending :
            e.token = t /\ InTime(e.start) /\ data'[t] = e.rec
      BY <2>3, OnlyRefreshes DEF IInv
    <3>2. e.rec \in SessionRec /\ e.start \in Nat
      BY DEF IInv, TypeOK
    <3>3. Granted(e) /\ e.rec.created = data[t].created
      BY <3>1 DEF IInv, RefreshesContinue, Continues
    <3>4. Bounded(data[t])
      BY DEF IInv, LifetimeCap, LiveTokens
    <3> QED
      BY <2>1, <3>1, <3>2, <3>3, <3>4, SessionAssumption
         DEF Granted, Bounded, InTime, Smaller, SessionRec
  <2> QED
    BY <2>2, <2>3
<1> QED
  BY <1>1, Inductive, PTL DEF Spec

(* Whatever logins and refreshes are written in whatever order, a session  *)
(* that lives keeps its user, its start and, within a refresh, its end.    *)
THEOREM SessionsKept == Spec => SessionKept
<1>1. [SameSession]_vars /\ [EndKept]_vars => [SameSession /\ EndKept]_vars
  OBVIOUS
<1> QED
  BY <1>1, NotTakenOver, HardlyShortened, PTL DEF SessionKept
=============================================================================
