------------------------------ MODULE Session ------------------------------
(***************************************************************************)
(* Login sessions of AITA: the session service on top of its Redis store.  *)
(*                                                                         *)
(* A session lives under its token's key, with a time to live; a set per   *)
(* user (the index) names the user's tokens so that all of them can be     *)
(* deleted, and has a time to live of its own.  Login writes both, a       *)
(* request near the end of a session starts a goroutine that extends it,   *)
(* logout deletes it.  A writer computes the expiry first and writes       *)
(* later; each write is a pipeline without MULTI, of which a failure may   *)
(* leave a prefix.  Redis expires keys as time passes.                     *)
(*                                                                         *)
(* Abstracted: tokens stand for their hashes; a pipeline that is not cut   *)
(* runs at once; one process clock, which Redis shares.                    *)
(***************************************************************************)
EXTENDS Naturals, FiniteSets

CONSTANTS
  Users, Tokens,
  NoSession,
  SessionDuration,  \* 24 h: what a login or a refresh grants
  MaxSessionLife,   \* 7 d: the most refreshes can add up to
  IndexMargin,      \* 24 h: how much longer the index is kept
  RefreshPart,      \* 4: a refresh starts in the last quarter
  RefreshTimeout,   \* 30 s: the context of a refresh
  LastLogin,        \* bound: when the last login begins
  MaxTime,          \* bound: the clock
  MaxInFlight       \* bound: operations between their steps

SessionRec == [uid : Users, exp : Nat, created : Nat]

ASSUME SessionAssumption ==
  /\ SessionDuration \in Nat \ {0} /\ MaxSessionLife \in Nat
  /\ SessionDuration <= MaxSessionLife
  /\ RefreshPart \in Nat /\ RefreshTimeout \in Nat
  /\ LastLogin \in Nat /\ MaxTime \in Nat /\ MaxInFlight \in Nat
  /\ NoSession \notin SessionRec

(* const_service.go and redis_session_store.go use 24 h for both. *)
ASSUME MarginAssumption == IndexMargin \in Nat /\ IndexMargin >= SessionDuration

VARIABLES
  now,
  data,        \* session keys
  index,       \* per user, the members of the index
  indexExp,    \* when the index expires; 0: no time to live is set
  issuing,     \* logins between computing the record and storing it
  refreshing,  \* refreshes that have not read the session yet
  extending,   \* refreshes that have read it and computed the new expiry
  revoking,    \* logouts that have authenticated
  purging,     \* DeleteByUserID calls that have read the index
  used, collided, ended, uncovered   \* history, see below

inFlight == <<issuing, refreshing, extending, revoking, purging>>
store    == <<data, index, indexExp>>
history  == <<used, collided, ended, uncovered>>
vars == <<now, data, index, indexExp, issuing, refreshing, extending, revoking,
          purging, used, collided, ended, uncovered>>

(* used: tokens generated so far; collided: generated twice; ended: their  *)
(* session was deleted or expired; uncovered: a cut pipeline, or a purge   *)
(* racing a login, left the session out of the index.                      *)

Init ==
  /\ now = 1
  /\ data = [t \in Tokens |-> NoSession]
  /\ index = [u \in Users |-> {}] /\ indexExp = [u \in Users |-> 0]
  /\ issuing = {} /\ refreshing = {} /\ extending = {}
  /\ revoking = {} /\ purging = {}
  /\ used = {} /\ collided = {} /\ ended = {} /\ uncovered = {}

Live(t) == data[t] # NoSession
LiveTokens == {t \in Tokens : Live(t)}

(* Mutant: the record is stored without its user. *)
SessionWithoutUser(u, exp, created) == [uid |-> 0, exp |-> exp, created |-> created]

Session(u, exp, created) == [uid |-> u, exp |-> exp, created |-> created]

Room == Cardinality(issuing) + Cardinality(refreshing) + Cardinality(extending)
          + Cardinality(revoking) + Cardinality(purging) < MaxInFlight

Smaller(a, b) == IF a <= b THEN a ELSE b

-----------------------------------------------------------------------------
(* Time passes and Redis drops the keys whose time has come. *)
Tick ==
  /\ now < MaxTime
  /\ now' = now + 1
  /\ LET over == {t \in LiveTokens : data[t].exp <= now + 1}
         gone == {u \in Users : indexExp[u] # 0 /\ indexExp[u] <= now + 1}
     IN /\ data' = [t \in Tokens |-> IF t \in over THEN NoSession ELSE data[t]]
        /\ index' = [u \in Users |-> IF u \in gone THEN {} ELSE index[u]]
        /\ indexExp' = [u \in Users |-> IF u \in gone THEN 0 ELSE indexExp[u]]
        /\ ended' = ended \cup over
  /\ UNCHANGED <<inFlight, used, collided, uncovered>>

-----------------------------------------------------------------------------
(* SADD and EXPIRE on the index of user u, the last two commands of Create *)
(* and Update: n of them are applied.                                      *)

(* Mutant: the index lives no longer than the session written last. *)
IndexTTLBare(exp) == exp

IndexTTL(exp) == exp + IndexMargin

IndexWrite(u, t, exp, n) ==
  /\ index' = IF n = 0 THEN index ELSE [index EXCEPT ![u] = @ \cup {t}]
  /\ indexExp' = IF n < 2 THEN indexExp ELSE [indexExp EXCEPT ![u] = IndexTTL(exp)]

(* Login: a token is generated and the record computed... *)
Issue(u, t) ==
  /\ Room /\ now <= LastLogin
  /\ issuing' = issuing \cup
       {[token |-> t, rec |-> Session(u, now + SessionDuration, now)]}
  /\ used' = used \cup {t}
  /\ collided' = IF t \in used THEN collided \cup {t} ELSE collided
  /\ UNCHANGED <<now, store, refreshing, extending, revoking, purging, ended,
                 uncovered>>

(* Mutant: a plain SET. *)
SetOver(t, rec) == [data EXCEPT ![t] = rec]

(* SET NX stores nothing over a live session. *)
SetNX(t, rec) == IF Live(t) THEN data ELSE [data EXCEPT ![t] = rec]

(* ... and stored by a pipeline of three commands, of which n + 1 are      *)
(* applied.  The index is written even when NX refuses the session.  A     *)
(* record that has expired meanwhile is refused before the pipeline.       *)
Create(i, n) ==
  /\ i \in issuing /\ i.rec.exp > now
  /\ issuing' = issuing \ {i}
  /\ data' = SetNX(i.token, i.rec)
  /\ IndexWrite(i.rec.uid, i.token, i.rec.exp, n)
  /\ uncovered' = IF Live(i.token) THEN uncovered
                  ELSE IF n < 2 THEN uncovered \cup {i.token}
                  ELSE uncovered \ {i.token}
  /\ UNCHANGED <<now, refreshing, extending, revoking, purging, used, collided,
                 ended>>

(* The record expired, or nothing of the pipeline was applied. *)
CreateFail(i) ==
  /\ i \in issuing
  /\ issuing' = issuing \ {i}
  /\ UNCHANGED <<now, store, refreshing, extending, revoking, purging, history>>

-----------------------------------------------------------------------------
(* An authenticated request: the session is there and has not outlived     *)
(* MaxSessionLife.                                                         *)
Authentic(t) ==
  /\ Live(t) /\ now <= data[t].exp
  /\ now <= data[t].created + MaxSessionLife

ShouldRefresh(s) == RefreshPart * (s.exp - now) < s.exp - s.created

(* The middleware validates and, near the end, starts a refresh. *)
Validate(t) ==
  /\ Authentic(t) /\ ShouldRefresh(data[t])
  /\ Room
  /\ refreshing' = refreshing \cup {[token |-> t, start |-> now]}
  /\ UNCHANGED <<now, store, issuing, extending, revoking, purging, history>>

(* Mutant: a refresh always grants the full duration. *)
Uncapped(created) == now + SessionDuration

Capped(created) == Smaller(now + SessionDuration, created + MaxSessionLife)

Extended(s) == Session(s.uid, Capped(s.created), s.created)

(* Mutant: a refresh has no deadline. *)
AnyTime(start) == start \in Nat

InTime(start) == now <= start + RefreshTimeout

(* executeRefresh reads the session and computes its new expiry; without a *)
(* session, or out of time, it ends in an error.                           *)
RefreshGet(r) ==
  /\ r \in refreshing
  /\ refreshing' = refreshing \ {r}
  /\ IF Live(r.token) /\ InTime(r.start)
     THEN extending' = extending \cup
            {[token |-> r.token, start |-> r.start,
              rec |-> Extended(data[r.token])]}
     ELSE UNCHANGED extending
  /\ UNCHANGED <<now, store, issuing, revoking, purging, history>>

(* Mutant: a plain SET. *)
SetAnyway(t, rec) == [data EXCEPT ![t] = rec]

(* SET XX extends only a session that is still there. *)
SetXX(t, rec) == IF Live(t) THEN [data EXCEPT ![t] = rec] ELSE data

RefreshPut(e, n) ==
  /\ e \in extending /\ InTime(e.start) /\ e.rec.exp > now
  /\ extending' = extending \ {e}
  /\ data' = SetXX(e.token, e.rec)
  /\ IndexWrite(e.rec.uid, e.token, e.rec.exp, n)
  /\ uncovered' = IF ~Live(e.token) THEN uncovered
                  ELSE IF n < 2 THEN uncovered \cup {e.token}
                  ELSE uncovered \ {e.token}
  /\ UNCHANGED <<now, issuing, refreshing, revoking, purging, used, collided,
                 ended>>

(* Refused, out of time, or nothing applied. *)
RefreshFail(e) ==
  /\ e \in extending
  /\ extending' = extending \ {e}
  /\ UNCHANGED <<now, store, issuing, refreshing, revoking, purging, history>>

-----------------------------------------------------------------------------
(* Logout: authenticate, then UNLINK the session and SREM it. *)
Revoke(t) ==
  /\ Authentic(t) /\ Room
  /\ revoking' = revoking \cup {[token |-> t, uid |-> data[t].uid]}
  /\ UNCHANGED <<now, store, issuing, refreshing, extending, purging, history>>

Delete(r, n) ==
  /\ r \in revoking
  /\ revoking' = revoking \ {r}
  /\ data' = [data EXCEPT ![r.token] = NoSession]
  /\ ended' = IF Live(r.token) THEN ended \cup {r.token} ELSE ended
  /\ LET rest == index[r.uid] \ {r.token}
     IN IF n = 0 THEN UNCHANGED <<index, indexExp>>
        ELSE /\ index' = [index EXCEPT ![r.uid] = rest]
             /\ indexExp' = [indexExp EXCEPT ![r.uid] = IF rest = {} THEN 0 ELSE @]
  /\ UNCHANGED <<now, issuing, refreshing, extending, purging, used, collided,
                 uncovered>>

DeleteFail(r) ==
  /\ r \in revoking
  /\ revoking' = revoking \ {r}
  /\ UNCHANGED <<now, store, issuing, refreshing, extending, purging, history>>

(* DeleteByUserID: SMEMBERS, and in a later pipeline a DEL per member and  *)
(* one of the index.  A login in between is missed.                        *)
PurgeRead(u) ==
  /\ index[u] # {} /\ Room
  /\ purging' = purging \cup {[uid |-> u, seen |-> index[u]]}
  /\ UNCHANGED <<now, store, issuing, refreshing, extending, revoking, history>>

OwnedBy(u) == {t \in LiveTokens : data[t].uid = u}

PurgeDelete(p, some, all) ==
  /\ p \in purging /\ some \subseteq p.seen /\ (all => some = p.seen)
  /\ purging' = purging \ {p}
  /\ data' = [t \in Tokens |-> IF t \in some THEN NoSession ELSE data[t]]
  /\ ended' = ended \cup (some \cap LiveTokens)
  /\ index' = IF all THEN [index EXCEPT ![p.uid] = {}] ELSE index
  /\ indexExp' = IF all THEN [indexExp EXCEPT ![p.uid] = 0] ELSE indexExp
  /\ uncovered' = IF all THEN uncovered \cup (OwnedBy(p.uid) \ some) ELSE uncovered
  /\ UNCHANGED <<now, issuing, refreshing, extending, revoking, used, collided>>

(* The process dies; what Redis holds stays. *)
Crash ==
  /\ issuing' = {} /\ refreshing' = {} /\ extending' = {}
  /\ revoking' = {} /\ purging' = {}
  /\ UNCHANGED <<now, store, history>>

-----------------------------------------------------------------------------
Next ==
  \/ Tick \/ Crash
  \/ \E u \in Users : PurgeRead(u) \/ \E t \in Tokens : Issue(u, t)
  \/ \E t \in Tokens : Validate(t) \/ Revoke(t)
  \/ \E i \in issuing : CreateFail(i) \/ \E n \in 0 .. 2 : Create(i, n)
  \/ \E r \in refreshing : RefreshGet(r)
  \/ \E e \in extending : RefreshFail(e) \/ \E n \in 0 .. 2 : RefreshPut(e, n)
  \/ \E r \in revoking : DeleteFail(r) \/ \E n \in 0 .. 1 : Delete(r, n)
  \/ \E p \in purging, some \in SUBSET Tokens, all \in BOOLEAN :
        PurgeDelete(p, some, all)

Spec == Init /\ [][Next]_vars

-----------------------------------------------------------------------------
(* Types of the state. *)
TypeOK ==
  /\ now \in Nat
  /\ data \in [Tokens -> SessionRec \cup {NoSession}]
  /\ index \in [Users -> SUBSET Tokens] /\ indexExp \in [Users -> Nat]
  /\ issuing \subseteq [token : Tokens, rec : SessionRec]
  /\ refreshing \subseteq [token : Tokens, start : Nat]
  /\ extending \subseteq [token : Tokens, start : Nat, rec : SessionRec]
  /\ revoking \subseteq [token : Tokens, uid : Users]
  /\ purging \subseteq [uid : Users, seen : SUBSET Tokens]
  /\ used \subseteq Tokens /\ collided \subseteq Tokens
  /\ ended \subseteq Tokens /\ uncovered \subseteq Tokens

(* No chain of refreshes, however late or out of order they are written,   *)
(* gives a session more than MaxSessionLife in all, or more than           *)
(* SessionDuration from now.                                               *)
Bounded(s) ==
  /\ s.created <= now
  /\ s.exp <= s.created + MaxSessionLife /\ s.exp <= now + SessionDuration

LifetimeCap == \A t \in LiveTokens : Bounded(data[t])

(* Every live session is in its owner's index, and the index does not      *)
(* expire before it: otherwise DeleteByUserID would leave a login behind.  *)
(* A later write may shorten the index's time to live; that it stays long  *)
(* enough for the other sessions rests on the 24 h added to it.            *)
IndexCovers ==
  \A t \in LiveTokens \ uncovered :
    LET u == data[t].uid
    IN t \in index[u] /\ (indexExp[u] = 0 \/ indexExp[u] >= data[t].exp)

(* A session that was logged out, purged or has expired never answers      *)
(* again, although a refresh that read it before may still write: XX.      *)
NoResurrection == \A t \in ended \ collided : ~Live(t)

(* A live session stays the one that began: it keeps its user and its      *)
(* start, whatever logins draw its token (NX) and however late refreshes   *)
(* write what they read.                                                   *)
SameSession ==
  \A t \in Tokens \ ended :
    Live(t) /\ Live(t)' =>
      data'[t].uid = data[t].uid /\ data'[t].created = data[t].created

(* Refreshes written out of order may bring a session's end forward, but   *)
(* by no more than the time a refresh may take.                            *)
EndKept ==
  \A t \in Tokens \ ended :
    Live(t) /\ Live(t)' => data'[t].exp + RefreshTimeout >= data[t].exp

(* So a session that lives is kept as it is, but for refreshes, and those  *)
(* cost it next to nothing.                                                *)
SessionKept == [][SameSession /\ EndKept]_vars
=============================================================================
