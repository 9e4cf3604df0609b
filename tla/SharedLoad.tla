----------------------------- MODULE SharedLoad -----------------------------
(***************************************************************************)
(* What the sharing of loads promises to those who call it, whatever       *)
(* semaphore, contexts and deadlines do underneath.                        *)
(*                                                                         *)
(* There is one load of a key at a time.  Who asks for a key waits for the *)
(* load of it that is under way, or begins one.  A load ends once, for all *)
(* who wait for it at that moment and with one answer, which nobody else   *)
(* is told; it goes on though its starter, or everybody, has left.  Its    *)
(* answer is "cancelled" only when its starter has left, and a load that   *)
(* is a call itself has the answer of that call, or fails without one.     *)
(***************************************************************************)
CONSTANTS Callers, Keys, NoKey

(* A caller that is also a key is the call that the load of the key makes. *)

VARIABLES
  under,   \* the keys whose load is under way
  waits,   \* by caller, the key it waits for
  leads,   \* by caller, the key it waits for and whose load it began
  heard    \* by caller, the answer it was told and has not returned with

vars == <<under, waits, leads, heard>>

Init ==
  /\ under = {}
  /\ waits = [c \in Callers |-> NoKey] /\ leads = [c \in Callers |-> NoKey]
  /\ heard = [c \in Callers |-> "none"]

Wait(c, k) ==
  /\ waits[c] = NoKey /\ heard[c] = "none"
  /\ waits' = [waits EXCEPT ![c] = k]
  /\ leads' = IF k \in under THEN leads ELSE [leads EXCEPT ![c] = k]
  /\ under' = under \cup {k}
  /\ UNCHANGED heard

(* A caller returns, with or without an answer.  The call of a load goes   *)
(* only with the load.                                                     *)
Depart(c) ==
  /\ c \notin Keys
  /\ waits' = [waits EXCEPT ![c] = NoKey]
  /\ leads' = [leads EXCEPT ![c] = NoKey]
  /\ heard' = [heard EXCEPT ![c] = "none"]
  /\ UNCHANGED under

Led(k) == \E c \in Callers : leads[c] = k

Outcomes(k) ==
  IF k \in Callers THEN {IF heard[k] = "none" THEN "failed" ELSE heard[k]}
  ELSE {"ok", "failed"} \cup (IF Led(k) THEN {} ELSE {"cancelled"})

Finish(k, outcome) ==
  LET over == [c \in Callers |-> c = k \/ waits[c] = k]
  IN /\ k \in under /\ outcome \in Outcomes(k)
     /\ under' = under \ {k}
     /\ waits' = [c \in Callers |-> IF over[c] THEN NoKey ELSE waits[c]]
     /\ leads' = [c \in Callers |-> IF over[c] THEN NoKey ELSE leads[c]]
     /\ heard' = [c \in Callers |-> IF c = k THEN "none"
                                    ELSE IF over[c] THEN outcome ELSE heard[c]]

Next ==
  \/ \E c \in Callers : Depart(c) \/ \E k \in Keys : Wait(c, k)
  \/ \E k \in Keys : \E outcome \in Outcomes(k) : Finish(k, outcome)

Spec == Init /\ [][Next]_vars
=============================================================================
