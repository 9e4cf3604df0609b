----------------------------- MODULE MCSession -----------------------------
(* Sessions on a small instance; the durations keep the order the code's   *)
(* have: timeout < duration = margin < life.                               *)
EXTENDS Session, TLC

CONSTANTS alice, t1, t2

MCUsers == {alice}
MCTokens == {t1, t2}
MCSymmetry == Permutations(Tokens)
=============================================================================
