------------------------------ MODULE MCFanout ------------------------------
(* The fan-out pipeline on small instances. *)
EXTENDS Fanout, TLC

CONSTANTS u1, u2, r1

MCUsers == {u1, u2}
MCOneUser == {u1}
MCRemovers == {r1}
MCTweets == {1, 2}
MCOneTweet == {1}
MCNoRemovers == {}

MCSymmetry == Permutations(Users)
=============================================================================
