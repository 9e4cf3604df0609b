------------------------------ MODULE MCTweets ------------------------------
(* The tweets and their cache on small instances. *)
EXTENDS Tweets, TLC

CONSTANTS ann, ben, a, b, c1, c2

MCTweet == {1}
MCUsers == {ann, ben}
MCContents == {a, b}
MCClients == {c1, c2}
MCSymmetry ==
  Permutations(Users) \cup Permutations(Contents) \cup Permutations(Clients)
=============================================================================
