--------------------------- MODULE MCHomeTimeline ---------------------------
(* HomeTimeline on a small instance: bob has tweeted before, bob and carol *)
(* may follow ann, who tweets, and a recall reaches one of the two.        *)
EXTENDS HomeTimeline

CONSTANTS ann, bob, carol, c1, c2

MCUsers == {ann, bob, carol}
MCClients == {c1, c2}
MCTweets == 1 .. 3
MCOld == {1, 2}
MCAuthor == [t \in MCTweets |-> IF t \in MCOld THEN bob ELSE ann]
MCPairs == {<<bob, ann>>, <<carol, ann>>}
MCWanted == {<<c1, bob, 1, 1>>, <<c1, carol, 0, 1>>, <<c2, bob, 0, 2>>}
MCAuthorQuery == {"answers", "fails"}
=============================================================================
