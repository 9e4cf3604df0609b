------------------------------ MODULE MCFollow ------------------------------
(* The follow relation on small instances. *)
EXTENDS Follow

CONSTANTS ann, ben, c1, c2

MCUsers == {ann, ben}
MCOneClient == {c1}
MCClients == {c1, c2}

(* Crossing calls that lock the same two users, who ask about each other. *)
MCCrossing == {<<"follow", <<ann, ben>> >>, <<"unfollow", <<ann, ben>> >>,
               <<"unfollow", <<ben, ann>> >>,
               <<"relation", <<ann, ben>> >>, <<"relation", <<ben, ann>> >>}

(* Two relations that come and go while one user's two lists are read and  *)
(* both users ask about each other.                                        *)
MCReading == {<<"follow", <<ann, ben>> >>, <<"unfollow", <<ann, ben>> >>,
              <<"follow", <<ben, ann>> >>, <<"unfollow", <<ben, ann>> >>,
              <<"followings", <<ann, ben>> >>, <<"followers", <<ben, ann>> >>,
              <<"relation", <<ann, ben>> >>, <<"relation", <<ben, ann>> >>}

MCSql == {"sql"}
MCBoth == {"sql", "nil"}
=============================================================================
