------------------------------ MODULE Delivery ------------------------------
(***************************************************************************)
(* What the asynchronous fan-out promises about its messages, whatever the *)
(* pool, the stream, the worker and the restarts do underneath.            *)
(*                                                                         *)
(* A message is accepted by the producer's pool, queued on the stream,     *)
(* taken by the worker, and done.  It is delivered at most once: nothing   *)
(* moves it backwards.  It may be lost before the worker takes it (with    *)
(* the process that holds it, by a failed write, or by the trimming that   *)
(* goes with another message's write), and it may stay taken for ever (the *)
(* worker never re-reads what it failed on), but nothing taken is given    *)
(* up: a taken message is done or is still recorded as pending.            *)
(***************************************************************************)
CONSTANT Messages

VARIABLE status

Statuses == {"unsent", "accepted", "queued", "taken", "done", "lost"}

(* The moves one message may make in one step. *)
Moves == { <<"unsent", "accepted">>, <<"accepted", "queued">>,
           <<"accepted", "lost">>,   <<"queued", "lost">>,
           <<"queued", "taken">>,    <<"taken", "done">> }

Moved(m, from, to) == status[m] = from /\ status'[m] = to

Init == status = [m \in Messages |-> "unsent"]

Next ==
  /\ status' \in [Messages -> Statuses]
  /\ \A m \in Messages :
       status'[m] # status[m] => <<status[m], status'[m]>> \in Moves
  (* Only the write of another message trims the queue. *)
  /\ (\E m \in Messages : Moved(m, "queued", "lost"))
       => (\E m \in Messages : status[m] = "accepted" /\ status'[m] # "accepted")
  (* One message is taken at a time, and one finished. *)
  /\ \A m, n \in Messages :
       /\ Moved(m, "queued", "taken") /\ Moved(n, "queued", "taken") => m = n
       /\ Moved(m, "taken", "done") /\ Moved(n, "taken", "done") => m = n

Spec == Init /\ [][Next]_status
=============================================================================
