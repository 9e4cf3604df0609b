--------------------------- MODULE MCSingleFlight ---------------------------
(* Shared loads on a small instance. *)
EXTENDS SingleFlight

CONSTANTS c1, c2, c3, mine, rebuild, rel

MCClients == {c1, c2, c3}
MCPlain == {mine, rel}
MCNested == {rebuild}
MCInner == [k \in MCNested |-> mine]
MCDetached == {rel}
=============================================================================
