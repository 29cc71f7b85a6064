-------------------------- MODULE MCEventDelivery --------------------------
(* One coordinator, two requests of the agent (a new connection while the  *)
(* old handler still lingers), a history of one or two events.             *)
EXTENDS EventDelivery, TLC

CONSTANTS c1, c2, idle, running

MCConns == {c1, c2}
MCOneConn == {c1}
MCContents == {idle, running}

(* The first connection is chosen by Init; the contents are alike. *)
MCSymmetry == Permutations(MCContents)
=============================================================================
