--------------------------- MODULE MCEventStream ---------------------------
(* The event hub with small limits: a history of two events, room for one  *)
(* live message beside a full replay, so that evictions, full channels and *)
(* a Subscribe overtaken by a rebuild all happen.                          *)
EXTENDS EventStream, TLC

CONSTANTS c1, c2, idle, running

MCConns == {c1}
MCTwoConns == {c1, c2}
MCContents == {idle, running}
=============================================================================
