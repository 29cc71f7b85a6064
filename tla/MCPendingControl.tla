------------------------- MODULE MCPendingControl -------------------------
(* Two connections one after the other whose requests bear the same id,    *)
(* two actions at once, and three methods: a request that may be answered  *)
(* as an input, one that may not be answered here, one that is ignored.    *)
EXTENDS PendingControl, TLC

CONSTANTS k1, k2, w1, w2, t1, t2, a1

MCClients == {k1, k2}
MCWorkers == {w1, w2}
MCTurns == {t1, t2}
MCAppIds == {a1}
MCAsked == {"userInput", "permissions", "unknown"}

MCSymmetry == Permutations(MCClients) \cup Permutations(MCWorkers)
                \cup Permutations(MCTurns)
=============================================================================
