----------------------------- MODULE MCHaEntry -----------------------------
(* Two agents, two addresses, two tokens.  The names are interchangeable,  *)
(* so the first agent is taken to be at the first address and to accept    *)
(* the first token.                                                        *)
EXTENDS HaEntry
CONSTANTS i1, i2, u1, u2, t1, t2
MCInstallations == {i1, i2}
MCUrls == {u1, u2}
MCTokens == {t1, t2}
MCInit == Init /\ site[u1] = i1 /\ accepts[i1] = t1
MCSpec == MCInit /\ [][Next]_vars /\ Fairness
=============================================================================
