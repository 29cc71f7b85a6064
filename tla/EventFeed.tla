----------------------------- MODULE EventFeed -----------------------------
(***************************************************************************)
(* What Home Assistant is promised of the agent's task events, with no     *)
(* connection, channel or cursor in sight: an agent life publishes 1, 2,   *)
(* 3, ... and retains a suffix of them, and listeners get increasing ids.  *)
(* Once a listener has got something in this life, the ids between two     *)
(* consecutive deliveries are ids the agent no longer retained at the      *)
(* second one. When Home Assistant sets its entry up again the listeners   *)
(* are new and may get ids the former ones got already.                    *)
(***************************************************************************)
EXTENDS Naturals, Sequences

VARIABLES
  published,   \* the newest id of this agent life
  oldest,      \* the oldest id still retained, published + 1 if there is none
  delivered    \* the ids handed to these listeners in this agent life

vars == <<published, oldest, delivered>>

Init ==
  /\ published = 0
  /\ oldest = 1
  /\ delivered = <<>>

Publish ==
  /\ published' = published + 1
  /\ oldest' \in oldest..published'
  /\ UNCHANGED delivered

Deliver(id) ==
  /\ delivered # <<>> =>
       LET last == delivered[Len(delivered)]
       IN /\ id > last
          /\ \A skipped \in (last + 1)..(id - 1) : skipped < oldest
  /\ delivered' = Append(delivered, id)
  /\ UNCHANGED <<published, oldest>>

NewListeners ==
  /\ delivered' = <<>>
  /\ UNCHANGED <<published, oldest>>

RestartAgent ==
  /\ published' = 0
  /\ oldest' = 1
  /\ delivered' = <<>>

Next == Publish \/ (\E id \in 1..published : Deliver(id)) \/ NewListeners
        \/ RestartAgent

Spec == Init /\ [][Next]_vars
=============================================================================
