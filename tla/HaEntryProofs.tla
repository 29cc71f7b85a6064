--------------------------- MODULE HaEntryProofs ---------------------------
(* The safety of a config entry for any number of agents, addresses and    *)
(* tokens, and any number of faults and flows.                             *)
EXTENDS HaEntry, SequenceTheorems, TLAPS

(* What the entry, the flow in progress and the life of the entry are      *)
(* together.                                                               *)
EntryLife ==
  /\ entry \in Entries \cup {None} /\ flow \in Flows \cup {None}
  /\ lifecycle = "absent" <=> entry = None
  /\ reauth # "none" => entry # None
  /\ flow # None => (flow.kind = "user" <=> entry = None)
  /\ poll # None => entry # None

(* The flow in progress has met its agent.                                 *)
FlowWasProbed ==
  flow # None => [inst |-> flow.inst, url |-> flow.url, token |-> flow.token] \in probed

(* What the steps of the world and of the stream are taken from.           *)
Shapes ==
  /\ site \in [Urls -> Installations \cup {None}]
  /\ stream = [pc |-> stream.pc, inst |-> stream.inst, rejected |-> stream.rejected]

IInv == /\ Shapes /\ EntryLife /\ FlowWasProbed
        /\ StreamFollowsEntry /\ CoordFollowsEntry /\ StoredWasProbed

LEMMA Distinct ==
  /\ None \notin Entries /\ None \notin Flows /\ None \notin Installations
BY HaAssumption

LEMMA NextShapes == Shapes /\ [Next]_vars => Shapes'
<1> SUFFICES ASSUME Shapes, [Next]_vars PROVE Shapes'
  OBVIOUS
<1> USE DEF Shapes, world, history, around, life, push, polling, run
<1>1. ASSUME NEW i \in Installations, AgentChanges(i) PROVE Shapes'
  BY <1>1 DEF AgentChanges, Broadcast, Running
<1>2. CASE Fault
  BY <1>2 DEF Fault, Event, AgentMoves, AgentRestarts, Disconnects, NothingSent, Failing, Running
<1>3. CASE BeginSetup
  BY <1>3 DEF BeginSetup, Stored, Running
<1>4. CASE TimerPoll
  BY <1>4 DEF TimerPoll, StartPoll, Running
<1>5. CASE Answered("status") \/ Answered("threads")
  BY <1>5 DEF Answered, Running
<1>6. CASE PollDown \/ PollRejected \/ PollInvalid
  BY <1>6 DEF PollDown, PollRejected, PollInvalid, PollFails, PollAnswered, Waiting, AsksForToken, Repair, Running
<1>7. CASE PollSucceeds
  BY <1>7 DEF PollSucceeds, PollAnswered, StartStream, NoStream, Running
<1>8. CASE StreamConnects \/ SendCopy \/ StreamLost
  <2>1. UNCHANGED <<site, lifecycle>>
    BY <1>8 DEF StreamConnects, SendCopy, StreamLost
  <2>2. \/ stream' = stream
        \/ stream' = [stream EXCEPT !.pc = "open", !.inst = site[coord.url]]
        \/ \E rejected : stream' = [pc |-> "refresh", inst |-> None, rejected |-> rejected]
    BY <1>8 DEF StreamConnects, SendCopy, StreamLost, Disconnects, Failing
  <2>3. stream.pc # "none"
    BY <1>8 DEF StreamConnects, SendCopy, StreamLost
  <2> QED
    BY <2>1, <2>2, <2>3 DEF Running
<1>9. CASE StreamApplies
  BY <1>9 DEF StreamApplies, Disconnects, NothingSent, Failing, Running
<1>10. CASE StreamRefreshes \/ StreamRefreshed
  BY <1>10 DEF StreamRefreshes, StreamRefreshed, StartPoll, AfterRefresh, Running
<1>11. CASE UnloadPlatforms \/ ReloadFailedSetup
  BY <1>11 DEF UnloadPlatforms, ReloadFailedSetup, Event, Running
<1>12. CASE Shutdown
  BY <1>12 DEF Shutdown, CancelStream, NothingSent, NoStream, Running
<1>13. ASSUME NEW kind \in FlowKinds, NEW url \in Urls, NEW token \in Tokens, Probe(kind, url, token)
      PROVE  Shapes'
  BY <1>13 DEF Probe, Event, Listening, Running
<1>14. CASE FlowCreates
  BY <1>14 DEF FlowCreates, Running
<1>15. CASE FlowUpdates
  BY <1>15 DEF FlowUpdates, Matches, Reloads, Running
<1>16. ASSUME NEW url \in Urls, Zeroconf(url) PROVE Shapes'
  BY <1>16 DEF Zeroconf, Event, Running
<1>17. CASE UNCHANGED vars
  BY <1>17 DEF vars, Running
<1> QED
  BY <1>1, <1>2, <1>3, <1>4, <1>5, <1>6, <1>7, <1>8, <1>9, <1>10, <1>11, <1>12, <1>13, <1>14, <1>15, <1>16, <1>17 DEF Next

LEMMA NextEntryLife == Shapes /\ EntryLife /\ [Next]_vars => EntryLife'
<1> SUFFICES ASSUME Shapes, EntryLife, [Next]_vars PROVE EntryLife'
  OBVIOUS
<1> USE Distinct DEF Shapes, EntryLife, world, history, around, life, push, polling, run
<1>1. ASSUME NEW i \in Installations, AgentChanges(i) PROVE EntryLife'
  BY <1>1 DEF AgentChanges, Broadcast, Running, Entries, Flows, FlowKinds
<1>2. CASE Fault
  BY <1>2 DEF Fault, Event, AgentMoves, AgentRestarts, Disconnects, NothingSent, Failing, Running, Entries, Flows, FlowKinds
<1>3. CASE BeginSetup
  BY <1>3 DEF BeginSetup, Stored, Running, Entries, Flows, FlowKinds
<1>4. CASE TimerPoll
  BY <1>4 DEF TimerPoll, StartPoll, Running, Entries, Flows, FlowKinds
<1>5. CASE Answered("status") \/ Answered("threads")
  BY <1>5 DEF Answered, Running, Entries, Flows, FlowKinds
<1>6. CASE PollDown \/ PollRejected \/ PollInvalid
  BY <1>6 DEF PollDown, PollRejected, PollInvalid, PollFails, PollAnswered, Waiting, AsksForToken, Repair, Running, Entries, Flows, FlowKinds
<1>7. CASE PollSucceeds
  BY <1>7 DEF PollSucceeds, PollAnswered, StartStream, NoStream, Running, Entries, Flows, FlowKinds
<1>8. CASE StreamConnects \/ SendCopy \/ StreamLost
  BY <1>8 DEF StreamConnects, SendCopy, StreamLost, Disconnects, NothingSent, Failing, Running, Entries, Flows, FlowKinds
<1>9. CASE StreamApplies
  BY <1>9 DEF StreamApplies, Disconnects, NothingSent, Failing, Running, Entries, Flows, FlowKinds
<1>10. CASE StreamRefreshes \/ StreamRefreshed
  BY <1>10 DEF StreamRefreshes, StreamRefreshed, StartPoll, AfterRefresh, Running, Entries, Flows, FlowKinds
<1>11. CASE UnloadPlatforms \/ ReloadFailedSetup
  BY <1>11 DEF UnloadPlatforms, ReloadFailedSetup, Event, Running, Entries, Flows, FlowKinds
<1>12. CASE Shutdown
  BY <1>12 DEF Shutdown, CancelStream, NothingSent, NoStream, Running, Entries, Flows, FlowKinds
<1>13. ASSUME NEW kind \in FlowKinds, NEW url \in Urls, NEW token \in Tokens, Probe(kind, url, token)
      PROVE  EntryLife'
  BY <1>13 DEF Probe, Event, Listening, Running, Entries, Flows, FlowKinds
<1>14. CASE FlowCreates
  BY <1>14 DEF FlowCreates, Running, Entries, Flows, FlowKinds
<1>15. CASE FlowUpdates
  BY <1>15 DEF FlowUpdates, Matches, Reloads, Running, Entries, Flows, FlowKinds
<1>16. ASSUME NEW url \in Urls, Zeroconf(url) PROVE EntryLife'
  BY <1>16 DEF Zeroconf, Event, Running, Entries, Flows, FlowKinds
<1>17. CASE UNCHANGED vars
  BY <1>17 DEF vars, Running, Entries, Flows, FlowKinds
<1> QED
  BY <1>1, <1>2, <1>3, <1>4, <1>5, <1>6, <1>7, <1>8, <1>9, <1>10, <1>11, <1>12, <1>13, <1>14, <1>15, <1>16, <1>17 DEF Next

LEMMA NextFlowWasProbed == Shapes /\ EntryLife /\ FlowWasProbed /\ [Next]_vars => FlowWasProbed'
<1> SUFFICES ASSUME Shapes, EntryLife, FlowWasProbed, [Next]_vars PROVE FlowWasProbed'
  OBVIOUS
<1> USE Distinct DEF Shapes, EntryLife, FlowWasProbed, world, history, around, life, push, polling, run
<1>1. ASSUME NEW i \in Installations, AgentChanges(i) PROVE FlowWasProbed'
  BY <1>1 DEF AgentChanges, Broadcast, Running
<1>2. CASE Fault
  BY <1>2 DEF Fault, Event, AgentMoves, AgentRestarts, Disconnects, NothingSent, Failing, Running
<1>3. CASE BeginSetup
  BY <1>3 DEF BeginSetup, Stored, Running
<1>4. CASE TimerPoll
  BY <1>4 DEF TimerPoll, StartPoll, Running
<1>5. CASE Answered("status") \/ Answered("threads")
  BY <1>5 DEF Answered, Running
<1>6. CASE PollDown \/ PollRejected \/ PollInvalid
  BY <1>6 DEF PollDown, PollRejected, PollInvalid, PollFails, PollAnswered, Waiting, AsksForToken, Repair, Running
<1>7. CASE PollSucceeds
  BY <1>7 DEF PollSucceeds, PollAnswered, StartStream, NoStream, Running
<1>8. CASE StreamConnects \/ SendCopy \/ StreamLost
  BY <1>8 DEF StreamConnects, SendCopy, StreamLost, Disconnects, NothingSent, Failing, Running
<1>9. CASE StreamApplies
  BY <1>9 DEF StreamApplies, Disconnects, NothingSent, Failing, Running
<1>10. CASE StreamRefreshes \/ StreamRefreshed
  BY <1>10 DEF StreamRefreshes, StreamRefreshed, StartPoll, AfterRefresh, Running
<1>11. CASE UnloadPlatforms \/ ReloadFailedSetup
  BY <1>11 DEF UnloadPlatforms, ReloadFailedSetup, Event, Running
<1>12. CASE Shutdown
  BY <1>12 DEF Shutdown, CancelStream, NothingSent, NoStream, Running
<1>13. ASSUME NEW kind \in FlowKinds, NEW url \in Urls, NEW token \in Tokens, Probe(kind, url, token)
      PROVE  FlowWasProbed'
  BY <1>13 DEF Probe, Event, Listening, Running
<1>14. CASE FlowCreates
  BY <1>14 DEF FlowCreates, Running
<1>15. CASE FlowUpdates
  BY <1>15 DEF FlowUpdates, Matches, Reloads, Running
<1>16. ASSUME NEW url \in Urls, Zeroconf(url) PROVE FlowWasProbed'
  BY <1>16 DEF Zeroconf, Event, Running
<1>17. CASE UNCHANGED vars
  BY <1>17 DEF vars, Running
<1> QED
  BY <1>1, <1>2, <1>3, <1>4, <1>5, <1>6, <1>7, <1>8, <1>9, <1>10, <1>11, <1>12, <1>13, <1>14, <1>15, <1>16, <1>17 DEF Next

LEMMA NextStored ==
  EntryLife /\ FlowWasProbed /\ StoredWasProbed /\ [Next]_vars => StoredWasProbed'
<1> SUFFICES ASSUME EntryLife, FlowWasProbed, StoredWasProbed, [Next]_vars PROVE StoredWasProbed'
  OBVIOUS
<1> USE Distinct DEF EntryLife, FlowWasProbed, StoredWasProbed, world, history, around, life, push, polling, run
<1>1. ASSUME NEW i \in Installations, AgentChanges(i) PROVE StoredWasProbed'
  BY <1>1 DEF AgentChanges, Broadcast, Entries, Flows
<1>2. CASE Fault
  BY <1>2 DEF Fault, Event, AgentMoves, AgentRestarts, Disconnects, NothingSent, Failing, Entries, Flows
<1>3. CASE BeginSetup
  BY <1>3 DEF BeginSetup, Stored, Entries, Flows
<1>4. CASE TimerPoll
  BY <1>4 DEF TimerPoll, StartPoll, Entries, Flows
<1>5. CASE Answered("status") \/ Answered("threads")
  BY <1>5 DEF Answered, Entries, Flows
<1>6. CASE PollDown \/ PollRejected \/ PollInvalid
  BY <1>6 DEF PollDown, PollRejected, PollInvalid, PollFails, PollAnswered, Waiting, AsksForToken, Repair, Entries, Flows
<1>7. CASE PollSucceeds
  BY <1>7 DEF PollSucceeds, PollAnswered, StartStream, NoStream, Entries, Flows
<1>8. CASE StreamConnects \/ SendCopy \/ StreamLost
  BY <1>8 DEF StreamConnects, SendCopy, StreamLost, Disconnects, NothingSent, Failing, Entries, Flows
<1>9. CASE StreamApplies
  BY <1>9 DEF StreamApplies, Disconnects, NothingSent, Failing, Entries, Flows
<1>10. CASE StreamRefreshes \/ StreamRefreshed
  BY <1>10 DEF StreamRefreshes, StreamRefreshed, StartPoll, AfterRefresh, Entries, Flows
<1>11. CASE UnloadPlatforms \/ ReloadFailedSetup
  BY <1>11 DEF UnloadPlatforms, ReloadFailedSetup, Event, Entries, Flows
<1>12. CASE Shutdown
  BY <1>12 DEF Shutdown, CancelStream, NothingSent, NoStream, Entries, Flows
<1>13. ASSUME NEW kind \in FlowKinds, NEW url \in Urls, NEW token \in Tokens, Probe(kind, url, token)
      PROVE  StoredWasProbed'
  BY <1>13 DEF Probe, Event, Listening, Entries, Flows
<1>14. CASE FlowCreates
  BY <1>14 DEF FlowCreates, Entries, Flows
<1>15. CASE FlowUpdates
  BY <1>15 DEF FlowUpdates, Matches, Reloads, Entries, Flows
<1>16. ASSUME NEW url \in Urls, Zeroconf(url) PROVE StoredWasProbed'
  BY <1>16 DEF Zeroconf, Event, Entries, Flows
<1>17. CASE UNCHANGED vars
  BY <1>17 DEF vars, Entries, Flows
<1> QED
  BY <1>1, <1>2, <1>3, <1>4, <1>5, <1>6, <1>7, <1>8, <1>9, <1>10, <1>11, <1>12, <1>13, <1>14, <1>15, <1>16, <1>17 DEF Next

LEMMA NextStream == Shapes /\ EntryLife /\ StreamFollowsEntry /\ [Next]_vars => StreamFollowsEntry'
<1> SUFFICES ASSUME Shapes, EntryLife, StreamFollowsEntry, [Next]_vars PROVE StreamFollowsEntry'
  OBVIOUS
<1> USE Distinct DEF Shapes, EntryLife, StreamFollowsEntry, world, history, around, life, push, polling, run
<1>1. ASSUME NEW i \in Installations, AgentChanges(i) PROVE StreamFollowsEntry'
  BY <1>1 DEF AgentChanges, Broadcast, Running
<1>2. CASE Fault
  BY <1>2 DEF Fault, Event, AgentMoves, AgentRestarts, Disconnects, NothingSent, Failing, Running
<1>3. CASE BeginSetup
  BY <1>3 DEF BeginSetup, Stored, Running
<1>4. CASE TimerPoll
  BY <1>4 DEF TimerPoll, StartPoll, Running
<1>5. CASE Answered("status") \/ Answered("threads")
  BY <1>5 DEF Answered, Running
<1>6. CASE PollDown \/ PollRejected \/ PollInvalid
  BY <1>6 DEF PollDown, PollRejected, PollInvalid, PollFails, PollAnswered, Waiting, AsksForToken, Repair, Running
<1>7. CASE PollSucceeds
  BY <1>7 DEF PollSucceeds, PollAnswered, StartStream, NoStream, Running
<1>8. CASE StreamConnects \/ SendCopy \/ StreamLost
  <2>1. UNCHANGED <<site, lifecycle>>
    BY <1>8 DEF StreamConnects, SendCopy, StreamLost
  <2>2. \/ stream' = stream
        \/ stream' = [stream EXCEPT !.pc = "open", !.inst = site[coord.url]]
        \/ \E rejected : stream' = [pc |-> "refresh", inst |-> None, rejected |-> rejected]
    BY <1>8 DEF StreamConnects, SendCopy, StreamLost, Disconnects, Failing
  <2>3. stream.pc # "none"
    BY <1>8 DEF StreamConnects, SendCopy, StreamLost
  <2>4. stream'.pc # "none"
    <3>1. CASE stream' = [stream EXCEPT !.pc = "open", !.inst = site[coord.url]]
      BY <3>1
    <3>2. CASE \E rejected : stream' = [pc |-> "refresh", inst |-> None, rejected |-> rejected]
      BY <3>2
    <3> QED
      BY <2>2, <2>3, <3>1, <3>2
  <2> QED
    BY <2>1, <2>3, <2>4 DEF Running
<1>9. CASE StreamApplies
  BY <1>9 DEF StreamApplies, Disconnects, NothingSent, Failing, Running
<1>10. CASE StreamRefreshes \/ StreamRefreshed
  BY <1>10 DEF StreamRefreshes, StreamRefreshed, StartPoll, AfterRefresh, Running
<1>11. CASE UnloadPlatforms \/ ReloadFailedSetup
  BY <1>11 DEF UnloadPlatforms, ReloadFailedSetup, Event, Running
<1>12. CASE Shutdown
  BY <1>12 DEF Shutdown, CancelStream, NothingSent, NoStream, Running
<1>13. ASSUME NEW kind \in FlowKinds, NEW url \in Urls, NEW token \in Tokens, Probe(kind, url, token)
      PROVE  StreamFollowsEntry'
  BY <1>13 DEF Probe, Event, Listening, Running
<1>14. CASE FlowCreates
  BY <1>14 DEF FlowCreates, Running
<1>15. CASE FlowUpdates
  BY <1>15 DEF FlowUpdates, Matches, Reloads, Running
<1>16. ASSUME NEW url \in Urls, Zeroconf(url) PROVE StreamFollowsEntry'
  BY <1>16 DEF Zeroconf, Event, Running
<1>17. CASE UNCHANGED vars
  BY <1>17 DEF vars, Running
<1> QED
  BY <1>1, <1>2, <1>3, <1>4, <1>5, <1>6, <1>7, <1>8, <1>9, <1>10, <1>11, <1>12, <1>13, <1>14, <1>15, <1>16, <1>17 DEF Next

LEMMA NextCoord == EntryLife /\ CoordFollowsEntry /\ [Next]_vars => CoordFollowsEntry'
<1> SUFFICES ASSUME EntryLife, CoordFollowsEntry, [Next]_vars PROVE CoordFollowsEntry'
  OBVIOUS
<1> USE Distinct DEF EntryLife, CoordFollowsEntry, world, history, around, life, push, polling, run
<1>1. ASSUME NEW i \in Installations, AgentChanges(i) PROVE CoordFollowsEntry'
  BY <1>1 DEF AgentChanges, Broadcast, Running, Entries, Flows
<1>2. CASE Fault
  BY <1>2 DEF Fault, Event, AgentMoves, AgentRestarts, Disconnects, NothingSent, Failing, Running, Entries, Flows
<1>3. CASE BeginSetup
  BY <1>3 DEF BeginSetup, Stored, Running, Entries, Flows
<1>4. CASE TimerPoll
  BY <1>4 DEF TimerPoll, StartPoll, Running, Entries, Flows
<1>5. CASE Answered("status") \/ Answered("threads")
  BY <1>5 DEF Answered, Running, Entries, Flows
<1>6. CASE PollDown \/ PollRejected \/ PollInvalid
  BY <1>6 DEF PollDown, PollRejected, PollInvalid, PollFails, PollAnswered, Waiting, AsksForToken, Repair, Running, Entries, Flows
<1>7. CASE PollSucceeds
  BY <1>7 DEF PollSucceeds, PollAnswered, StartStream, NoStream, Running, Entries, Flows
<1>8. CASE StreamConnects \/ SendCopy \/ StreamLost
  BY <1>8 DEF StreamConnects, SendCopy, StreamLost, Disconnects, NothingSent, Failing, Running, Entries, Flows
<1>9. CASE StreamApplies
  BY <1>9 DEF StreamApplies, Disconnects, NothingSent, Failing, Running, Entries, Flows
<1>10. CASE StreamRefreshes \/ StreamRefreshed
  BY <1>10 DEF StreamRefreshes, StreamRefreshed, StartPoll, AfterRefresh, Running, Entries, Flows
<1>11. CASE UnloadPlatforms \/ ReloadFailedSetup
  BY <1>11 DEF UnloadPlatforms, ReloadFailedSetup, Event, Running, Entries, Flows
<1>12. CASE Shutdown
  BY <1>12 DEF Shutdown, CancelStream, NothingSent, NoStream, Running, Entries, Flows
<1>13. ASSUME NEW kind \in FlowKinds, NEW url \in Urls, NEW token \in Tokens, Probe(kind, url, token)
      PROVE  CoordFollowsEntry'
  BY <1>13 DEF Probe, Event, Listening, Running, Entries, Flows
<1>14. CASE FlowCreates
  BY <1>14 DEF FlowCreates, Running, Entries, Flows
<1>15. CASE FlowUpdates
  BY <1>15 DEF FlowUpdates, Matches, Reloads, Running, Entries, Flows
<1>16. ASSUME NEW url \in Urls, Zeroconf(url) PROVE CoordFollowsEntry'
  BY <1>16 DEF Zeroconf, Event, Running, Entries, Flows
<1>17. CASE UNCHANGED vars
  BY <1>17 DEF vars, Running, Entries, Flows
<1> QED
  BY <1>1, <1>2, <1>3, <1>4, <1>5, <1>6, <1>7, <1>8, <1>9, <1>10, <1>11, <1>12, <1>13, <1>14, <1>15, <1>16, <1>17 DEF Next

LEMMA InitIInv == Init => IInv
<1> SUFFICES ASSUME Init PROVE IInv
  OBVIOUS
<1>1. Shapes
  BY DEF Init, Shapes, NoStream
<1>2. FlowWasProbed
  BY DEF Init, FlowWasProbed
<1>3. EntryLife /\ StreamFollowsEntry /\ CoordFollowsEntry /\ StoredWasProbed
  BY DEF Init, EntryLife, StreamFollowsEntry, CoordFollowsEntry, StoredWasProbed, Running, NoStream
<1> QED
  BY <1>1, <1>2, <1>3 DEF IInv

LEMMA SpecIInv == Spec => []IInv
<1>1. IInv /\ [Next]_vars => IInv'
  BY NextShapes, NextEntryLife, NextFlowWasProbed, NextStored, NextStream, NextCoord DEF IInv
<1> QED
  BY <1>1, InitIInv, PTL DEF Spec

(* Setup, reload and unload keep exactly one stream for a running entry    *)
(* and none for another, whatever the agents and the flows do meanwhile.   *)
THEOREM StreamWithEntry == Spec => []StreamFollowsEntry
<1>1. IInv => StreamFollowsEntry
  BY DEF IInv
<1> QED
  BY <1>1, SpecIInv, PTL

(* A url or token that a flow stored is in use or about to be: the         *)
(* coordinator has it or a reload is due.                                  *)
THEOREM CoordUsesStored == Spec => []CoordFollowsEntry
<1>1. IInv => CoordFollowsEntry
  BY DEF IInv
<1> QED
  BY <1>1, SpecIInv, PTL

(* Whatever flows, discovery and moving agents do in between, the token    *)
(* stored was taken by the entry's own installation, and the address was   *)
(* its own unless discovery wrote it.                                      *)
THEOREM StoredProbed == Spec => []StoredWasProbed
<1>1. IInv => StoredWasProbed
  BY DEF IInv
<1> QED
  BY <1>1, SpecIInv, PTL

-----------------------------------------------------------------------------
(* The types.  What the coordinator reads is there when it reads it: its   *)
(* address while it polls or streams, the agent of an open stream, and the *)
(* data only of an entry that runs.                                        *)
WorldTypes ==
  /\ site \in [Urls -> Installations \cup {None}]
  /\ version \in [Installations -> 0..MaxVersion]
  /\ accepts \in [Installations -> Tokens]
  /\ foreign \subseteq Installations
  /\ events \in 0..MaxEvents
  /\ probed \subseteq Probes

EntryTypes ==
  /\ lifecycle \in {"absent", "notLoaded", "setup", "retry", "needsToken",
                    "loaded", "unloading", "stuck"}
  /\ reload \in BOOLEAN /\ missed \in BOOLEAN /\ discovered \in BOOLEAN
  /\ coord \in Apis \cup {None}
  /\ reauth \in {"none", "open", "aborted"} /\ issue \in BOOLEAN
  /\ Running \/ lifecycle = "setup" => coord # None

PollTypes ==
  /\ data \in Pairs \cup {None}
  /\ Running <=> data # None
  /\ poll # None => Running \/ lifecycle = "setup"
  /\ poll \in Polls /\ resting \in BOOLEAN

StreamTypes ==
  /\ stream \in [pc : StreamStates, inst : Installations \cup {None},
                 rejected : BOOLEAN]
  /\ line \in Seq(Sent) /\ copy \in Sent \cup {None}
  /\ overtaken \in BOOLEAN
  /\ stream.pc = "open" => stream.inst \in Installations
  /\ line # <<>> \/ copy # None => stream.pc = "open"

Types == WorldTypes /\ EntryTypes /\ PollTypes /\ StreamTypes

LEMMA NextWorldTypes ==
  ASSUME WorldTypes, [Next]_vars
  PROVE  WorldTypes'
<1> USE HaAssumption DEF WorldTypes, world, history, around, life, push, polling, run
<1>1. ASSUME NEW i \in Installations, AgentChanges(i) PROVE WorldTypes'
  BY <1>1 DEF AgentChanges, Broadcast
<1>2. CASE Fault
  BY <1>2 DEF Fault, Event, AgentMoves, AgentRestarts, Disconnects, NothingSent, Failing
<1>3. CASE BeginSetup
  BY <1>3 DEF BeginSetup, Stored, NewPoll
<1>4. CASE TimerPoll
  BY <1>4 DEF TimerPoll, StartPoll, NewPoll
<1>5. CASE Answered("status")
  BY <1>5 DEF Answered, Now, Listening
<1>6. CASE Answered("threads")
  BY <1>6 DEF Answered, Now, Listening
<1>7. CASE PollDown \/ PollRejected \/ PollInvalid
  BY <1>7 DEF PollDown, PollRejected, PollInvalid, PollFails, PollAnswered, Waiting, AsksForToken, Repair
<1>8. CASE PollSucceeds
  BY <1>8 DEF PollSucceeds, PollAnswered, Waiting, StartStream, NoStream, Repair
<1>9. CASE StreamConnects
  BY <1>9 DEF StreamConnects, Failing, Now
<1>10. CASE SendCopy
  BY <1>10 DEF SendCopy, Now
<1>11. CASE StreamLost
  BY <1>11 DEF StreamLost, Disconnects, NothingSent, Failing
<1>12. CASE StreamApplies
  BY <1>12 DEF StreamApplies, Disconnects, NothingSent, Failing
<1>13. CASE StreamRefreshes \/ StreamRefreshed
  BY <1>13 DEF StreamRefreshes, StreamRefreshed, StartPoll, AfterRefresh, NewPoll
<1>14. CASE UnloadPlatforms \/ ReloadFailedSetup
  BY <1>14 DEF UnloadPlatforms, ReloadFailedSetup, Event
<1>15. CASE Shutdown
  BY <1>15 DEF Shutdown, CancelStream, NothingSent, NoStream
<1>16. ASSUME NEW kind \in FlowKinds, NEW url \in Urls, NEW token \in Tokens, Probe(kind, url, token)
      PROVE  WorldTypes'
  <2>1. site[url] \in Installations
    BY <1>16 DEF Probe, Listening
  <2>2. [inst |-> site[url], url |-> url, token |-> token] \in Probes
    BY <2>1 DEF Probes
  <2> QED
    BY <1>16, <2>2 DEF Probe, Event
<1>17. CASE FlowCreates
  BY <1>17 DEF FlowCreates
<1>18. CASE FlowUpdates
  BY <1>18 DEF FlowUpdates, Matches, Reloads
<1>19. ASSUME NEW url \in Urls, Zeroconf(url) PROVE WorldTypes'
  BY <1>19 DEF Zeroconf, Event
<1>20. CASE UNCHANGED vars
  BY <1>20 DEF vars
<1> QED
  BY <1>1, <1>2, <1>3, <1>4, <1>5, <1>6, <1>7, <1>8, <1>9, <1>10,
     <1>11, <1>12, <1>13, <1>14, <1>15, <1>16, <1>17, <1>18, <1>19, <1>20 DEF Next

LEMMA NextEntryTypes ==
  ASSUME Types, EntryLife, [Next]_vars
  PROVE  EntryTypes'
<1> USE HaAssumption DEF Types, EntryTypes, EntryLife, world, history, around, life, push, polling, run
<1>1. ASSUME NEW i \in Installations, AgentChanges(i) PROVE EntryTypes'
  BY <1>1 DEF AgentChanges, Broadcast, Running, Apis, Entries
<1>2. CASE Fault
  BY <1>2 DEF Fault, Event, AgentMoves, AgentRestarts, Disconnects, NothingSent, Failing, Running, Apis, Entries
<1>3. CASE BeginSetup
  <2>1. entry \in Entries /\ coord' = [url |-> entry.url, token |-> entry.token]
    BY <1>3 DEF BeginSetup, Stored
  <2>2. coord' \in Apis
    BY <2>1 DEF Entries, Apis
  <2> QED
    BY <1>3, <2>2 DEF BeginSetup
<1>4. CASE TimerPoll
  BY <1>4 DEF TimerPoll, StartPoll, NewPoll, Running, Apis, Entries
<1>5. CASE Answered("status")
  BY <1>5 DEF Answered, Now, Listening, Running, Apis, Entries
<1>6. CASE Answered("threads")
  BY <1>6 DEF Answered, Now, Listening, Running, Apis, Entries
<1>7. CASE PollDown \/ PollRejected \/ PollInvalid
  BY <1>7 DEF PollDown, PollRejected, PollInvalid, PollFails, PollAnswered, Waiting, AsksForToken, Repair, Running, Apis, Entries
<1>8. CASE PollSucceeds
  BY <1>8 DEF PollSucceeds, PollAnswered, Waiting, StartStream, NoStream, Repair, Running, Apis, Entries
<1>9. CASE StreamConnects
  BY <1>9 DEF StreamConnects, Failing, Now, Running, Apis, Entries
<1>10. CASE SendCopy
  BY <1>10 DEF SendCopy, Now, Running, Apis, Entries
<1>11. CASE StreamLost
  BY <1>11 DEF StreamLost, Disconnects, NothingSent, Failing, Running, Apis, Entries
<1>12. CASE StreamApplies
  BY <1>12 DEF StreamApplies, Disconnects, NothingSent, Failing, Running, Apis, Entries
<1>13. CASE StreamRefreshes \/ StreamRefreshed
  BY <1>13 DEF StreamRefreshes, StreamRefreshed, StartPoll, AfterRefresh, NewPoll, Running, Apis, Entries
<1>14. CASE UnloadPlatforms \/ ReloadFailedSetup
  BY <1>14 DEF UnloadPlatforms, ReloadFailedSetup, Event, Running, Apis, Entries
<1>15. CASE Shutdown
  BY <1>15 DEF Shutdown, CancelStream, NothingSent, NoStream, Running, Apis, Entries
<1>16. ASSUME NEW kind \in FlowKinds, NEW url \in Urls, NEW token \in Tokens, Probe(kind, url, token)
      PROVE  EntryTypes'
  BY <1>16 DEF Probe, Event, Listening, Running, Apis, Entries
<1>17. CASE FlowCreates
  BY <1>17 DEF FlowCreates, Running, Apis, Entries
<1>18. CASE FlowUpdates
  BY <1>18 DEF FlowUpdates, Matches, Reloads, Running, Apis, Entries
<1>19. ASSUME NEW url \in Urls, Zeroconf(url) PROVE EntryTypes'
  BY <1>19 DEF Zeroconf, Event, Running, Apis, Entries
<1>20. CASE UNCHANGED vars
  BY <1>20 DEF vars, Running, Apis, Entries
<1> QED
  BY <1>1, <1>2, <1>3, <1>4, <1>5, <1>6, <1>7, <1>8, <1>9, <1>10,
     <1>11, <1>12, <1>13, <1>14, <1>15, <1>16, <1>17, <1>18, <1>19, <1>20 DEF Next

LEMMA NextPollTypes ==
  ASSUME Types, EntryLife, StreamFollowsEntry, [Next]_vars
  PROVE  PollTypes'
<1> USE HaAssumption DEF Types, WorldTypes, EntryTypes, PollTypes, StreamTypes, EntryLife, StreamFollowsEntry, world, history, around, life, push, polling, run
<1>1. ASSUME NEW i \in Installations, AgentChanges(i) PROVE PollTypes'
  BY <1>1 DEF AgentChanges, Broadcast, Running, Polls, Parts, Pairs, Snapshots, Apis
<1>2. CASE Fault
  BY <1>2 DEF Fault, Event, AgentMoves, AgentRestarts, Disconnects, NothingSent, Failing, Running, Polls, Parts, Pairs, Snapshots, Apis
<1>3. CASE BeginSetup
  BY <1>3 DEF BeginSetup, Stored, NewPoll, Running, Polls, Parts, Pairs, Snapshots, Apis
<1>4. CASE TimerPoll
  BY <1>4 DEF TimerPoll, StartPoll, NewPoll, Running, Polls, Parts, Pairs, Snapshots, Apis
<1>5. CASE Answered("status")
  BY <1>5 DEF Answered, Now, Listening, Running, Polls, Parts, Pairs, Snapshots, Apis
<1>6. CASE Answered("threads")
  BY <1>6 DEF Answered, Now, Listening, Running, Polls, Parts, Pairs, Snapshots, Apis
<1>7. CASE PollDown \/ PollRejected \/ PollInvalid
  BY <1>7 DEF PollDown, PollRejected, PollInvalid, PollFails, PollAnswered, Waiting, AsksForToken, Repair, Running, Polls, Parts, Pairs, Snapshots, Apis
<1>8. CASE PollSucceeds
  <2>1. /\ poll \in [status : Parts, threads : Parts]
        /\ poll.status # None /\ poll.threads # None
    BY <1>8 DEF PollSucceeds, PollAnswered, Waiting, Polls
  <2>2. poll \in Pairs
    <3>1. /\ poll = [status |-> poll.status, threads |-> poll.threads]
          /\ poll.status \in Snapshots /\ poll.threads \in Snapshots
      BY <2>1 DEF Parts
    <3> QED
      BY <3>1 DEF Pairs
  <2>3. data' = poll /\ poll' = None /\ resting' = FALSE
    BY <1>8 DEF PollSucceeds
  <2>4. Running'
    <3>1. lifecycle = "setup" => lifecycle' = "loaded"
      BY <1>8 DEF PollSucceeds
    <3>2. lifecycle # "setup" => lifecycle' = lifecycle
      BY <1>8 DEF PollSucceeds
    <3>3. poll # None => lifecycle \in {"setup", "loaded", "unloading", "stuck"}
      BY DEF Running
    <3> QED
      BY <1>8, <3>1, <3>2, <3>3 DEF PollSucceeds, PollAnswered, Running
  <2> QED
    BY <2>2, <2>3, <2>4 DEF Polls
<1>9. CASE StreamConnects
  BY <1>9 DEF StreamConnects, Failing, Now, Running, Polls, Parts, Pairs, Snapshots, Apis
<1>10. CASE SendCopy
  BY <1>10 DEF SendCopy, Now, Running, Polls, Parts, Pairs, Snapshots, Apis
<1>11. CASE StreamLost
  BY <1>11 DEF StreamLost, Disconnects, NothingSent, Failing, Running, Polls, Parts, Pairs, Snapshots, Apis
<1>12. CASE StreamApplies
  <2> DEFINE shot == Head(line).shot
  <2>1. shot \in Snapshots /\ data # None /\ UNCHANGED <<lifecycle, poll>>
    <3>1. Head(line) \in Sent
      BY <1>12, HeadTailProperties DEF StreamApplies
    <3> QED
      BY <1>12, <3>1 DEF StreamApplies, Sent, Running
  <2>2. /\ data' \in {data, [status |-> shot, threads |-> shot]}
        /\ resting' \in {resting, FALSE}
    BY <1>12 DEF StreamApplies
  <2>3. [status |-> shot, threads |-> shot] \in Pairs
    BY <2>1 DEF Pairs
  <2> QED
    BY <2>1, <2>2, <2>3 DEF Running
<1>13. CASE StreamRefreshes \/ StreamRefreshed
  BY <1>13 DEF StreamRefreshes, StreamRefreshed, StartPoll, AfterRefresh, NewPoll, Running, Polls, Parts, Pairs, Snapshots, Apis
<1>14. CASE UnloadPlatforms \/ ReloadFailedSetup
  BY <1>14 DEF UnloadPlatforms, ReloadFailedSetup, Event, Running, Polls, Parts, Pairs, Snapshots, Apis
<1>15. CASE Shutdown
  BY <1>15 DEF Shutdown, CancelStream, NothingSent, NoStream, Running, Polls, Parts, Pairs, Snapshots, Apis
<1>16. ASSUME NEW kind \in FlowKinds, NEW url \in Urls, NEW token \in Tokens, Probe(kind, url, token)
      PROVE  PollTypes'
  BY <1>16 DEF Probe, Event, Listening, Running, Polls, Parts, Pairs, Snapshots, Apis
<1>17. CASE FlowCreates
  BY <1>17 DEF FlowCreates, Running, Polls, Parts, Pairs, Snapshots, Apis
<1>18. CASE FlowUpdates
  BY <1>18 DEF FlowUpdates, Matches, Reloads, Running, Polls, Parts, Pairs, Snapshots, Apis
<1>19. ASSUME NEW url \in Urls, Zeroconf(url) PROVE PollTypes'
  BY <1>19 DEF Zeroconf, Event, Running, Polls, Parts, Pairs, Snapshots, Apis
<1>20. CASE UNCHANGED vars
  BY <1>20 DEF vars, Running, Polls, Parts, Pairs, Snapshots, Apis
<1> QED
  BY <1>1, <1>2, <1>3, <1>4, <1>5, <1>6, <1>7, <1>8, <1>9, <1>10,
     <1>11, <1>12, <1>13, <1>14, <1>15, <1>16, <1>17, <1>18, <1>19, <1>20 DEF Next

LEMMA LostTypes ==
  ASSUME StreamTypes, UNCHANGED push \/ Disconnects \/ CancelStream, overtaken' \in BOOLEAN
  PROVE  StreamTypes'
<1>1. CASE UNCHANGED push
  BY <1>1 DEF StreamTypes, push
<1>2. CASE Disconnects \/ CancelStream
  <2>1. /\ \/ stream' = [pc |-> "refresh", inst |-> None, rejected |-> FALSE]
           \/ stream' = [pc |-> "none", inst |-> None, rejected |-> FALSE]
        /\ line' = <<>> /\ copy' = None
    BY <1>2 DEF Disconnects, CancelStream, NothingSent, Failing, NoStream
  <2>2. line' \in Seq(Sent)
    BY <2>1, EmptySeq
  <2>3. stream' \in [pc : StreamStates, inst : Installations \cup {None}, rejected : BOOLEAN]
    <3>1. \A pc \in {"refresh", "none"} : [pc |-> pc, inst |-> None, rejected |-> FALSE]
            \in [pc : StreamStates, inst : Installations \cup {None}, rejected : BOOLEAN]
      BY DEF StreamStates
    <3> QED
      BY <2>1, <3>1
  <2>4. stream'.pc # "open"
    BY <2>1
  <2> QED
    BY <2>1, <2>2, <2>3, <2>4 DEF StreamTypes
<1> QED
  BY <1>1, <1>2

LEMMA MarkedLine ==
  ASSUME NEW l \in Seq(Sent), NEW m, m = [k \in DOMAIN l |-> Late(l[k])]
  PROVE  /\ m \in Seq(Sent) /\ DOMAIN m = DOMAIN l /\ (l = <<>> => m = <<>>)
         /\ \A k \in DOMAIN l : m[k].late /\ m[k].shot = l[k].shot
<1>1. \A k \in DOMAIN l : l[k] \in Sent
  BY ElementOfSeq, LenProperties
<1>2. \A k \in DOMAIN l : Late(l[k]) \in Sent /\ Late(l[k]).late /\ Late(l[k]).shot = l[k].shot
  BY <1>1 DEF Late, Sent
<1>3. DOMAIN m = DOMAIN l /\ \A k \in DOMAIN l : m[k] = Late(l[k])
  OBVIOUS
<1>4. DOMAIN l = 1..Len(l) /\ Len(l) \in Nat
  BY LenProperties
<1>5. m \in [1..Len(l) -> Sent]
  BY <1>2, <1>4
<1>6. m \in Seq(Sent)
  BY <1>4, <1>5, SeqDef
<1>7. l = <<>> => m = <<>>
  <2> SUFFICES ASSUME l = <<>> PROVE m = <<>>
    OBVIOUS
  <2>1. Len(l) = 0 /\ DOMAIN m = 1..0
    BY <1>3, <1>4
  <2>2. Len(m) = 0
    BY <2>1, <1>6, LenProperties
  <2> QED
    BY <2>2, <1>6, EmptySeq
<1> QED
  BY <1>2, <1>3, <1>6, <1>7

LEMMA NextStreamTypes ==
  ASSUME Types, StreamFollowsEntry, [Next]_vars
  PROVE  StreamTypes'
<1> USE HaAssumption DEF Types, WorldTypes, EntryTypes, PollTypes, StreamTypes, StreamFollowsEntry, world, history, around, life, push, polling, run
<1>1. ASSUME NEW i \in Installations, AgentChanges(i) PROVE StreamTypes'
  <2> DEFINE new == [Now(i) EXCEPT !.version = @ + 1]
  <2>1. /\ UNCHANGED <<stream, overtaken>>
        /\ \/ UNCHANGED <<line, copy>>
           \/ /\ line' = Append(line, [shot |-> new, late |-> FALSE]) /\ stream.pc = "open"
              /\ copy' = IF copy = None THEN None ELSE Late(copy)
    BY <1>1 DEF AgentChanges, Broadcast
  <2>2. new \in Snapshots
    <3>1. new = [inst |-> i, version |-> version[i] + 1, known |-> i \notin foreign]
      BY DEF Now
    <3>2. version[i] + 1 \in 0..MaxVersion
      BY <1>1 DEF AgentChanges
    <3> QED
      BY <3>1, <3>2 DEF Snapshots
  <2> HIDE DEF new
  <2>3. [shot |-> new, late |-> FALSE] \in Sent
    BY <2>2 DEF Sent
  <2>4. copy # None => Late(copy) \in Sent
    BY DEF Late, Sent
  <2>5. line' \in Seq(Sent)
    <3>1. Append(line, [shot |-> new, late |-> FALSE]) \in Seq(Sent)
      BY <2>3, AppendProperties
    <3> QED
      BY <2>1, <3>1
  <2>6. copy' \in Sent \cup {None}
    BY <2>1, <2>4
  <2> QED
    BY <2>1, <2>5, <2>6
<1>2. CASE Fault
  <2>1. UNCHANGED push \/ Disconnects
    BY <1>2 DEF Fault, AgentMoves, AgentRestarts
  <2>2. overtaken' = overtaken
    BY <1>2 DEF Fault
  <2> QED
    BY <2>1, <2>2, LostTypes
<1>3. CASE BeginSetup
  BY <1>3 DEF BeginSetup, Stored, NewPoll, Running, Polls, Parts, Pairs, Snapshots, Apis, StreamStates
<1>4. CASE TimerPoll
  BY <1>4 DEF TimerPoll, StartPoll, NewPoll, Running, Polls, Parts, Pairs, Snapshots, Apis, StreamStates
<1>5. CASE Answered("status")
  BY <1>5 DEF Answered, Now, Listening, Running, Polls, Parts, Pairs, Snapshots, Apis, StreamStates
<1>6. CASE Answered("threads")
  BY <1>6 DEF Answered, Now, Listening, Running, Polls, Parts, Pairs, Snapshots, Apis, StreamStates
<1>7. CASE PollDown \/ PollRejected \/ PollInvalid
  BY <1>7 DEF PollDown, PollRejected, PollInvalid, PollFails, PollAnswered, Waiting, AsksForToken, Repair, Running, Polls, Parts, Pairs, Snapshots, Apis, StreamStates
<1>8. CASE PollSucceeds
  <2>1. \/ stream' = stream
        \/ /\ stream' = [pc |-> "connect", inst |-> None, rejected |-> FALSE]
           /\ line = <<>> /\ copy = None
    BY <1>8 DEF PollSucceeds, StartStream, NoStream, Running
  <2>2. line' \in Seq(Sent) /\ (line = <<>> => line' = <<>>)
    BY <1>8, MarkedLine DEF PollSucceeds
  <2>3. copy' \in Sent \cup {None} /\ (copy = None => copy' = None)
    BY <1>8 DEF PollSucceeds, Late, Sent
  <2>4. overtaken' = FALSE
    BY <1>8 DEF PollSucceeds
  <2>5. [pc |-> "connect", inst |-> None, rejected |-> FALSE]
          \in [pc : StreamStates, inst : Installations \cup {None}, rejected : BOOLEAN]
    BY DEF StreamStates
  <2>6. CASE stream' = stream
    BY <2>2, <2>3, <2>4, <2>6
  <2>7. CASE /\ stream' = [pc |-> "connect", inst |-> None, rejected |-> FALSE]
             /\ line = <<>> /\ copy = None
    BY <2>2, <2>3, <2>4, <2>5, <2>7
  <2> QED
    BY <2>1, <2>6, <2>7
<1>9. CASE StreamConnects
  <2> DEFINE i == site[coord.url]
  <2>1. i \in Installations \cup {None}
    <3>1. Running /\ coord # None
      BY <1>9 DEF StreamConnects
    <3> QED
      BY <3>1 DEF Apis
  <2>2. \/ /\ i # None /\ line' = <<>> /\ copy' = [shot |-> Now(i), late |-> FALSE]
           /\ stream' = [stream EXCEPT !.pc = "open", !.inst = i]
        \/ /\ line' = line /\ line = <<>> /\ copy' = copy /\ copy = None
           /\ stream' = [pc |-> "refresh", inst |-> None, rejected |-> (i # None)]
    BY <1>9 DEF StreamConnects, Failing
  <2>3. overtaken' = overtaken
    BY <1>9 DEF StreamConnects, polling
  <2>4. i # None => Now(i) \in Snapshots
    BY <2>1 DEF Now, Snapshots
  <2> HIDE DEF i
  <2>5. CASE /\ i # None /\ line' = <<>> /\ copy' = [shot |-> Now(i), late |-> FALSE]
             /\ stream' = [stream EXCEPT !.pc = "open", !.inst = i]
    <3>1. stream' = [pc |-> "open", inst |-> i, rejected |-> stream.rejected]
      BY <2>5
    <3>2. [shot |-> Now(i), late |-> FALSE] \in Sent /\ i \in Installations
      BY <2>1, <2>4, <2>5 DEF Sent
    <3>3. line' \in Seq(Sent)
      BY <2>5, EmptySeq
    <3> QED
      BY <2>3, <2>5, <3>1, <3>2, <3>3 DEF StreamStates
  <2>6. CASE /\ line' = line /\ line = <<>> /\ copy' = copy /\ copy = None
             /\ stream' = [pc |-> "refresh", inst |-> None, rejected |-> (i # None)]
    <3>1. PICK rejected \in BOOLEAN : rejected = (i # None)
      OBVIOUS
    <3>2. stream' = [pc |-> "refresh", inst |-> None, rejected |-> rejected]
      BY <2>6, <3>1
    <3> QED
      BY <2>3, <2>6, <3>2 DEF StreamStates
  <2> QED
    BY <2>2, <2>5, <2>6
<1>10. CASE SendCopy
  <2>1. /\ UNCHANGED <<stream, overtaken>> /\ stream.pc = "open"
        /\ copy \in Sent /\ line' = Append(line, copy) /\ copy' = None
    BY <1>10 DEF SendCopy
  <2> QED
    BY <2>1, AppendProperties
<1>11. CASE StreamLost
  BY <1>11, LostTypes DEF StreamLost
<1>12. CASE StreamApplies
  <2>1. \/ Disconnects /\ overtaken' = overtaken
        \/ /\ line # <<>> /\ line' = Tail(line) /\ overtaken' = (poll # None)
           /\ UNCHANGED <<stream, copy>> /\ stream.pc = "open"
    BY <1>12 DEF StreamApplies
  <2>2. line # <<>> => Tail(line) \in Seq(Sent)
    BY HeadTailProperties
  <2> QED
    BY <2>1, <2>2, LostTypes
<1>13. CASE StreamRefreshes \/ StreamRefreshed
  <2>1. /\ \/ stream' = [stream EXCEPT !.pc = "await"]
           \/ \E pc \in {"ended", "connect"} : stream' = [stream EXCEPT !.pc = pc]
        /\ UNCHANGED <<line, copy>> /\ overtaken' \in BOOLEAN
        /\ stream.pc \in {"refresh", "await"}
    BY <1>13 DEF StreamRefreshes, StreamRefreshed, StartPoll, AfterRefresh
  <2> QED
    BY <2>1 DEF StreamStates
<1>14. CASE UnloadPlatforms \/ ReloadFailedSetup
  BY <1>14 DEF UnloadPlatforms, ReloadFailedSetup, Event, Running, Polls, Parts, Pairs, Snapshots, Apis, StreamStates
<1>15. CASE Shutdown
  BY <1>15, LostTypes DEF Shutdown
<1>16. ASSUME NEW kind \in FlowKinds, NEW url \in Urls, NEW token \in Tokens, Probe(kind, url, token)
      PROVE  StreamTypes'
  BY <1>16 DEF Probe, Event, Listening, Running, Polls, Parts, Pairs, Snapshots, Apis, StreamStates
<1>17. CASE FlowCreates
  BY <1>17 DEF FlowCreates, Running, Polls, Parts, Pairs, Snapshots, Apis, StreamStates
<1>18. CASE FlowUpdates
  BY <1>18 DEF FlowUpdates, Matches, Reloads, Running, Polls, Parts, Pairs, Snapshots, Apis, StreamStates
<1>19. ASSUME NEW url \in Urls, Zeroconf(url) PROVE StreamTypes'
  BY <1>19 DEF Zeroconf, Event, Running, Polls, Parts, Pairs, Snapshots, Apis, StreamStates
<1>20. CASE UNCHANGED vars
  BY <1>20 DEF vars, Running, Polls, Parts, Pairs, Snapshots, Apis, StreamStates
<1> QED
  BY <1>1, <1>2, <1>3, <1>4, <1>5, <1>6, <1>7, <1>8, <1>9, <1>10,
     <1>11, <1>12, <1>13, <1>14, <1>15, <1>16, <1>17, <1>18, <1>19, <1>20 DEF Next

-----------------------------------------------------------------------------
(* What is newer.  Nothing the entry holds or waits for is of a version its *)
(* agent has not reached.  So what answers or is broadcast from now on is  *)
(* no older than the data and than what is on its way; only what was taken *)
(* already can be, and that is marked late or overtaken.                   *)
Known(s) == s # None => s.version <= version[s.inst]
NoOlder(s, d) == s # None /\ s.inst = d.inst => d.version <= s.version

Reached ==
  /\ \A k \in DOMAIN line : Known(line[k].shot) /\ line[k].shot.inst = stream.inst
  /\ copy # None => Known(copy.shot) /\ copy.shot.inst = stream.inst
  /\ data # None => Known(data.status) /\ Known(data.threads)
  /\ poll # None => Known(poll.status) /\ Known(poll.threads)

PollNewer ==
  data # None /\ poll # None /\ ~overtaken =>
    NoOlder(poll.status, data.status) /\ NoOlder(poll.threads, data.threads)

NewerThanData(sent) ==
  data # None /\ ~sent.late =>
    NoOlder(sent.shot, data.status) /\ NoOlder(sent.shot, data.threads)

LineNewer ==
  /\ \A k \in DOMAIN line : NewerThanData(line[k])
  /\ copy # None => NewerThanData(copy)

(* On the way, only what is late is older than what is before it.          *)
InOrder ==
  /\ \A j, k \in DOMAIN line :
       j < k => line[k].late \/ line[j].shot.version <= line[k].shot.version
  /\ copy # None /\ line # <<>> => copy.late

InFlight == Reached /\ PollNewer /\ LineNewer /\ InOrder

LEMMA InLine ==
  ASSUME Types
  PROVE  \A k \in DOMAIN line : line[k] \in Sent /\ line[k].shot \in Snapshots
<1>1. line \in Seq(Sent)
  BY DEF Types, StreamTypes
<1>2. \A k \in DOMAIN line : line[k] \in Sent
  BY <1>1, LenProperties, ElementOfSeq
<1> QED
  BY <1>2 DEF Sent

(* The steps that send, put in place or ask for nothing.                   *)
LEMMA InFlightKept ==
  ASSUME InFlight, \/ UNCHANGED <<version, data, poll, overtaken, push>>
                   \/ UNCHANGED <<version, data, poll, overtaken>> /\ Disconnects
  PROVE  InFlight'
<1> USE DEF InFlight, Reached, PollNewer, LineNewer, NewerThanData, InOrder, Known, NoOlder, push
<1>1. CASE UNCHANGED <<version, data, poll, overtaken, push>>
  BY <1>1
<1>2. CASE UNCHANGED <<version, data, poll, overtaken>> /\ Disconnects
  <2>1. line' = <<>> /\ copy' = None
    BY <1>2 DEF Disconnects, NothingSent
  <2> QED
    BY <1>2, <2>1
<1> QED
  BY <1>1, <1>2

(* The steps that begin or give up a poll.                                 *)
LEMMA InFlightPolls ==
  ASSUME InFlight, UNCHANGED <<version, data, line, copy>>, stream'.inst = stream.inst,
         poll' \in {None, NewPoll}
  PROVE  InFlight'
BY DEF InFlight, Reached, PollNewer, LineNewer, NewerThanData, InOrder, Known, NoOlder, NewPoll

(* A snapshot taken now and put on the way is the newest of all.           *)
LEMMA InFlightAppends ==
  ASSUME Types, InFlight, NEW sent \in Sent, UNCHANGED <<data, poll, overtaken, stream>>,
         line' = Append(line, sent), sent.shot.inst = stream.inst,
         sent.shot.version <= version'[sent.shot.inst],
         \A i \in Installations : version[i] <= version'[i] /\ version'[i] \in Nat,
         NewerThanData(sent),
         sent.late \/ \A k \in DOMAIN line : line[k].shot.version <= sent.shot.version,
         copy' = None \/ copy' = IF copy = None THEN None ELSE Late(copy)
  PROVE  InFlight'
<1> USE DEF Types, WorldTypes, StreamTypes, PollTypes
<1>1. /\ Len(line) \in Nat /\ DOMAIN line = 1..Len(line)
      /\ DOMAIN line' = 1..Len(line)+1 /\ line'[Len(line)+1] = sent
      /\ \A k \in 1..Len(line) : line'[k] = line[k] /\ line[k] \in Sent
  BY LenProperties, AppendProperties, ElementOfSeq
<1>2. \A x \in Snapshots : x.inst \in Installations /\ x.version \in Nat
  BY HaAssumption DEF Snapshots
<1>3. \A x \in Snapshots : Known(x) => Known(x)'
  BY <1>2, HaAssumption DEF Known, Snapshots
<1>4. copy' # None => copy' \in Sent /\ copy'.late /\ copy'.shot = copy.shot /\ copy # None
  BY DEF Late, Sent
<1>5. \A x \in Sent : x.shot \in Snapshots
  BY DEF Sent
<1>6. Known(sent.shot)'
  BY DEF Known
<1>7. Reached'
  <2>1. \A k \in DOMAIN line' : Known(line[k].shot)' /\ line'[k].shot.inst = stream'.inst
    <3> SUFFICES ASSUME NEW k \in DOMAIN line'
                 PROVE  Known(line[k].shot)' /\ line'[k].shot.inst = stream'.inst
      OBVIOUS
    <3>1. CASE k = Len(line)+1
      BY <1>1, <1>6, <3>1 DEF Known
    <3>2. CASE k \in 1..Len(line)
      BY <1>1, <1>3, <1>5, <3>2 DEF InFlight, Reached, Known
    <3> QED
      BY <1>1, <3>1, <3>2
  <2>2. copy' # None => Known(copy.shot)' /\ copy'.shot.inst = stream'.inst
    BY <1>3, <1>4, <1>5 DEF InFlight, Reached, Known
  <2>3. data' # None => Known(data.status)' /\ Known(data.threads)'
    BY <1>3 DEF InFlight, Reached, Pairs, Known
  <2>4. poll' # None => Known(poll.status)' /\ Known(poll.threads)'
    BY <1>3 DEF InFlight, Reached, Polls, Parts, Known
  <2> QED
    BY <2>1, <2>2, <2>3, <2>4 DEF Reached
<1>8. PollNewer' /\ LineNewer'
  BY <1>1, <1>4 DEF InFlight, PollNewer, LineNewer, NewerThanData, NoOlder
<1>9. InOrder'
  BY <1>1, <1>4 DEF InFlight, InOrder
<1> QED
  BY <1>7, <1>8, <1>9 DEF InFlight

LEMMA InFlightChanges ==
  ASSUME Types, InFlight, NEW i \in Installations, AgentChanges(i)
  PROVE  InFlight'
<1> USE HaAssumption DEF Types, WorldTypes, StreamTypes, PollTypes
<1> DEFINE new == [Now(i) EXCEPT !.version = @ + 1]
           sent == [shot |-> new, late |-> FALSE]
<1>1. /\ version' = [version EXCEPT ![i] = version[i] + 1] /\ version'[i] = version[i] + 1
      /\ version[i] \in Nat /\ version'[i] \in 0..MaxVersion
      /\ UNCHANGED <<data, poll, overtaken, stream>>
  BY DEF AgentChanges, polling, Broadcast, push
<1>2. new = [inst |-> i, version |-> version[i] + 1, known |-> i \notin foreign]
  BY DEF Now
<1>3. \A j \in Installations : version[j] <= version'[j] /\ version'[j] \in Nat
  BY <1>1
<1>4. sent \in Sent /\ sent.shot.inst = i /\ sent.shot.version = version[i] + 1 /\ ~sent.late
  BY <1>1, <1>2 DEF Sent, Snapshots
<1>5. \/ UNCHANGED push
      \/ /\ stream.inst = i /\ line' = Append(line, sent)
         /\ copy' = IF copy = None THEN None ELSE Late(copy)
  BY <1>2 DEF AgentChanges, Broadcast
<1>6. \A x \in Snapshots : x.inst \in Installations /\ x.version \in Nat
  BY DEF Snapshots
<1> HIDE DEF sent, new
<1>7. CASE UNCHANGED push
  <2>1. \A x \in Snapshots : Known(x) => Known(x)'
    BY <1>3, <1>6 DEF Known
  <2>2. \A k \in DOMAIN line : line[k].shot \in Snapshots
    BY InLine
  <2>3. Reached'
    <3>1. \A k \in DOMAIN line : Known(line[k].shot)'
      BY <1>7, <2>1, <2>2 DEF InFlight, Reached, push
    <3>2. copy # None => Known(copy.shot)'
      BY <1>7, <2>1 DEF InFlight, Reached, push, Sent
    <3>3. data # None => Known(data.status)' /\ Known(data.threads)'
      BY <1>1, <2>1 DEF InFlight, Reached, Pairs
    <3>4. poll # None => Known(poll.status)' /\ Known(poll.threads)'
      BY <1>1, <2>1 DEF InFlight, Reached, Polls, Parts, Known
    <3> QED
      BY <1>1, <1>7, <3>1, <3>2, <3>3, <3>4 DEF InFlight, Reached, push
  <2>4. PollNewer' /\ LineNewer' /\ InOrder'
    BY <1>1, <1>7 DEF InFlight, PollNewer, LineNewer, NewerThanData, InOrder, NoOlder, push
  <2> QED
    BY <2>3, <2>4 DEF InFlight
<1>8. CASE /\ stream.inst = i /\ line' = Append(line, sent)
           /\ copy' = IF copy = None THEN None ELSE Late(copy)
  <2>1. \A x \in Snapshots : x.inst = i /\ Known(x) => x.version <= version[i] + 1
    BY <1>1, <1>6, HaAssumption DEF Known, Snapshots
  <2>2. NewerThanData(sent)
    BY <1>1, <1>4, <2>1 DEF InFlight, Reached, NewerThanData, NoOlder, Pairs
  <2>3. \A k \in DOMAIN line : line[k].shot.version <= sent.shot.version
    <3>1. \A k \in DOMAIN line : line[k].shot \in Snapshots
      BY InLine
    <3> QED
      BY <1>4, <1>8, <2>1, <3>1 DEF InFlight, Reached
  <2>4. sent.shot.version <= version'[sent.shot.inst]
    BY <1>1, <1>4
  <2> QED
    BY <1>1, <1>3, <1>4, <1>8, <2>2, <2>3, <2>4, InFlightAppends
<1> QED
  BY <1>5, <1>7, <1>8

LEMMA InFlightAnswered ==
  ASSUME Types, InFlight, NEW part \in {"status", "threads"}, Answered(part)
  PROVE  InFlight'
<1> USE HaAssumption DEF Types, WorldTypes, PollTypes
<1> DEFINE i == site[coord.url]
<1>1. /\ UNCHANGED <<version, data, overtaken, line, copy, stream>> /\ poll # None
      /\ poll' = [poll EXCEPT ![part] = Now(i)] /\ i # None /\ i \in Installations \cup {None}
  <2>1. coord \in Apis
    BY DEF Answered, EntryTypes
  <2> QED
    BY <2>1 DEF Answered, world, around, push, Listening, Apis
<1>2. /\ Now(i).inst = i /\ Now(i).version = version[i]
  BY DEF Now
<1> HIDE DEF i
<1>3. Known(Now(i)) /\ \A x \in Snapshots : Known(x) => NoOlder(Now(i), x)
  BY <1>1, <1>2 DEF Known, NoOlder, Snapshots
<1>4. /\ poll'.status \in {poll.status, Now(i)}
      /\ poll'.threads \in {poll.threads, Now(i)}
  <2>1. poll \in [status : Parts, threads : Parts]
    BY <1>1 DEF Polls
  <2>2. poll = [status |-> poll.status, threads |-> poll.threads]
    BY <2>1
  <2>3. \/ poll' = [status |-> Now(i), threads |-> poll.threads]
        \/ poll' = [status |-> poll.status, threads |-> Now(i)]
    <3> DEFINE now == Now(i)
    <3> HIDE DEF now
    <3>1. poll' = [poll EXCEPT ![part] = now]
      BY <1>1 DEF now
    <3>2. \/ poll' = [status |-> now, threads |-> poll.threads]
          \/ poll' = [status |-> poll.status, threads |-> now]
      BY <2>2, <3>1
    <3> QED
      BY <3>2 DEF now
  <2> QED
    BY <2>3
<1>5. Reached'
  BY <1>1, <1>3, <1>4 DEF InFlight, Reached, Known
<1>6. PollNewer'
  BY <1>1, <1>3, <1>4 DEF InFlight, Reached, PollNewer, NoOlder, Pairs
<1>7. LineNewer' /\ InOrder'
  BY <1>1 DEF InFlight, LineNewer, NewerThanData, InOrder, NoOlder
<1> QED
  BY <1>5, <1>6, <1>7 DEF InFlight

LEMMA InFlightSucceeds ==
  ASSUME Types, StreamFollowsEntry, InFlight, PollSucceeds
  PROVE  InFlight'
<1> USE DEF Types, StreamTypes
<1>1. /\ version' = version /\ data' = poll /\ poll # None /\ poll' = None
      /\ line' = [k \in DOMAIN line |-> Late(line[k])]
      /\ copy' = IF copy = None THEN None ELSE Late(copy)
  BY DEF PollSucceeds, PollAnswered, around, world
<1>2. /\ DOMAIN line' = DOMAIN line
      /\ \A k \in DOMAIN line : line'[k].late /\ line'[k].shot = line[k].shot
  BY <1>1, MarkedLine
<1>3. copy' # None => copy'.late /\ copy'.shot = copy.shot /\ copy # None
  BY <1>1 DEF Late, Sent
<1>4. stream'.inst = stream.inst \/ (line = <<>> /\ copy = None)
  BY DEF PollSucceeds, StreamFollowsEntry, Running
<1>5. line = <<>> => DOMAIN line = {}
  OBVIOUS
<1>6. Reached'
  BY <1>1, <1>2, <1>3, <1>4, <1>5 DEF InFlight, Reached, Known
<1>7. PollNewer' /\ LineNewer'
  BY <1>1, <1>2, <1>3 DEF PollNewer, LineNewer, NewerThanData
<1>8. InOrder'
  BY <1>2, <1>3 DEF InFlight, InOrder
<1> QED
  BY <1>6, <1>7, <1>8 DEF InFlight

LEMMA InFlightConnects ==
  ASSUME Types, StreamFollowsEntry, InFlight, StreamConnects
  PROVE  InFlight'
<1> USE HaAssumption DEF Types, WorldTypes, StreamTypes, PollTypes
<1> DEFINE i == site[coord.url]
<1>1. /\ UNCHANGED <<version, data, poll, overtaken>> /\ line = <<>> /\ copy = None
      /\ \/ /\ line' = <<>> /\ copy' = [shot |-> Now(i), late |-> FALSE]
            /\ stream'.inst = i /\ i # None
         \/ line' = <<>> /\ copy' = None
  BY DEF StreamConnects, around, world, polling
<1>2. /\ Now(i).inst = i /\ Now(i).version = version[i]
  BY DEF Now
<1>3. i \in Installations \cup {None}
  <2>1. Running /\ coord # None
    BY DEF StreamConnects, StreamFollowsEntry, EntryTypes
  <2> QED
    BY <2>1 DEF EntryTypes, Apis
<1> HIDE DEF i
<1>4. i # None => Known(Now(i)) /\ \A x \in Snapshots : Known(x) => NoOlder(Now(i), x)
  BY <1>2, <1>3 DEF Known, NoOlder, Snapshots
<1>5. Reached'
  BY <1>1, <1>2, <1>4 DEF InFlight, Reached, Known
<1>6. PollNewer' /\ InOrder'
  BY <1>1 DEF InFlight, PollNewer, InOrder, NoOlder
<1>7. LineNewer'
  BY <1>1, <1>4 DEF InFlight, Reached, LineNewer, NewerThanData, NoOlder, Pairs
<1> QED
  BY <1>5, <1>6, <1>7 DEF InFlight

LEMMA InFlightCopy ==
  ASSUME Types, InFlight, SendCopy
  PROVE  InFlight'
<1>1. /\ UNCHANGED <<version, data, poll, overtaken, stream>>
      /\ copy \in Sent /\ line' = Append(line, copy) /\ copy' = None
  BY DEF SendCopy, around, world, polling, Types, StreamTypes
<1>2. Known(copy.shot) /\ copy.shot.inst = stream.inst /\ NewerThanData(copy)
  BY <1>1, HaAssumption DEF InFlight, Reached, LineNewer, Types, StreamTypes
<1>3. copy.shot \in Snapshots /\ copy.shot # None
  BY <1>1, HaAssumption DEF Sent
<1>4. copy.shot.version <= version'[copy.shot.inst]
  BY <1>1, <1>2, <1>3 DEF Known
<1>5. copy.late \/ line = <<>>
  BY <1>1, HaAssumption DEF InFlight, InOrder, Types, StreamTypes
<1>6. copy.late \/ \A k \in DOMAIN line : line[k].shot.version <= copy.shot.version
  BY <1>5
<1>7. \A i \in Installations : version[i] <= version'[i] /\ version'[i] \in Nat
  BY <1>1, HaAssumption DEF Types, WorldTypes
<1> QED
  BY <1>1, <1>2, <1>4, <1>6, <1>7, InFlightAppends

LEMMA InFlightApplies ==
  ASSUME Types, InFlight, StreamApplies
  PROVE  InFlight'
<1> USE DEF Types, StreamTypes
<1>1. CASE Disconnects /\ UNCHANGED <<data, overtaken>>
  BY <1>1, InFlightKept DEF StreamApplies, around, world
<1>2. CASE ~(Disconnects /\ UNCHANGED <<data, overtaken>>)
  <2> DEFINE shot == Head(line).shot
  <2>1. /\ data' = [status |-> shot, threads |-> shot] /\ line' = Tail(line)
        /\ UNCHANGED <<version, poll, stream, copy>> /\ overtaken' = (poll # None)
        /\ line # <<>> /\ copy = None
    BY <1>2 DEF StreamApplies, around, world
  <2>2. /\ Len(line) \in Nat /\ Len(line) > 0 /\ Head(line) = line[1]
        /\ DOMAIN line = 1..Len(line) /\ DOMAIN line' = 1..Len(line)-1
        /\ \A k \in 1..Len(line)-1 : line'[k] = line[k+1]
    BY <2>1, HeadTailProperties, EmptySeq, LenProperties
  <2>3. shot = line[1].shot /\ 1 \in DOMAIN line
    BY <2>2
  <2> HIDE DEF shot
  <2>4. Reached'
    BY <2>1, <2>2, <2>3 DEF InFlight, Reached, Known
  <2>5. PollNewer'
    BY <2>1 DEF PollNewer
  <2>6. LineNewer'
    <3>1. \A k \in 2..Len(line) : line[k].late \/ shot.version <= line[k].shot.version
      BY <2>2, <2>3 DEF InFlight, InOrder
    <3>2. \A k \in DOMAIN line' : line'[k].late \/ NoOlder(line'[k].shot, shot)
      BY <2>2, <3>1 DEF NoOlder
    <3> QED
      BY <2>1, <3>2 DEF LineNewer, NewerThanData, NoOlder
  <2>7. InOrder'
    BY <2>1, <2>2 DEF InFlight, InOrder
  <2> QED
    BY <2>4, <2>5, <2>6, <2>7 DEF InFlight
<1> QED
  BY <1>1, <1>2

LEMMA NextInFlight ==
  ASSUME Types, StreamFollowsEntry, InFlight, [Next]_vars
  PROVE  InFlight'
<1> USE DEF world, history, around, life, push, polling, run
<1>1. ASSUME NEW i \in Installations, AgentChanges(i) PROVE InFlight'
  BY <1>1, InFlightChanges
<1>2. CASE Fault \/ StreamLost
  BY <1>2, InFlightKept DEF Fault, AgentMoves, AgentRestarts, StreamLost
<1>3. CASE BeginSetup \/ TimerPoll \/ PollDown \/ PollRejected \/ PollInvalid
  BY <1>3, InFlightPolls DEF BeginSetup, TimerPoll, StartPoll, PollDown, PollRejected, PollInvalid, PollFails
<1>4. CASE Answered("status") \/ Answered("threads")
  BY <1>4, InFlightAnswered
<1>5. CASE PollSucceeds
  BY <1>5, InFlightSucceeds
<1>6. CASE StreamConnects
  BY <1>6, InFlightConnects
<1>7. CASE SendCopy
  BY <1>7, InFlightCopy
<1>8. CASE StreamApplies
  BY <1>8, InFlightApplies
<1>9. CASE StreamRefreshes \/ StreamRefreshed
  <2>1. /\ UNCHANGED <<version, data, line, copy>> /\ stream'.inst = stream.inst
        /\ poll' = NewPoll \/ UNCHANGED <<poll, overtaken>>
    BY <1>9 DEF StreamRefreshes, StreamRefreshed, StartPoll, AfterRefresh, Types, StreamTypes
  <2> QED
    BY <2>1, InFlightPolls DEF InFlight, Reached, PollNewer, LineNewer, NewerThanData, InOrder, Known, NoOlder
<1>10. CASE Shutdown
  BY <1>10 DEF Shutdown, CancelStream, NothingSent, InFlight, Reached, PollNewer, LineNewer, InOrder
<1>11. CASE UnloadPlatforms \/ ReloadFailedSetup \/ FlowCreates \/ FlowUpdates
  BY <1>11, InFlightKept DEF UnloadPlatforms, ReloadFailedSetup, FlowCreates, FlowUpdates
<1>12. ASSUME NEW kind \in FlowKinds, NEW url \in Urls, NEW token \in Tokens, Probe(kind, url, token)
      PROVE  InFlight'
  BY <1>12, InFlightKept DEF Probe
<1>13. ASSUME NEW url \in Urls, Zeroconf(url) PROVE InFlight'
  BY <1>13, InFlightKept DEF Zeroconf
<1>14. CASE UNCHANGED vars
  BY <1>14, InFlightKept DEF vars
<1> QED
  BY <1>1, <1>2, <1>3, <1>4, <1>5, <1>6, <1>7, <1>8, <1>9, <1>10,
     <1>11, <1>12, <1>13, <1>14 DEF Next

LEMMA InitTypes == Init => Types /\ InFlight
<1> SUFFICES ASSUME Init PROVE Types /\ InFlight
  OBVIOUS
<1> USE HaAssumption DEF Init
<1>1. WorldTypes
  BY DEF WorldTypes
<1>2. EntryTypes /\ PollTypes
  BY DEF EntryTypes, PollTypes, Running, Polls
<1>3. StreamTypes
  <2>1. <<>> \in Seq(Sent)
    BY EmptySeq
  <2> QED
    BY <2>1 DEF StreamTypes, NoStream, StreamStates
<1>4. InFlight
  BY DEF InFlight, Reached, PollNewer, LineNewer, InOrder
<1> QED
  BY <1>1, <1>2, <1>3, <1>4 DEF Types

LEMMA SpecTypes == Spec => [](IInv /\ Types /\ InFlight)
<1>1. Init => IInv /\ Types /\ InFlight
  BY InitIInv, InitTypes
<1>2. IInv /\ Types /\ InFlight /\ [Next]_vars => (IInv /\ Types /\ InFlight)'
  <2> SUFFICES ASSUME IInv, Types, InFlight, [Next]_vars
               PROVE  (IInv /\ Types /\ InFlight)'
    OBVIOUS
  <2>1. IInv'
    BY NextShapes, NextEntryLife, NextFlowWasProbed, NextStored, NextStream, NextCoord DEF IInv
  <2>2. WorldTypes' /\ EntryTypes' /\ PollTypes' /\ StreamTypes'
    BY NextWorldTypes, NextEntryTypes, NextPollTypes, NextStreamTypes DEF IInv, Types
  <2>3. InFlight'
    BY NextInFlight DEF IInv
  <2> QED
    BY <2>1, <2>2, <2>3 DEF Types
<1> QED
  BY <1>1, <1>2, PTL DEF Spec

(* The types of the entry, its coordinator and its flows: data is complete, *)
(* both halves of it, and there exactly while the entry runs.              *)
THEOREM TypeCorrect == Spec => []TypeOK
<1>1. IInv /\ Types => TypeOK
  BY DEF IInv, EntryLife, Types, WorldTypes, EntryTypes, PollTypes, StreamTypes, TypeOK
<1> QED
  BY <1>1, SpecTypes, PTL

LEMMA StepRegress ==
  ASSUME Types, InFlight, [Next]_vars, data # None, data' # None, StepsBack
  PROVE  IF poll' = poll THEN Head(line).late ELSE overtaken
<1> USE DEF Types, PollTypes
<1>1. data \in Pairs /\ \A part \in {"status", "threads"} : data[part].version \in Nat
  BY DEF Pairs, Snapshots
<1>2. data' # data
  BY <1>1 DEF StepsBack
<1>3. CASE PollSucceeds
  <2>1. /\ data' = poll /\ poll # None /\ poll' = None
        /\ poll.status # None /\ poll.threads # None
    BY <1>3 DEF PollSucceeds, PollAnswered, Waiting
  <2>2. poll.status.version \in Nat /\ poll.threads.version \in Nat
    BY <2>1 DEF Polls, Parts, Snapshots
  <2> QED
    BY <1>1, <2>1, <2>2 DEF InFlight, PollNewer, NoOlder, StepsBack
<1>4. CASE StreamApplies
  <2> DEFINE shot == Head(line).shot
  <2>1. /\ line # <<>> /\ poll' = poll /\ data' = [status |-> shot, threads |-> shot]
    BY <1>2, <1>4 DEF StreamApplies
  <2>2. Head(line) \in Sent /\ Head(line) = line[1] /\ 1 \in DOMAIN line
    BY <2>1, HeadTailProperties, EmptySeq, LenProperties DEF StreamTypes
  <2>3. shot.version \in Nat /\ shot # None
    BY <2>2, HaAssumption DEF Sent, Snapshots
  <2>4. NewerThanData(Head(line))
    BY <2>2 DEF InFlight, LineNewer
  <2> HIDE DEF shot
  <2>5. ~Head(line).late => NoOlder(shot, data.status) /\ NoOlder(shot, data.threads)
    BY <2>4 DEF NewerThanData, shot
  <2> QED
    BY <1>1, <2>1, <2>3, <2>5 DEF NoOlder, StepsBack
<1>5. ASSUME Next, ~PollSucceeds, ~StreamApplies PROVE data' = data
  <2> USE DEF life, run, around, polling, push
  <2>1. CASE Shutdown
    BY <2>1 DEF Shutdown
  <2>2. CASE \/ \E i \in Installations : AgentChanges(i)
             \/ Fault \/ BeginSetup \/ TimerPoll
             \/ Answered("status") \/ Answered("threads")
    BY <2>2 DEF AgentChanges, Broadcast, Fault, BeginSetup, TimerPoll, Answered
  <2>3. CASE PollDown \/ PollRejected \/ PollInvalid
    BY <2>3 DEF PollDown, PollRejected, PollInvalid, PollFails
  <2>4. CASE \/ StreamConnects \/ SendCopy \/ StreamLost
             \/ StreamRefreshes \/ StreamRefreshed
    BY <2>4 DEF StreamConnects, SendCopy, StreamLost, StreamRefreshes, StreamRefreshed
  <2>5. CASE \/ UnloadPlatforms \/ ReloadFailedSetup
             \/ \E kind \in FlowKinds, url \in Urls, token \in Tokens : Probe(kind, url, token)
             \/ FlowCreates \/ FlowUpdates
             \/ \E url \in Urls : Zeroconf(url)
    BY <2>5 DEF UnloadPlatforms, ReloadFailedSetup, Probe, FlowCreates, FlowUpdates, Zeroconf
  <2> QED
    BY <1>5, <2>1, <2>2, <2>3, <2>4, <2>5 DEF Next
<1> QED
  BY <1>2, <1>3, <1>4, <1>5 DEF vars, run

(* The data steps back only onto what was taken before the newer data came, *)
(* however polls, pushes, late copies, lost streams and reloads overlap.   *)
THEOREM RegressInFlight == Spec => RegressOnlyInFlight
<1>1. Types /\ InFlight /\ [Next]_vars =>
        [data # None /\ data' # None /\ StepsBack =>
           IF poll' = poll THEN Head(line).late ELSE overtaken]_vars
  BY StepRegress
<1> QED
  BY <1>1, SpecTypes, PTL DEF Spec, RegressOnlyInFlight
=============================================================================
