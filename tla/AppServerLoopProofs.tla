------------------------ MODULE AppServerLoopProofs ------------------------
(***************************************************************************)
(* The safety of the app-server loop for every failure threshold, every    *)
(* cap of the backoff and any number of faults.                            *)
(***************************************************************************)
EXTENDS AppServerLoop, TLAPS

(* TypeOK by the kind of reasoning its parts need. *)
Names ==
  /\ pc \in Locations
  /\ endpoint \in {"auto", "stdio", "unsupported"}
  /\ connectionState \in {"connecting", "connected"} \cup Outages
  /\ child \in {"none", "running", "dead"}
Flags ==
  /\ client \in BOOLEAN /\ done \in BOOLEAN /\ shutdown \in BOOLEAN
  /\ outage \in BOOLEAN /\ recovered \in BOOLEAN
Numbers ==
  /\ failures \in Nat
  /\ failed \in 0..2
  /\ backoff \in 1..BackoffCap
  /\ faults \in 0..MaxFaults

(* Between ConnectStdio and Close there is one child, and a client until   *)
(* clearClient; nowhere else is there either.                              *)
Serving == Refreshing \cup {"select", "close", "close and return"}
ChildWhere ==
  /\ pc \in Serving => children = 1
  /\ pc \notin Serving => children = 0
ClientWhere == pc \in Serving \cup {"clear", "clear and return"} <=> client

(* The failed account reads a refresh can have counted by then. *)
FailedSoFar ==
  /\ pc \in {"thread/loaded/list", "account/usage/read"} => failed = 0
  /\ pc = "account/rateLimits/read" => failed \in {0, 1}

IInv ==
  /\ Names /\ Flags /\ Numbers
  /\ ChildWhere
  /\ ClientWhere
  /\ FailedSoFar
  /\ ConnectedHasClient

LEMMA InitIInv == Init => IInv
<1> SUFFICES ASSUME Init PROVE IInv
  OBVIOUS
<1>1. Names
  BY DEF Init, Names, Locations
<1>2. Flags
  BY DEF Init, Flags
<1>3. Numbers
  BY LoopAssumption DEF Init, Numbers
<1> QED
  BY <1>1, <1>2, <1>3 DEF Init, IInv, ChildWhere, ClientWhere, FailedSoFar,
     ConnectedHasClient, Serving, Refreshing

LEMMA NextIInv == IInv /\ [Next]_vars => IInv'
<1> SUFFICES ASSUME IInv, [Next]_vars PROVE IInv'
  OBVIOUS
<1> USE DEF IInv, childVars, envVars, Serving, Refreshing
<1>1. CASE Top
  <2>1. Names'
    BY <1>1 DEF Top, SetConnection, Names, Locations, Closing, Stopping, Outages
  <2>2. Flags'
    BY <1>1 DEF Top, SetConnection, Flags
  <2>3. Numbers'
    BY <1>1, LoopAssumption DEF Top, SetConnection, Numbers, FailedSoFar, NextBackoff
  <2>4. ChildWhere' /\ FailedSoFar'
    BY <1>1 DEF Top, SetConnection, ChildWhere, FailedSoFar, Numbers
  <2>5. ClientWhere' /\ ConnectedHasClient'
    BY <1>1 DEF Top, SetConnection, ClientWhere, ConnectedHasClient, Flags, Outages
  <2> QED
    BY <2>1, <2>2, <2>3, <2>4, <2>5
<1>2. CASE RefuseEndpoint
  <2>1. Names'
    BY <1>2 DEF RefuseEndpoint, SetConnection, Names, Locations, Closing, Stopping, Outages
  <2>2. Flags'
    BY <1>2 DEF RefuseEndpoint, SetConnection, Flags
  <2>3. Numbers'
    BY <1>2, LoopAssumption DEF RefuseEndpoint, SetConnection, Numbers, FailedSoFar, NextBackoff
  <2>4. ChildWhere' /\ FailedSoFar'
    BY <1>2 DEF RefuseEndpoint, SetConnection, ChildWhere, FailedSoFar, Numbers
  <2>5. ClientWhere' /\ ConnectedHasClient'
    BY <1>2 DEF RefuseEndpoint, SetConnection, ClientWhere, ConnectedHasClient, Flags, Outages
  <2> QED
    BY <2>1, <2>2, <2>3, <2>4, <2>5
<1>3. CASE ConnectFails
  <2>1. Names'
    BY <1>3 DEF ConnectFails, SetConnection, Fault, Names, Locations, Closing, Stopping, Outages
  <2>2. Flags'
    BY <1>3 DEF ConnectFails, SetConnection, Fault, Flags
  <2>3. Numbers'
    BY <1>3, LoopAssumption DEF ConnectFails, SetConnection, Fault, Numbers, FailedSoFar, NextBackoff
  <2>4. ChildWhere' /\ FailedSoFar'
    BY <1>3 DEF ConnectFails, SetConnection, Fault, ChildWhere, FailedSoFar, Numbers
  <2>5. ClientWhere' /\ ConnectedHasClient'
    BY <1>3 DEF ConnectFails, SetConnection, Fault, ClientWhere, ConnectedHasClient, Flags, Outages
  <2> QED
    BY <2>1, <2>2, <2>3, <2>4, <2>5
<1>4. CASE ConnectSucceeds
  <2>1. Names'
    BY <1>4 DEF ConnectSucceeds, Names, Locations, Closing, Stopping, Outages
  <2>2. Flags'
    <3>1. /\ done' = FALSE /\ client' = TRUE /\ outage' = FALSE
          /\ recovered' = (connectionState \in Outages)
          /\ UNCHANGED shutdown
      BY <1>4 DEF ConnectSucceeds
    <3>2. recovered' \in BOOLEAN
      <4>1. (connectionState \in Outages) \in BOOLEAN
        BY SMT
      <4> QED
        BY <3>1, <4>1, Zenon
    <3> QED
      BY <3>1, <3>2 DEF Flags
  <2>3. Numbers'
    BY <1>4, LoopAssumption DEF ConnectSucceeds, Numbers, FailedSoFar, NextBackoff
  <2>4. ChildWhere' /\ FailedSoFar'
    BY <1>4 DEF ConnectSucceeds, ChildWhere, FailedSoFar, Numbers
  <2>5. ClientWhere' /\ ConnectedHasClient'
    BY <1>4 DEF ConnectSucceeds, ClientWhere, ConnectedHasClient, Flags, Outages
  <2> QED
    BY <2>1, <2>2, <2>3, <2>4, <2>5
<1>5. CASE ThreadList
  <2>1. Names'
    BY <1>5 DEF ThreadList, RequestSucceeds, RequestFails, Fault, Names, Locations, Closing, Stopping, Outages
  <2>2. Flags'
    BY <1>5 DEF ThreadList, RequestSucceeds, RequestFails, Fault, Flags
  <2>3. Numbers'
    BY <1>5, LoopAssumption DEF ThreadList, RequestSucceeds, RequestFails, Fault, Numbers, FailedSoFar, NextBackoff
  <2>4. ChildWhere' /\ FailedSoFar'
    BY <1>5 DEF ThreadList, RequestSucceeds, RequestFails, Fault, ChildWhere, FailedSoFar, Numbers
  <2>5. ClientWhere' /\ ConnectedHasClient'
    BY <1>5 DEF ThreadList, RequestSucceeds, RequestFails, Fault, ClientWhere, ConnectedHasClient, Flags, Outages
  <2> QED
    BY <2>1, <2>2, <2>3, <2>4, <2>5
<1>6. CASE LoadedList
  <2>1. Names'
    BY <1>6 DEF LoadedList, RequestSucceeds, RequestFails, Fault, Names, Locations, Closing, Stopping, Outages
  <2>2. Flags'
    BY <1>6 DEF LoadedList, RequestSucceeds, RequestFails, Fault, Flags
  <2>3. Numbers'
    BY <1>6, LoopAssumption DEF LoadedList, RequestSucceeds, RequestFails, Fault, Numbers, FailedSoFar, NextBackoff
  <2>4. ChildWhere' /\ FailedSoFar'
    BY <1>6 DEF LoadedList, RequestSucceeds, RequestFails, Fault, ChildWhere, FailedSoFar, Numbers
  <2>5. ClientWhere' /\ ConnectedHasClient'
    BY <1>6 DEF LoadedList, RequestSucceeds, RequestFails, Fault, ClientWhere, ConnectedHasClient, Flags, Outages
  <2> QED
    BY <2>1, <2>2, <2>3, <2>4, <2>5
<1>7. CASE AccountRead("account/usage/read", "account/rateLimits/read")
  <2>1. Names'
    BY <1>7 DEF AccountRead, RequestSucceeds, RequestFails, Fault, Names, Locations, Closing, Stopping, Outages
  <2>2. Flags'
    BY <1>7 DEF AccountRead, RequestSucceeds, RequestFails, Fault, Flags
  <2>3. Numbers'
    BY <1>7, LoopAssumption DEF AccountRead, RequestSucceeds, RequestFails, Fault, Numbers, FailedSoFar, NextBackoff
  <2>4. ChildWhere' /\ FailedSoFar'
    BY <1>7 DEF AccountRead, RequestSucceeds, RequestFails, Fault, ChildWhere, FailedSoFar, Numbers
  <2>5. ClientWhere' /\ ConnectedHasClient'
    BY <1>7 DEF AccountRead, RequestSucceeds, RequestFails, Fault, ClientWhere, ConnectedHasClient, Flags, Outages
  <2> QED
    BY <2>1, <2>2, <2>3, <2>4, <2>5
<1>8. CASE AccountRead("account/rateLimits/read", "record")
  <2>1. Names'
    BY <1>8 DEF AccountRead, RequestSucceeds, RequestFails, Fault, Names, Locations, Closing, Stopping, Outages
  <2>2. Flags'
    BY <1>8 DEF AccountRead, RequestSucceeds, RequestFails, Fault, Flags
  <2>3. Numbers'
    BY <1>8, LoopAssumption DEF AccountRead, RequestSucceeds, RequestFails, Fault, Numbers, FailedSoFar, NextBackoff
  <2>4. ChildWhere' /\ FailedSoFar'
    BY <1>8 DEF AccountRead, RequestSucceeds, RequestFails, Fault, ChildWhere, FailedSoFar, Numbers
  <2>5. ClientWhere' /\ ConnectedHasClient'
    BY <1>8 DEF AccountRead, RequestSucceeds, RequestFails, Fault, ClientWhere, ConnectedHasClient, Flags, Outages
  <2> QED
    BY <2>1, <2>2, <2>3, <2>4, <2>5
<1>9. CASE RecordAccountResult
  <2>1. Names'
    BY <1>9 DEF RecordAccountResult, SetConnection, Names, Locations, Closing, Stopping, Outages
  <2>2. Flags'
    BY <1>9 DEF RecordAccountResult, SetConnection, Flags
  <2>3. Numbers'
    BY <1>9, LoopAssumption DEF RecordAccountResult, SetConnection, Numbers, FailedSoFar, NextBackoff
  <2>4. ChildWhere' /\ FailedSoFar'
    BY <1>9 DEF RecordAccountResult, SetConnection, ChildWhere, FailedSoFar, Numbers
  <2>5. ClientWhere' /\ ConnectedHasClient'
    BY <1>9 DEF RecordAccountResult, SetConnection, ClientWhere, ConnectedHasClient, Flags, Outages
  <2> QED
    BY <2>1, <2>2, <2>3, <2>4, <2>5
<1>10. CASE Publish
  <2>1. Names'
    BY <1>10 DEF Publish, SetConnection, Names, Locations, Closing, Stopping, Outages
  <2>2. Flags'
    BY <1>10 DEF Publish, SetConnection, Flags
  <2>3. Numbers'
    BY <1>10, LoopAssumption DEF Publish, SetConnection, Numbers, FailedSoFar, NextBackoff
  <2>4. ChildWhere' /\ FailedSoFar'
    BY <1>10 DEF Publish, SetConnection, ChildWhere, FailedSoFar, Numbers
  <2>5. ClientWhere' /\ ConnectedHasClient'
    BY <1>10 DEF Publish, SetConnection, ClientWhere, ConnectedHasClient, Flags, Outages
  <2> QED
    BY <2>1, <2>2, <2>3, <2>4, <2>5
<1>11. CASE Select
  <2>1. Names'
    BY <1>11 DEF Select, Names, Locations, Closing, Stopping, Outages
  <2>2. Flags'
    BY <1>11 DEF Select, Flags
  <2>3. Numbers'
    BY <1>11, LoopAssumption DEF Select, Numbers, FailedSoFar, NextBackoff
  <2>4. ChildWhere' /\ FailedSoFar'
    BY <1>11 DEF Select, ChildWhere, FailedSoFar, Numbers
  <2>5. ClientWhere' /\ ConnectedHasClient'
    BY <1>11 DEF Select, ClientWhere, ConnectedHasClient, Flags, Outages
  <2> QED
    BY <2>1, <2>2, <2>3, <2>4, <2>5
<1>12. CASE CloseClient
  <2>1. Names'
    BY <1>12 DEF CloseClient, Names, Locations, Closing, Stopping, Outages
  <2>2. Flags'
    BY <1>12 DEF CloseClient, Flags
  <2>3. Numbers'
    BY <1>12, LoopAssumption DEF CloseClient, Numbers, FailedSoFar, NextBackoff
  <2>4. ChildWhere' /\ FailedSoFar'
    <3>1. /\ pc \in {"close", "close and return"}
          /\ pc' \in {"clear", "clear and return"}
          /\ children' = children - 1
      BY <1>12 DEF CloseClient
    <3>2. children = 1
      BY <3>1 DEF ChildWhere
    <3>3. pc' \notin Serving
      BY <3>1
    <3>4. children' = 0
      <4>1. children' = children - 1
        BY <3>1
      <4> QED
        BY <4>1, <3>2
    <3>5. FailedSoFar'
      BY <3>1 DEF FailedSoFar
    <3> QED
      BY <3>3, <3>4, <3>5 DEF ChildWhere
  <2>5. ClientWhere' /\ ConnectedHasClient'
    <3>1. /\ pc \in {"close", "close and return"}
          /\ pc' \in {"clear", "clear and return"}
          /\ UNCHANGED <<client, connectionState>>
      BY <1>12 DEF CloseClient
    <3>2. client
      BY <3>1 DEF ClientWhere
    <3> QED
      BY <3>1, <3>2 DEF ClientWhere, ConnectedHasClient
  <2> QED
    BY <2>1, <2>2, <2>3, <2>4, <2>5
<1>13. CASE ClearClient
  <2>1. Names'
    BY <1>13 DEF ClearClient, Names, Locations, Closing, Stopping, Outages
  <2>2. Flags'
    BY <1>13 DEF ClearClient, Flags
  <2>3. Numbers'
    BY <1>13, LoopAssumption DEF ClearClient, Numbers, FailedSoFar, NextBackoff
  <2>4. ChildWhere' /\ FailedSoFar'
    BY <1>13 DEF ClearClient, ChildWhere, FailedSoFar, Numbers
  <2>5. ClientWhere' /\ ConnectedHasClient'
    BY <1>13 DEF ClearClient, ClientWhere, ConnectedHasClient, Flags, Outages
  <2> QED
    BY <2>1, <2>2, <2>3, <2>4, <2>5
<1>14. CASE MarkDisconnected
  <2>1. Names'
    BY <1>14 DEF MarkDisconnected, SetConnection, Names, Locations, Closing, Stopping, Outages
  <2>2. Flags'
    BY <1>14 DEF MarkDisconnected, SetConnection, Flags
  <2>3. Numbers'
    BY <1>14, LoopAssumption DEF MarkDisconnected, SetConnection, Numbers, FailedSoFar, NextBackoff
  <2>4. ChildWhere' /\ FailedSoFar'
    BY <1>14 DEF MarkDisconnected, SetConnection, ChildWhere, FailedSoFar, Numbers
  <2>5. ClientWhere' /\ ConnectedHasClient'
    BY <1>14 DEF MarkDisconnected, SetConnection, ClientWhere, ConnectedHasClient, Flags, Outages
  <2> QED
    BY <2>1, <2>2, <2>3, <2>4, <2>5
<1>15. CASE WaitBackoff
  <2>1. Names'
    BY <1>15 DEF WaitBackoff, Names, Locations, Closing, Stopping, Outages
  <2>2. Flags'
    BY <1>15 DEF WaitBackoff, Flags
  <2>3. Numbers'
    BY <1>15, LoopAssumption DEF WaitBackoff, Numbers, FailedSoFar, NextBackoff
  <2>4. ChildWhere' /\ FailedSoFar'
    BY <1>15 DEF WaitBackoff, ChildWhere, FailedSoFar, Numbers
  <2>5. ClientWhere' /\ ConnectedHasClient'
    BY <1>15 DEF WaitBackoff, ClientWhere, ConnectedHasClient, Flags, Outages
  <2> QED
    BY <2>1, <2>2, <2>3, <2>4, <2>5
<1>16. CASE ChildDies
  <2>1. Names'
    BY <1>16 DEF ChildDies, Fault, loopVars, Names, Locations, Closing, Stopping, Outages
  <2>2. Flags'
    BY <1>16 DEF ChildDies, Fault, loopVars, Flags
  <2>3. Numbers'
    BY <1>16, LoopAssumption DEF ChildDies, Fault, loopVars, Numbers, FailedSoFar, NextBackoff
  <2>4. ChildWhere' /\ FailedSoFar'
    BY <1>16 DEF ChildDies, Fault, loopVars, ChildWhere, FailedSoFar, Numbers
  <2>5. ClientWhere' /\ ConnectedHasClient'
    BY <1>16 DEF ChildDies, Fault, loopVars, ClientWhere, ConnectedHasClient, Flags, Outages
  <2> QED
    BY <2>1, <2>2, <2>3, <2>4, <2>5
<1>17. CASE ReadLoopEnds
  <2>1. Names'
    BY <1>17 DEF ReadLoopEnds, loopVars, Names, Locations, Closing, Stopping, Outages
  <2>2. Flags'
    BY <1>17 DEF ReadLoopEnds, loopVars, Flags
  <2>3. Numbers'
    BY <1>17, LoopAssumption DEF ReadLoopEnds, loopVars, Numbers, FailedSoFar, NextBackoff
  <2>4. ChildWhere' /\ FailedSoFar'
    BY <1>17 DEF ReadLoopEnds, loopVars, ChildWhere, FailedSoFar, Numbers
  <2>5. ClientWhere' /\ ConnectedHasClient'
    BY <1>17 DEF ReadLoopEnds, loopVars, ClientWhere, ConnectedHasClient, Flags, Outages
  <2> QED
    BY <2>1, <2>2, <2>3, <2>4, <2>5
<1>18. CASE Shutdown
  <2>1. Names'
    BY <1>18 DEF Shutdown, loopVars, Names, Locations, Closing, Stopping, Outages
  <2>2. Flags'
    BY <1>18 DEF Shutdown, loopVars, Flags
  <2>3. Numbers'
    BY <1>18, LoopAssumption DEF Shutdown, loopVars, Numbers, FailedSoFar, NextBackoff
  <2>4. ChildWhere' /\ FailedSoFar'
    BY <1>18 DEF Shutdown, loopVars, ChildWhere, FailedSoFar, Numbers
  <2>5. ClientWhere' /\ ConnectedHasClient'
    BY <1>18 DEF Shutdown, loopVars, ClientWhere, ConnectedHasClient, Flags, Outages
  <2> QED
    BY <2>1, <2>2, <2>3, <2>4, <2>5
<1>19. CASE UNCHANGED vars
  <2>1. Names'
    BY <1>19 DEF vars, Names, Locations, Closing, Stopping, Outages
  <2>2. Flags'
    BY <1>19 DEF vars, Flags
  <2>3. Numbers'
    BY <1>19, LoopAssumption DEF vars, Numbers, FailedSoFar, NextBackoff
  <2>4. ChildWhere' /\ FailedSoFar'
    BY <1>19 DEF vars, ChildWhere, FailedSoFar, Numbers
  <2>5. ClientWhere' /\ ConnectedHasClient'
    BY <1>19 DEF vars, ClientWhere, ConnectedHasClient, Flags, Outages
  <2> QED
    BY <2>1, <2>2, <2>3, <2>4, <2>5
<1> QED
  BY <1>1, <1>2, <1>3, <1>4, <1>5, <1>6, <1>7, <1>8, <1>9, <1>10,
     <1>11, <1>12, <1>13, <1>14, <1>15, <1>16, <1>17, <1>18, <1>19 DEF Next, LoopStep

LEMMA SpecIInv == Spec => []IInv
  BY InitIInv, NextIInv, PTL DEF Spec

-----------------------------------------------------------------------------
(* The types of the loop's state; among them that the backoff never passes *)
(* its cap, which is the arithmetic of nextBackoff.                        *)
THEOREM TypeCorrect == Spec => []TypeOK
<1>1. IInv => TypeOK
  BY DEF IInv, Names, Flags, Numbers, ChildWhere, TypeOK
<1> QED
  BY <1>1, SpecIInv, PTL

(* Close is on every path between two ConnectStdio and on every path out   *)
(* of runAppServer, so a child process is never left behind.               *)
THEOREM ChildReaped == Spec => []NoLeakedChild
<1>1. IInv => NoLeakedChild
  <2>1. IInv => children \in {0, 1}
    BY DEF IInv, ChildWhere
  <2>2. IInv /\ pc \in {"top", "connect", "backoff", "stopped"} => children = 0
    BY DEF IInv, ChildWhere, Serving, Refreshing
  <2> QED
    BY <2>1, <2>2 DEF NoLeakedChild
<1> QED
  BY <1>1, SpecIInv, PTL

(* While the state published is "connected" m.client is set, but between   *)
(* clearClient and the setConnection after it.                             *)
THEOREM ConnectedIsUsable == Spec => []ConnectedHasClient
  BY SpecIInv, PTL DEF IInv
=============================================================================
