--------------------------- MODULE AppServerLoop ---------------------------
(***************************************************************************)
(* The main loop of the agent (runAppServer, refreshAppServer and          *)
(* recordAccountResult in agent/internal/monitor/monitor.go): it starts a  *)
(* codex app-server child, refreshes from it on a ticker, notices its      *)
(* death, restarts it with a backoff and publishes the connection state.   *)
(*                                                                         *)
(* The loop is one goroutine; pc is where it stands.  Each of its critical *)
(* sections and each of its requests is one action, between which the      *)
(* child may die or hang and the agent may be told to stop.                *)
(***************************************************************************)
EXTENDS Integers

CONSTANTS
  FailureThreshold,   \* cfg.AppServerFailureThreshold; 0 or less means 2
  BackoffCap,         \* 30 seconds in the code, starting from 1
  MaxFaults           \* bound: failed starts and requests, and deaths

ASSUME LoopAssumption ==
  /\ FailureThreshold \in Int
  /\ BackoffCap \in Nat \ {0}
  /\ MaxFaults \in Nat

VARIABLES
  pc,                 \* what the loop does next
  endpoint,           \* cfg.Endpoint
  connectionState,    \* snapshot.Codex.ConnectionState
  failures,           \* snapshot.Codex.ConsecutiveFailures
  failed,             \* account reads that failed in the running refresh
  backoff,            \* in seconds
  client,             \* whether m.client is set
  children,           \* child processes started and not yet waited for
  child,              \* the current one: "none", "running" or "dead"
  done,               \* its read loop has ended: client.Done() is ready
  shutdown,           \* ctx is cancelled
  faults,
  outage,             \* history: an outage was published since the last connection
  recovered           \* history: the last connection emitted agent_recovered

vars == <<pc, endpoint, connectionState, failures, failed, backoff, client,
          children, child, done, shutdown, faults, outage, recovered>>

Refreshing == {"thread/list", "thread/loaded/list", "account/usage/read",
               "account/rateLimits/read", "record", "publish"}
Closing == {"close", "clear", "mark"}
Stopping == {"close and return", "clear and return"}
Locations == {"top", "connect", "select", "backoff", "stopped"}
               \cup Refreshing \cup Closing \cup Stopping
Outages == {"recovering", "disconnected", "error"}

TypeOK ==
  /\ pc \in Locations
  /\ endpoint \in {"auto", "stdio", "unsupported"}
  /\ connectionState \in {"connecting", "connected"} \cup Outages
  /\ failures \in Nat
  /\ failed \in 0..2
  /\ backoff \in 1..BackoffCap
  /\ client \in BOOLEAN
  /\ children \in Nat
  /\ child \in {"none", "running", "dead"}
  /\ done \in BOOLEAN
  /\ shutdown \in BOOLEAN
  /\ faults \in 0..MaxFaults
  /\ outage \in BOOLEAN
  /\ recovered \in BOOLEAN

Init ==
  /\ pc = "top"
  /\ endpoint \in {"auto", "stdio", "unsupported"}
  /\ connectionState = "connecting"
  /\ failures = 0 /\ failed = 0
  /\ backoff = 1
  /\ client = FALSE
  /\ children = 0
  /\ child = "none"
  /\ done = FALSE
  /\ shutdown = FALSE
  /\ faults = 0
  /\ outage = FALSE
  /\ recovered = FALSE

-----------------------------------------------------------------------------
Threshold == IF FailureThreshold > 0 THEN FailureThreshold ELSE 2

(* Mutant: the backoff is doubled without its cap. *)
MutNextBackoff(b) == b * 2
NextBackoff(b) == IF b * 2 > BackoffCap THEN BackoffCap ELSE b * 2

childVars == <<client, children, child, done>>
envVars == <<endpoint, shutdown>>

(* Something goes wrong that need not have: within the bound. *)
Fault == faults < MaxFaults /\ faults' = faults + 1

SetConnection(state) ==
  /\ connectionState' = state
  /\ outage' = (outage \/ state \in Outages)

(* The head of the loop: return when stopped, otherwise "connecting". *)
Top ==
  /\ pc = "top"
  /\ IF shutdown
     THEN pc' = "stopped" /\ UNCHANGED <<connectionState, outage>>
     ELSE pc' = "connect" /\ SetConnection("connecting")
  /\ UNCHANGED <<failures, failed, backoff, childVars, envVars, faults, recovered>>

RefuseEndpoint ==
  /\ pc = "connect"
  /\ endpoint = "unsupported"
  /\ SetConnection("error")
  /\ pc' = "stopped"
  /\ UNCHANGED <<failures, failed, backoff, childVars, envVars, faults, recovered>>

(* Mutant: the loop gives up after a failed start. *)
MutConnectFails ==
  /\ pc = "connect"
  /\ endpoint # "unsupported"
  /\ Fault \/ (shutdown /\ UNCHANGED faults)
  /\ SetConnection("error")
  /\ pc' = "stopped"
  /\ UNCHANGED <<failures, failed, backoff, childVars, envVars, recovered>>

(* ConnectStdio fails, or its initialize does: it has reaped the child.    *)
(* It fails of itself once the context is cancelled.                       *)
ConnectFails ==
  /\ pc = "connect"
  /\ endpoint # "unsupported"
  /\ Fault \/ (shutdown /\ UNCHANGED faults)
  /\ SetConnection("error")
  /\ pc' = "backoff"
  /\ UNCHANGED <<failures, failed, backoff, childVars, envVars, recovered>>

(* The child answered initialize; agent_recovered when an outage was the   *)
(* state before, as this critical section sees it.                         *)
ConnectSucceeds ==
  /\ pc = "connect"
  /\ endpoint # "unsupported"
  /\ children' = children + 1
  /\ child' = "running"
  /\ done' = FALSE
  /\ backoff' = 1
  /\ client' = TRUE
  /\ connectionState' = "connected"
  /\ recovered' = (connectionState \in Outages)
  /\ outage' = FALSE
  /\ pc' = "thread/list"
  /\ UNCHANGED <<failures, failed, envVars, faults>>

(* A request to the child: it may always fail or time out, and does when   *)
(* the child is dead; a cancelled context may fail it as well.             *)
RequestSucceeds == child = "running" /\ UNCHANGED faults
RequestFails == Fault \/ ((child = "dead" \/ shutdown) /\ UNCHANGED faults)

(* Mutant: a failed refresh clears the client without closing it. *)
MutThreadList ==
  /\ pc = "thread/list"
  /\ failed' = 0
  /\ \/ RequestSucceeds /\ pc' = "thread/loaded/list"
     \/ RequestFails /\ pc' = "clear"
  /\ UNCHANGED <<connectionState, failures, backoff, childVars, envVars, outage, recovered>>

ThreadList ==
  /\ pc = "thread/list"
  /\ failed' = 0
  /\ \/ RequestSucceeds /\ pc' = "thread/loaded/list"
     \/ RequestFails /\ pc' = "close"
  /\ UNCHANGED <<connectionState, failures, backoff, childVars, envVars, outage, recovered>>

(* Its error is ignored. *)
LoadedList ==
  /\ pc = "thread/loaded/list"
  /\ RequestSucceeds \/ RequestFails
  /\ pc' = "account/usage/read"
  /\ UNCHANGED <<connectionState, failures, failed, backoff, childVars, envVars,
                 outage, recovered>>

AccountRead(method, next) ==
  /\ pc = method
  /\ \/ RequestSucceeds /\ UNCHANGED failed
     \/ RequestFails /\ failed' = failed + 1
  /\ pc' = next
  /\ UNCHANGED <<connectionState, failures, backoff, childVars, envVars, outage, recovered>>

(* The counter belongs to the snapshot: a new connection does not reset it. *)
RecordAccountResult ==
  /\ pc = "record"
  /\ failures' = IF failed = 0 THEN 0 ELSE failures + 1
  /\ IF failed > 0 /\ failures' >= Threshold
     THEN SetConnection("recovering")
     ELSE UNCHANGED <<connectionState, outage>>
  /\ pc' = "publish"
  /\ UNCHANGED <<failed, backoff, childVars, envVars, faults, recovered>>

Publish ==
  /\ pc = "publish"
  /\ IF failed = 0 THEN SetConnection("connected")
                   ELSE UNCHANGED <<connectionState, outage>>
  /\ pc' = IF failed > 0 /\ failures >= Threshold THEN "close" ELSE "select"
  /\ UNCHANGED <<failures, failed, backoff, childVars, envVars, faults, recovered>>

(* Mutant: a stopped loop returns without closing the client. *)
MutSelect ==
  /\ pc = "select"
  /\ \/ shutdown /\ pc' = "clear and return"
     \/ done /\ pc' = "close"
     \/ pc' = "thread/list"
  /\ UNCHANGED <<connectionState, failures, failed, backoff, childVars, envVars,
                 faults, outage, recovered>>

(* The select of the connected loop: stopped, child gone, or ticker. *)
Select ==
  /\ pc = "select"
  /\ \/ shutdown /\ pc' = "close and return"
     \/ done /\ pc' = "close"
     \/ pc' = "thread/list"
  /\ UNCHANGED <<connectionState, failures, failed, backoff, childVars, envVars,
                 faults, outage, recovered>>

(* client.Close kills the child and waits for it. *)
CloseClient ==
  /\ pc \in {"close", "close and return"}
  /\ children' = children - 1
  /\ child' = "none"
  /\ pc' = IF pc = "close" THEN "clear" ELSE "clear and return"
  /\ UNCHANGED <<connectionState, failures, failed, backoff, client, done, envVars,
                 faults, outage, recovered>>

ClearClient ==
  /\ pc \in {"clear", "clear and return"}
  /\ client' = FALSE
  /\ pc' = IF pc = "clear" THEN "mark" ELSE "stopped"
  /\ UNCHANGED <<connectionState, failures, failed, backoff, children, child, done,
                 envVars, faults, outage, recovered>>

(* Mutant: the end of a connection is not published. *)
MutMarkDisconnected ==
  /\ pc = "mark"
  /\ pc' = "backoff"
  /\ UNCHANGED <<connectionState, failures, failed, backoff, childVars, envVars,
                 faults, outage, recovered>>

MarkDisconnected ==
  /\ pc = "mark"
  /\ SetConnection("disconnected")
  /\ pc' = "backoff"
  /\ UNCHANGED <<failures, failed, backoff, childVars, envVars, faults, recovered>>

(* waitContext(ctx, backoff), then nextBackoff. *)
WaitBackoff ==
  /\ pc = "backoff"
  /\ \/ shutdown /\ pc' = "stopped" /\ UNCHANGED backoff
     \/ pc' = "top" /\ backoff' = NextBackoff(backoff)
  /\ UNCHANGED <<connectionState, failures, failed, childVars, envVars, faults,
                 outage, recovered>>

LoopStep ==
  \/ Top \/ RefuseEndpoint \/ ConnectFails \/ ConnectSucceeds
  \/ ThreadList \/ LoadedList
  \/ AccountRead("account/usage/read", "account/rateLimits/read")
  \/ AccountRead("account/rateLimits/read", "record")
  \/ RecordAccountResult \/ Publish
  \/ Select \/ CloseClient \/ ClearClient \/ MarkDisconnected \/ WaitBackoff

-----------------------------------------------------------------------------
loopVars == <<pc, connectionState, failures, failed, backoff, client, children,
              endpoint, outage, recovered>>

(* The child dies by itself, or is killed with the context it was made of. *)
ChildDies ==
  /\ child = "running"
  /\ Fault \/ (shutdown /\ UNCHANGED faults)
  /\ child' = "dead"
  /\ UNCHANGED <<loopVars, done, shutdown>>

ReadLoopEnds ==
  /\ child = "dead" \/ (child = "none" /\ client)
  /\ ~done
  /\ done' = TRUE
  /\ UNCHANGED <<loopVars, child, shutdown, faults>>

Shutdown ==
  /\ ~shutdown
  /\ shutdown' = TRUE
  /\ UNCHANGED <<loopVars, child, done, faults>>

Next == LoopStep \/ ChildDies \/ ReadLoopEnds \/ Shutdown

(* The goroutines run; every wait of the loop has a timer or a timeout.    *)
(* The ticker keeps the loop from waiting on select for ever.              *)
Spec == Init /\ [][Next]_vars /\ WF_vars(LoopStep) /\ WF_vars(ReadLoopEnds)
             /\ WF_vars(shutdown /\ ChildDies)

-----------------------------------------------------------------------------
(* A child is started only when the one before was killed and waited for,  *)
(* on every path out of the connected loop, and none survives the loop.    *)
NoLeakedChild ==
  /\ children <= 1
  /\ pc \in {"top", "connect", "backoff", "stopped"} => children = 0

(* The published state tells the truth: "connected" only while the actions *)
(* have a client to use, but for the moment between clearClient and        *)
(* setConnection, and after a stop, when nobody is left to publish.        *)
ConnectedHasClient ==
  connectionState = "connected" => client \/ pc \in {"mark", "stopped"}

(* The agent_recovered event announces each connection that ends an outage *)
(* it had published (the event is in the contract's list of types).  The   *)
(* loop publishes "connecting" before it looks at the previous state.      *)
RecoveryAnnounced ==
  [][pc = "connect" /\ pc' = "thread/list" /\ outage => recovered']_vars

(* Once faults stop the agent is connected for good, unless it is told to  *)
(* stop or its endpoint is not one it knows.                               *)
EventuallyConnected ==
  <>[](connectionState = "connected" \/ shutdown \/ endpoint = "unsupported")

(* Told to stop, the loop returns and leaves no child behind, whatever it  *)
(* was doing and whatever the child does.                                  *)
ShutdownStops == shutdown ~> (pc = "stopped" /\ children = 0)
=============================================================================
