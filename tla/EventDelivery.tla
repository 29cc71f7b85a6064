--------------------------- MODULE EventDelivery ---------------------------
(***************************************************************************)
(* The event hub of the agent composed with the one reader Home Assistant  *)
(* keeps per config entry: CodexMonitorCoordinator._async_stream_loop      *)
(* (custom_components/codex_monitor/coordinator.py) reading                *)
(* CodexMonitorApi.async_listen_events.  The reader reconnects with its    *)
(* Last-Event-ID after a lost connection and after a gap in the ids; the   *)
(* agent may restart, which empties its history and restarts its ids; the  *)
(* entry may be reloaded, whose new coordinator has no cursor.             *)
(***************************************************************************)
EXTENDS EventStream

CONSTANTS
  None,         \* Python's None
  MaxLosses,    \* bound: connections lost for no reason of the protocol, and reloads
  MaxRestarts   \* bound: restarts of the agent process

ASSUME DeliveryBounds == MaxLosses \in Nat /\ MaxRestarts \in Nat /\ Conns # {}

(* None is neither an id nor a retry mark. *)
ASSUME NoneAssumption ==
  None \notin (0..MaxSequence) \cup ((0..MaxSequence) \X (0..MaxSequence))

VARIABLES
  stream,       \* "closed" (also while it backs off) or "open"
  conn,         \* the request whose response it reads
  lastEventId,  \* _last_event_id
  gapRetry,     \* _event_gap_retry
  delivered,    \* history variable: ids this coordinator gave to its listeners,
                \* this agent life
  losses, restarts

haVars == <<stream, conn, lastEventId, gapRetry, delivered, losses, restarts>>
allVars == <<vars, haVars>>

Ids == 0..MaxSequence

DeliveryTypeOK ==
  /\ TypeOK
  /\ stream \in {"closed", "open"}
  /\ conn \in Conns
  /\ lastEventId \in Ids \cup {None}
  /\ gapRetry \in (Ids \X Ids) \cup {None}
  /\ delivered \in Seq(1..MaxSequence)
  /\ losses \in 0..MaxLosses
  /\ restarts \in 0..MaxRestarts

DeliveryInit ==
  /\ Init
  /\ stream = "closed"
  /\ conn = CHOOSE c \in Conns : TRUE
  /\ lastEventId = None
  /\ gapRetry = None
  /\ delivered = <<>>
  /\ losses = 0
  /\ restarts = 0

-----------------------------------------------------------------------------
(* Mutants: the cursor names the id expected next; gaps are accepted; a gap *)
(* that the reconnect did not close is retried for ever.                   *)
MutCursorIsNext(previous, id, repeatedGap) ==
  [cursor |-> id + 1, retry |-> None, gap |-> FALSE]
MutAcceptGaps(previous, id, repeatedGap) ==
  [cursor |-> id, retry |-> None, gap |-> FALSE]
MutRetryForever(previous, id, repeatedGap) ==
  IF previous = None \/ id <= previous + 1
  THEN [cursor |-> id, retry |-> None, gap |-> FALSE]
  ELSE [cursor |-> previous, retry |-> <<previous, id>>, gap |-> TRUE]

(* _advance_event_cursor: the new cursor, the new retry mark, and whether  *)
(* the reader must reconnect.                                              *)
AdvanceEventCursor(previous, id, repeatedGap) ==
  IF previous = None \/ id <= previous + 1
  THEN [cursor |-> id, retry |-> None, gap |-> FALSE]
  ELSE IF repeatedGap = <<previous, id>>
  THEN [cursor |-> id - 1, retry |-> None, gap |-> TRUE]
  ELSE [cursor |-> previous, retry |-> <<previous, id>>, gap |-> TRUE]

(* async_listen_events connects with the cursor as Last-Event-ID; without  *)
(* one handleEvents starts from 0.                                         *)
OpenStream(c) ==
  /\ stream = "closed"
  /\ Subscribe(c, IF lastEventId = None THEN 0 ELSE lastEventId)
  /\ stream' = "open"
  /\ conn' = c
  /\ UNCHANGED <<lastEventId, gapRetry, delivered, losses, restarts>>

(* One turn of the async for: a snapshot replaces the coordinator's data,  *)
(* a task event goes to the listeners unless its id leaves a gap; then the *)
(* loop ends with an error and the connection is given up.                 *)
ReadMessage ==
  /\ stream = "open"
  /\ wire[conn] # <<>>
  /\ wire' = [wire EXCEPT ![conn] = Tail(@)]
  /\ LET message == Head(wire[conn])
     IN IF message.event = "snapshot"
        THEN UNCHANGED <<stream, lastEventId, gapRetry, delivered>>
        ELSE LET step == AdvanceEventCursor(lastEventId, message.sequence, gapRetry)
             IN /\ lastEventId' = step.cursor
                /\ gapRetry' = step.retry
                /\ stream' = IF step.gap THEN "closed" ELSE "open"
                /\ delivered' = IF step.gap THEN delivered
                                            ELSE Append(delivered, message.sequence)
  /\ UNCHANGED <<hubVars, subs, chan, handler, after, current, lost,
                 conn, losses, restarts>>

(* The connection breaks; unread bytes are lost with it. *)
LoseStream ==
  /\ stream = "open"
  /\ losses < MaxLosses
  /\ losses' = losses + 1
  /\ stream' = "closed"
  /\ UNCHANGED <<vars, conn, lastEventId, gapRetry, delivered, restarts>>

(* The entry is unloaded and set up again: async_shutdown cancels the      *)
(* stream, and the new coordinator has no cursor, so that the agent sends  *)
(* all it retains once more, to new listeners.                             *)
ReloadEntry ==
  /\ losses < MaxLosses
  /\ losses' = losses + 1
  /\ stream' = "closed"
  /\ lastEventId' = None
  /\ gapRetry' = None
  /\ delivered' = <<>>
  /\ UNCHANGED <<vars, conn, restarts>>

(* sock_read=45: a handler stuck in Subscribe sends no keep-alive either. *)
SilenceTimeout ==
  /\ stream = "open"
  /\ handler[conn] = "subscribing"
  /\ Len(chan[conn]) >= ChannelCap
  /\ stream' = "closed"
  /\ UNCHANGED <<vars, conn, lastEventId, gapRetry, delivered, losses, restarts>>

(* The server cancels the context of a request whose client has gone. *)
ClientGone(c) ==
  /\ stream = "closed" \/ c # conn
  /\ Unsubscribe(c)
  /\ UNCHANGED haVars

(* A handler stuck in Subscribe with a full channel never unregisters, but *)
(* its channel takes no message any more: the slot stands for a new one.   *)
ForgetStuck(c) ==
  /\ stream = "closed" \/ c # conn
  /\ handler[c] = "subscribing"
  /\ Len(chan[c]) >= ChannelCap
  /\ handler' = [handler EXCEPT ![c] = "idle"]
  /\ subs' = subs \ {c}
  /\ chan' = [chan EXCEPT ![c] = <<>>]
  /\ after' = [after EXCEPT ![c] = 0]
  /\ lost' = lost \ {c}
  /\ UNCHANGED <<hubVars, current, wire, haVars>>

(* The agent process dies and a new one starts with what New builds. *)
RestartAgent ==
  /\ restarts < MaxRestarts
  /\ restarts' = restarts + 1
  /\ mu' = "free" /\ emitLeft' = 0
  /\ snapshot' = [snapshot EXCEPT !.generatedAt = 0]
  /\ streamReady' = FALSE /\ streamSignature' = snapshot.content
  /\ eventSequence' = 0 /\ eventHistory' = <<>>
  /\ subs' = {} /\ lost' = {}
  /\ chan' = [c \in Conns |-> <<>>]
  /\ handler' = [c \in Conns |-> "idle"]
  /\ after' = [c \in Conns |-> 0]
  /\ current' = [c \in Conns |-> snapshot']
  /\ wire' = [c \in Conns |-> <<>>]
  /\ stream' = "closed"
  /\ delivered' = <<>>
  /\ UNCHANGED <<conn, lastEventId, gapRetry, losses>>

AgentStep ==
  /\ HubNext \/ \E c \in Conns : FinishSubscribe(c) \/ WriteMessage(c)
  /\ UNCHANGED haVars

DeliveryNext ==
  \/ AgentStep
  \/ \E c \in Conns : OpenStream(c) \/ ClientGone(c) \/ ForgetStuck(c)
  \/ ReadMessage
  \/ LoseStream
  \/ ReloadEntry
  \/ SilenceTimeout
  \/ RestartAgent

DeliverySpec == DeliveryInit /\ [][DeliveryNext]_allVars

(* The goroutines of the agent and the task of the coordinator run; losses *)
(* and restarts stop eventually (their bounds).                            *)
FairDeliverySpec ==
  /\ DeliverySpec
  /\ WF_allVars(EmitTaskEvent /\ UNCHANGED haVars)
  /\ WF_allVars(BroadcastSnapshot /\ UNCHANGED haVars)
  /\ \A c \in Conns : /\ WF_allVars(FinishSubscribe(c) /\ UNCHANGED haVars)
                      /\ WF_allVars(WriteMessage(c) /\ UNCHANGED haVars)
                      /\ WF_allVars(ClientGone(c))
                      /\ WF_allVars(ForgetStuck(c))
  /\ WF_allVars(\E c \in Conns : OpenStream(c))
  /\ WF_allVars(ReadMessage)
  /\ WF_allVars(SilenceTimeout)

-----------------------------------------------------------------------------
Feed == INSTANCE EventFeed WITH
          published <- eventSequence,
          oldest <- eventSequence - Len(eventHistory) + 1,
          delivered <- delivered

(* The composition implements the feed: in one agent life the listeners of *)
(* one coordinator get increasing ids, and what is skipped between two     *)
(* deliveries had already left the agent's history (emitTaskEventLocked, Subscribe and            *)
(* _advance_event_cursor together).                                        *)
FeedSpec == Feed!Spec

(* No retained event is passed over: when an id is delivered, every lower  *)
(* id still in the agent's history has been delivered too.  The code breaks *)
(* this after an agent restart, where the cursor of the previous life is   *)
(* sent as Last-Event-ID of the new one.                                   *)
RetainedNotSkipped ==
  \A i \in 1..Len(delivered) : \A id \in Elements(eventHistory) :
    id < delivered[i] => id \in Elements(delivered)

(* When the agent stops changing, the reader ends up with the newest task  *)
(* event, through gaps, evictions and lost connections, unless a send to   *)
(* its open connection was dropped and nothing followed to reveal it.      *)
CaughtUp ==
  <>[](\/ eventSequence = 0
       \/ lastEventId = eventSequence
       \/ stream = "open" /\ conn \in lost)
=============================================================================
