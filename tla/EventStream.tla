---------------------------- MODULE EventStream ----------------------------
(***************************************************************************)
(* The agent's event hub (agent/internal/monitor/events.go, Subscribe in   *)
(* monitor.go) together with the SSE handler goroutines of                 *)
(* agent/internal/httpapi/server.go that drain it.                         *)
(*                                                                         *)
(* One mutex guards the snapshot, the event history and the set of         *)
(* subscriber channels.  A rebuild holds it while it emits its task events *)
(* one by one and then broadcasts the snapshot; the handlers drain their   *)
(* channels without it, so a channel may gain room between two sends of    *)
(* one rebuild.                                                            *)
(***************************************************************************)
EXTENDS Naturals, Sequences, FiniteSets

CONSTANTS
  Conns,          \* SSE requests (handler goroutine, channel, response body)
  Contents,       \* what snapshotStreamSignature tells apart
  HistoryLimit,   \* eventHistoryLimit, 256 in the code
  ChannelCap,     \* capacity of a subscriber channel, 300 in the code
  MaxSequence,    \* bound: task events emitted
  MaxRebuilds,    \* bound: calls of rebuildLocked
  MaxBatch        \* bound: task events of one rebuild

ASSUME LimitsAssumption ==
  /\ HistoryLimit \in Nat \ {0}
  /\ ChannelCap \in Nat
  /\ HistoryLimit <= ChannelCap

ASSUME BoundsAssumption ==
  /\ MaxSequence \in Nat
  /\ MaxRebuilds \in Nat
  /\ MaxBatch \in Nat
  /\ Contents # {}

VARIABLES
  mu,               \* "free", "rebuild", or "replay": Subscribe blocked inside
  emitLeft,         \* transitions the running rebuild has still to emit
  snapshot,         \* m.snapshot: GeneratedAt and everything else
  streamReady, streamSignature,
  eventSequence, eventHistory,
  subs,             \* m.subs: the registered channels
  chan,             \* the buffered messages of each channel
  handler,          \* where the goroutine of each request is
  after,            \* its afterSequence
  current,          \* the snapshot Subscribe copied under the lock
  wire,             \* what is written to its response body and not yet read
  lost              \* history variable: requests one of whose sends was dropped

hubVars == <<mu, emitLeft, snapshot, streamReady, streamSignature,
             eventSequence, eventHistory>>
connVars == <<subs, chan, handler, after, current, wire, lost>>
vars == <<hubVars, connVars>>

(* Mutant: the id is read before it is incremented. *)
MutTaskActivity(id) == [event |-> "task_activity", sequence |-> id - 1]

TaskActivity(id) == [event |-> "task_activity", sequence |-> id]
SnapshotMessage(s) == [event |-> "snapshot", snapshot |-> s]

Snapshots == [generatedAt : 0..MaxRebuilds, content : Contents]
Messages == [event : {"task_activity"}, sequence : 1..MaxSequence]
              \cup [event : {"snapshot"}, snapshot : Snapshots]

(* snapshotStreamSignature: GeneratedAt and the other clocks are zeroed. *)
Signature(s) == s.content

TypeOK ==
  /\ mu \in {"free", "rebuild", "replay"}
  /\ emitLeft \in 0..MaxBatch
  /\ eventSequence + emitLeft <= MaxSequence
  /\ snapshot \in Snapshots
  /\ streamReady \in BOOLEAN
  /\ streamSignature \in Contents
  /\ eventSequence \in 0..MaxSequence
  /\ eventHistory \in Seq(1..MaxSequence)
  /\ subs \subseteq Conns
  /\ chan \in [Conns -> Seq(Messages)]
  /\ handler \in [Conns -> {"idle", "subscribing", "streaming"}]
  /\ after \in [Conns -> 0..MaxSequence]
  /\ current \in [Conns -> Snapshots]
  /\ wire \in [Conns -> Seq(Messages)]
  /\ lost \subseteq Conns

-----------------------------------------------------------------------------
(* The hub as New leaves it: empty history, nothing broadcast yet. *)
HubInit ==
  /\ mu = "free"
  /\ emitLeft = 0
  /\ \E c \in Contents : snapshot = [generatedAt |-> 0, content |-> c]
  /\ streamReady = FALSE
  /\ streamSignature = snapshot.content
  /\ eventSequence = 0
  /\ eventHistory = <<>>

Init ==
  /\ HubInit
  /\ subs = {}
  /\ chan = [c \in Conns |-> <<>>]
  /\ handler = [c \in Conns |-> "idle"]
  /\ after = [c \in Conns |-> 0]
  /\ current = [c \in Conns |-> snapshot]
  /\ wire = [c \in Conns |-> <<>>]
  /\ lost = {}

(* Mutant: the send waits for room instead of giving up. *)
MutBlockingOffer(message) ==
  /\ \A c \in subs : Len(chan[c]) < ChannelCap
  /\ chan' = [c \in Conns |-> IF c \in subs THEN Append(chan[c], message) ELSE chan[c]]
  /\ UNCHANGED lost

(* Mutant: a channel counts as registered only once Subscribe has returned. *)
MutLateOffer(message) ==
  /\ chan' = [c \in Conns |->
                IF c \in subs /\ handler[c] = "streaming" /\ Len(chan[c]) < ChannelCap
                THEN Append(chan[c], message)
                ELSE chan[c]]
  /\ lost' = lost \cup {c \in subs : Len(chan[c]) >= ChannelCap}

(* select { case ch <- message: default: }, for every registered channel. *)
Offer(message) ==
  /\ chan' = [c \in Conns |->
                IF c \in subs /\ Len(chan[c]) < ChannelCap
                THEN Append(chan[c], message)
                ELSE chan[c]]
  /\ lost' = lost \cup {c \in subs : Len(chan[c]) >= ChannelCap}

(* Mutants: a full history refuses new events; the history is never trimmed. *)
MutRememberOldest(id) ==
  IF Len(eventHistory) < HistoryLimit THEN Append(eventHistory, id) ELSE eventHistory
MutRememberAll(id) == Append(eventHistory, id)

(* eventHistory after one more event, trimmed to its newest HistoryLimit. *)
Remember(id) ==
  LET longer == Append(eventHistory, id)
  IN IF Len(longer) > HistoryLimit
     THEN SubSeq(longer, Len(longer) - HistoryLimit + 1, Len(longer))
     ELSE longer

(* rebuildLocked takes the lock and replaces the snapshot.  Events are the *)
(* state and request changes of its threads: none without a new content.   *)
(* What recordAccountResult changed (ConsecutiveFailures) stays changed.   *)
BeginRebuild(content, events) ==
  /\ mu = "free"
  /\ snapshot.generatedAt < MaxRebuilds
  /\ eventSequence + events <= MaxSequence
  /\ streamReady /\ (events > 0 \/ Signature(snapshot) # streamSignature)
       => content # streamSignature
  /\ mu' = "rebuild"
  /\ emitLeft' = events
  /\ snapshot' = [generatedAt |-> snapshot.generatedAt + 1, content |-> content]
  /\ UNCHANGED <<streamReady, streamSignature, eventSequence, eventHistory, connVars>>

(* Mutant: the change is taken for one that was broadcast. *)
MutRecordAccountResult(content) ==
  /\ mu = "free"
  /\ streamReady
  /\ content # snapshot.content
  /\ snapshot' = [snapshot EXCEPT !.content = content]
  /\ streamSignature' = content
  /\ UNCHANGED <<mu, emitLeft, streamReady, eventSequence, eventHistory, connVars>>

(* recordAccountResult changes the connection state and the error without  *)
(* a rebuild; refreshAppServer rebuilds in its next critical section.      *)
RecordAccountResult(content) ==
  /\ mu = "free"
  /\ streamReady /\ Signature(snapshot) = streamSignature
  /\ content # snapshot.content
  /\ snapshot.generatedAt < MaxRebuilds
  /\ snapshot' = [snapshot EXCEPT !.content = content]
  /\ UNCHANGED <<mu, emitLeft, streamReady, streamSignature, eventSequence,
                 eventHistory, connVars>>

EmitTaskEvent ==
  /\ mu = "rebuild"
  /\ emitLeft > 0
  /\ emitLeft' = emitLeft - 1
  /\ eventSequence' = eventSequence + 1
  /\ eventHistory' = Remember(eventSequence + 1)
  /\ Offer(TaskActivity(eventSequence + 1))
  /\ UNCHANGED <<mu, snapshot, streamReady, streamSignature,
                 subs, handler, after, current, wire>>

(* broadcastSnapshotLocked, and the unlock that follows it. *)
BroadcastSnapshot ==
  /\ mu = "rebuild"
  /\ emitLeft = 0
  /\ mu' = "free"
  /\ IF streamReady /\ Signature(snapshot) = streamSignature
     THEN UNCHANGED <<streamReady, streamSignature, chan, lost>>
     ELSE /\ streamReady' = TRUE
          /\ streamSignature' = Signature(snapshot)
          /\ Offer(SnapshotMessage(snapshot))
  /\ UNCHANGED <<emitLeft, snapshot, eventSequence, eventHistory,
                 subs, handler, after, current, wire>>

(* Mutant: the replay runs from the newest event. *)
MutReplayNewestFirst(cursor) ==
  LET n == Len(eventHistory)
      missed == Cardinality({i \in 1..n : eventHistory[i] > cursor})
  IN [i \in 1..missed |-> TaskActivity(eventHistory[n + 1 - i])]

(* The retained events with a greater id, oldest first.  The history is in *)
(* increasing order, so they are what follows the ids up to the cursor.    *)
Replay(cursor) ==
  LET seen == Cardinality({i \in 1..Len(eventHistory) : eventHistory[i] <= cursor})
      missed == SubSeq(eventHistory, seen + 1, Len(eventHistory))
  IN [i \in 1..Len(missed) |-> TaskActivity(missed[i])]

(* Subscribe up to its unlock.  The sends of the replay block when the     *)
(* channel is full, and nobody reads it before Subscribe returns.          *)
Subscribe(c, cursor) ==
  /\ mu = "free"
  /\ handler[c] = "idle"
  /\ handler' = [handler EXCEPT ![c] = "subscribing"]
  /\ subs' = subs \cup {c}
  /\ after' = [after EXCEPT ![c] = cursor]
  /\ current' = [current EXCEPT ![c] = snapshot]
  /\ chan' = [chan EXCEPT ![c] = Replay(cursor)]
  /\ mu' = IF Len(Replay(cursor)) > ChannelCap THEN "replay" ELSE "free"
  /\ wire' = [wire EXCEPT ![c] = <<>>]
  /\ lost' = lost \ {c}
  /\ UNCHANGED <<emitLeft, snapshot, streamReady, streamSignature,
                 eventSequence, eventHistory>>

(* The blocking send of the copied snapshot, after the unlock. *)
FinishSubscribe(c) ==
  /\ mu # "replay"
  /\ handler[c] = "subscribing"
  /\ Len(chan[c]) < ChannelCap
  /\ chan' = [chan EXCEPT ![c] = Append(@, SnapshotMessage(current[c]))]
  /\ handler' = [handler EXCEPT ![c] = "streaming"]
  /\ UNCHANGED <<hubVars, subs, after, current, wire, lost>>

(* handleEvents writes the next message of its channel and flushes it. *)
WriteMessage(c) ==
  /\ handler[c] = "streaming"
  /\ chan[c] # <<>>
  /\ wire' = [wire EXCEPT ![c] = Append(@, Head(chan[c]))]
  /\ chan' = [chan EXCEPT ![c] = Tail(@)]
  /\ UNCHANGED <<hubVars, subs, handler, after, current, lost>>

(* The request's context ends: the deferred unsubscribe closes the channel *)
(* and the response is over.                                               *)
Unsubscribe(c) ==
  /\ mu = "free"
  /\ handler[c] = "streaming"
  /\ handler' = [handler EXCEPT ![c] = "idle"]
  /\ subs' = subs \ {c}
  /\ chan' = [chan EXCEPT ![c] = <<>>]
  /\ wire' = [wire EXCEPT ![c] = <<>>]
  /\ after' = [after EXCEPT ![c] = 0]
  /\ lost' = lost \ {c}
  /\ UNCHANGED <<hubVars, current>>

HubNext ==
  \/ \E content \in Contents, events \in 0..MaxBatch : BeginRebuild(content, events)
  \/ \E content \in Contents : RecordAccountResult(content)
  \/ EmitTaskEvent
  \/ BroadcastSnapshot

Next ==
  \/ HubNext
  \/ \E c \in Conns :
       \/ \E cursor \in 0..MaxSequence : Subscribe(c, cursor)
       \/ FinishSubscribe(c)
       \/ WriteMessage(c)
       \/ Unsubscribe(c)

(* A goroutine that holds the lock keeps running; no reader is fair. *)
Spec == Init /\ [][Next]_vars /\ WF_vars(EmitTaskEvent) /\ WF_vars(BroadcastSnapshot)

-----------------------------------------------------------------------------
Elements(s) == {s[i] : i \in 1..Len(s)}

(* Everything request c was sent and nobody has read: all of it, here. *)
Stream(c) == wire[c] \o chan[c]

(* The places of one kind of message in it, and its task ids. *)
Sent(c, event) == {i \in 1..Len(Stream(c)) : Stream(c)[i].event = event}
TaskIds(c) == {Stream(c)[i].sequence : i \in Sent(c, "task_activity")}

IsNewest(i, places) == i \in places /\ \A k \in places : k <= i

(* The history is the newest HistoryLimit ids, without a hole, so that a   *)
(* Last-Event-ID inside it can be answered exactly (emitTaskEventLocked).  *)
HistoryIsSuffix ==
  /\ Len(eventHistory) = IF eventSequence < HistoryLimit THEN eventSequence
                                                         ELSE HistoryLimit
  /\ \A i \in 1..Len(eventHistory) :
       eventHistory[i] = eventSequence - Len(eventHistory) + i

(* Subscribe never blocks on its own channel while it holds the lock: the  *)
(* replay of a full history fits, or the whole agent would stop.           *)
ReplayNeverBlocks == mu # "replay"

(* A request sees each task event at most once and in increasing order,    *)
(* however the replay of Subscribe and the live sends interleave.          *)
StreamIdsIncrease ==
  \A c \in Conns : \A i, j \in Sent(c, "task_activity") :
    i < j => Stream(c)[i].sequence < Stream(c)[j].sequence

(* Unless a send of its own was dropped on a full channel, a subscriber    *)
(* has every retained event after its cursor and no hole up to the newest. *)
NoHoleWithoutDrop ==
  \A c \in subs \ lost :
    /\ \E first \in 1..(eventSequence + 1) : TaskIds(c) = first..eventSequence
    /\ \A id \in Elements(eventHistory) : id > after[c] => id \in TaskIds(c)

(* Nothing is left to write, and nothing changed since the last broadcast. *)
Drained(c) ==
  /\ mu = "free"
  /\ streamReady => Signature(snapshot) = streamSignature
  /\ c \in subs \ lost
  /\ handler[c] = "streaming"
  /\ chan[c] = <<>>

(* "... followed by a current snapshot": once everything is written, the   *)
(* last snapshot of the stream is the current one up to its timestamps.    *)
DrainedIsCurrent ==
  \A c \in Conns : Drained(c) =>
    \E i \in Sent(c, "snapshot") :
      /\ IsNewest(i, Sent(c, "snapshot"))
      /\ Signature(Stream(c)[i].snapshot) = Signature(snapshot)

(* What the code does promise: a drained stream ends with the current      *)
(* snapshot, or with the copy Subscribe took under the lock and sent after *)
(* it, and then the current one was written just before that copy.         *)
StaleOnlyBySubscribeCopy ==
  \A c \in Conns : Drained(c) =>
    LET sent == Sent(c, "snapshot")
        IsCurrent(i) == Signature(Stream(c)[i].snapshot) = Signature(snapshot)
    IN \E i \in sent :
         /\ IsNewest(i, sent)
         /\ \/ IsCurrent(i)
            \/ /\ Stream(c)[i].snapshot = current[c]
               /\ \E j \in sent : IsNewest(j, sent \ {i}) /\ IsCurrent(j)

(* A slow or dead reader never keeps the agent's lock: whoever holds it    *)
(* releases it though no handler ever runs (the non-blocking sends).       *)
LockReleased == mu # "free" ~> mu = "free"
=============================================================================
