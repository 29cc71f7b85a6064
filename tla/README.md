# A verification development for Codex Monitor

Codex Monitor has two programs: a Go agent (`src/agent`) that watches the Codex
CLI of one machine and serves what it sees over HTTP, and a Home Assistant
integration (`src/custom_components/codex_monitor`) that polls the agent, keeps
one event stream to it and lets automations answer Codex's questions. This
directory holds TLA+ modules of their concurrent core, the TLC configurations that
check them, and TLAPS proofs about them.

Everything is translated from the source; `PROJECT.json` names, for each
definition, the lines it stands for. The operators whose names begin with `Mut`
are deliberate mistakes: each replaces one definition in a mutation run that must
break the property it is listed with.

## Inventory

| Part | State it keeps | Operations | Interacts with |
|---|---|---|---|
| Event hub (`monitor/events.go`, `Monitor.Subscribe`) | `eventSequence`, `eventHistory` (256), `subs` (channels of 300), `streamReady`, `streamSignature` | `emitTaskEventLocked`, `broadcastSnapshotLocked`, `Subscribe`, unsubscribe | every rebuild calls it; SSE handlers drain it |
| SSE handler (`httpapi/server.go` `handleEvents`) | its channel, the response | one goroutine per request | hub, HA stream |
| Pending requests (`monitor/control.go`) | `pendingRequests`, `requestSequence` | `recordServerRequest`, `Approve`, `Reject`, `SubmitInput`, `Interrupt`, `finishPending`, resolved notifications, `clearClient` | read loops, HTTP handlers, main loop |
| App-server loop (`monitor/monitor.go` `runAppServer`) | `client`, backoff, `ConnectionState`, `ConsecutiveFailures` | start, refresh, close, back off, stop | RPC client, hub |
| RPC client (`appserver/client.go`) | `pending` (a channel per outstanding request), `nextID`, `writeMu`, `done` | `Request`, `Respond`, `Notify`, `write`, `readLoop`, `failPending`, `Close` | child process over stdio; main loop and HTTP handlers call it |
| Aggregation (`monitor.go`, `events.go`, `model.go`) | `appThreads`, `fsThreads`, `lastThreads`, `snapshot` | reconcile, notifications, `rebuildLocked`, transition events | all of the above |
| Hooks (`monitor/hooks.go`, `hookrelay`) | `hookSessions` with a TTL | `RecordHook`, `applyHooksLocked` | aggregation |
| Filesystem collector (`collector/filesystem.go`) | none (files) | scan of the newest rollouts | aggregation |
| HTTP API (`httpapi/server.go`) | none | status, threads, usage, actions, events, hooks | monitor |
| Identity, mDNS, `main.go` | one file; an announcement | load or create; announce | process start |
| HA coordinator (`coordinator.py`, `api.py`) | `data`, `_last_event_id`, `_event_gap_retry`, `_stream_task`, the repair issue | poll, stream loop, gap handling, shutdown | agent over HTTP |
| HA setup, flow, services (`__init__.py`, `config_flow.py`) | the entry (unique id, url, token), runtime data | setup, reload, unload; user, reauth, reconfigure, zeroconf steps; services | coordinator, agent |
| HA entities | none | projections of the snapshot | coordinator |

What is hard: one mutex of the agent guards the snapshot, the history, the
subscriber set and the pending table, but the three longest operations leave it in
the middle (`Subscribe` sends the snapshot after it, an action writes its answer
between two critical sections, a refresh makes four requests before it stores what
the first one said). Channels drop messages when they are full. The child process
dies, hangs and is restarted, and the read loop of the old connection may still
run. Replies come late, when their caller has given up. The stream to Home
Assistant breaks and resumes by a cursor that outlives the agent process. Polls,
pushed snapshots, reloads and flows that write the entry overlap on one event
loop, each with awaits in the middle.

What makes the parts correct: the history is an unbroken suffix of the events; a
subscriber gets each event once and in order and can tell when one is missing; no
reader ever stops the agent; a missing event is replayed if it can be and passed
over only if it cannot; an answer goes to the connection that asked, once; a
request is pending exactly while it can be answered; there is one child at a time
and none afterwards; a call gets its own reply or an error and always ends; the
published state is true and its most pressing thread is the one shown; an outage
and its end are both announced; what Home Assistant shows is what the agent at the
stored address says, old data comes back only if it was already in flight, and a
rejected token leads to a new one.

## Modules

* `EventStream`: hub and SSE handlers. A rebuild holds `mu` from `BeginRebuild`
  over one `EmitTaskEvent` per event to `BroadcastSnapshot`, because channels are
  drained without the lock in between. `Subscribe` is the critical section of the
  code; `FinishSubscribe` is the blocking send after it. A handler is `idle`,
  `subscribing` or `streaming`; `wire` is what it wrote and its client has not
  read. A snapshot is a time and a content, the content being all that
  `snapshotStreamSignature` tells apart. `lost` is a history variable. A rebuild
  chooses any content and any number of events up to a bound; the one relation it
  keeps is that an event is a change of the content.
* `EventFeed`: the abstract specification. An agent life publishes 1, 2, 3, ...
  and retains a suffix; listeners get increasing ids and between two consecutive
  deliveries miss only what was no longer retained. New listeners begin anew.
* `EventDelivery` extends `EventStream` by the one reader Home Assistant has:
  `OpenStream` is a `Subscribe` with the cursor, `ReadMessage` one turn of the
  `async for` with `_advance_event_cursor`, `LoseStream` a broken connection,
  `SilenceTimeout` the 45 seconds without a byte, `RestartAgent` a new agent
  process, `ReloadEntry` a reload of the config entry: its new coordinator has no
  cursor (`coordinator.py:42`), so the new listeners get again what the old ones
  were told, as far as it is retained. `Feed == INSTANCE EventFeed` is the
  refinement mapping. The stream's end at a rejected token, its snapshots and the
  poll are in `HaEntry`.
* `PendingControl`: the pending table, the actions as `Workers` with a step per
  critical section, the connections as `Clients` with an `inbox` of lines and a
  read loop each. `closed` and `ClearClient` are the two steps of the main loop. A
  turn stands for the pair of thread and turn id; ids of the app-server start
  again on each connection. What the app-server asks and settles, and when it
  dies, is the environment. A request that arrives before `ConnectStdio` has
  returned, which needs a turn nobody has started, is left out.
* `AppServerLoop`: `runAppServer` with a program counter, one action per critical
  section and per request to the child. Requests fail for a fault, for a dead
  child or for a cancelled context. `outage` and `recovered` are history
  variables.
* `Monitor`: what the agent publishes and tells. The sources (`appThreads`,
  `fsThreads`, `hookSessions`, `pendingRequests`) are written by one action per
  critical section, each of which is a `Rebuild`: `Compose` is the chain of
  `mergeThreads`, `applyHooksLocked`, `decoratePendingRequestsLocked` and
  `assignThreadHierarchy`, `Summarize` the summary, `Transitions` the events.
  `refreshAppServer` is `BeginRefresh`, `HandleList` and `FinishRefresh`, because
  notifications are handled between its first reply and its store; `Interrupt` is
  `SendInterrupt` and `Interrupt`. Replies and notifications share one `inbox`, as
  they share one pipe. A thread is its state, turn status, parent, root and
  request; times are left out, with them the order of threads, and a hook is old
  or not. `served`, `files` and `asked` are the world outside. `told` is a history
  variable: what a reader of the events and of the first snapshot knows of each
  thread. A connection ends in `clearClient` at any time: it takes the requests
  away and leaves `appThreads`, `former` are the requests that a closed app-server
  asked, and lines of it that its read loop has still to handle may stay at the
  head of the `inbox`, before those of the next one. Requests have ids of their
  own here; `PendingControl` has ids that come again. The summary is the one
  without shared visibility, which the agent never has. Iteration over
  `pendingRequests` is a choice (`LastSeen`).
* `RpcClient`: one child and its client. The callers are the main loop (`Main`)
  and HTTP handlers (`Workers`); a `Request` is `toWrite`, `writing` (it holds
  `writeMu`) and `waiting`, a `Respond` or `Notify` stops after writing. A line is
  the id on the wire and a serial that tells which request it really is. The pipes
  hold `PipeCap` lines, then their writer blocks. The read loop looks a channel up
  (`Scan`) and sends to it (`Deliver`) in two steps, since it unlocks in between;
  `FailPending` and `SignalDone` follow the end of the output. `phase` is how far
  `ConnectStdio` and the main loop are, so that nobody calls what he has not got.
  Notifications and server requests, which take no part in this table, are in
  `PendingControl` and `Monitor`.
* `HaEntry`: one config entry. `site` says which agent listens at which address;
  an agent is a version that grows, a token it accepts and a schema it speaks.
  `lifecycle` is Home Assistant's state of the entry. A poll is its two requests,
  answered at two moments (`Answered("status")`, `Answered("threads")`); the
  stream task is `connect`, `open`, `refresh` or `await` (in
  `async_request_refresh`) or `ended`; `line` are the snapshots on their way to it
  and `copy` the one `Subscribe` took under the lock and has not sent: it may go
  behind newer broadcasts (`monitor.go:97`, `:105`), a broadcast may be dropped
  when the channel is full, and a stream whose copy is stuck ends with the read
  timeout. What an account result changes is taken as part of the next rebuild. A
  flow is between its probe and its write in `flow`; it probes with whatever
  schema the agent has, as `async_probe` does. One flow runs at a time. `Zeroconf`
  writes any address: an announcement is neither probed by the code
  (`config_flow.py:220-228`) nor assumed to be true. `probed` (whom flows met
  where, with which token), `discovered` (discovery wrote the address last),
  `overtaken`, `missed` and the `late` marks of snapshots on their way are
  history.
* `EventStreamProofs`, `EventDeliveryProofs`, `PendingControlProofs`,
  `AppServerLoopProofs`, `MonitorProofs`, `RpcClientProofs`, `HaEntryProofs`: the
  proofs.
* `MCEventStream`, `MCEventDelivery`, `MCPendingControl`, `MCMonitor`,
  `MCRpcClient`, `MCHaEntry`: model values and symmetry for TLC; `AppServerLoop`
  needs none.

Of Home Assistant itself, which is not in the repository, `HaEntry` assumes: polls
of one coordinator do not overlap; a poll that raised `ConfigEntryAuthFailed` is
not scheduled again until data is set or another poll is asked for;
`async_set_updated_data` schedules the next one; a request for a refresh polls and
waits, or is put off by the debouncer; unloading cancels the poll in progress; a
setup that was not ready is repeated, one that raised `ConfigEntryAuthFailed` is
not; `async_update_reload_and_abort` reloads in every state; discovery reloads an
entry that waits to retry, and the entry's update listener, which exists from the
end of the first refresh on, does so otherwise.

## Runs

| Run | Question | Bounds | Result |
|---|---|---|---|
| `event_stream` | history, order, completeness, last snapshot, lock | 1 request at a time, history 2, channel 3, 4 events, 4 rebuilds, 2 contents | holds |
| `event_stream_stale` | is the last snapshot the current one? | as above | `DrainedIsCurrent` fails |
| `event_delivery` | does the composition implement `EventFeed`? | 2 handlers, history 2, channel 2, 3 events, 2 rebuilds, 1 loss or reload, 1 restart | holds |
| `event_delivery_live` | does the reader catch up? | 1 handler, history 2, channel 3, 5 events, 3 rebuilds, 2 losses or reloads, no restart | holds |
| `event_delivery_restart` | is anything retained passed over? | history 2, channel 6, 3 events, 1 restart | `RetainedNotSkipped` fails |
| `pending_control` | the table and the answers | 2 connections with one request id, 2 actions, 2 turns, 2 requests, 3 methods | holds |
| `pending_answered_twice` | is a request answered once? | as above | `AnsweredOnce` fails |
| `app_server_loop` | child, state, liveness, stop | threshold at its default, backoff cap 5, 5 faults | holds |
| `app_server_recovered` | is `agent_recovered` emitted? | as above | `RecoveryAnnounced` fails |
| `monitor` | is the most pressing request visible, is activity told, are workflows counted, does the published state become true? | 2 threads, 2 changes outside, 2 requests | holds |
| `rpc_client` | do replies fit, does every call end? | 2 callers, 4 lines, pipes of 1 line | holds |
| `ha_entry` | was what is stored met by a flow, does the entry follow it, does data step back only in flight, does it converge, ask for a token, show the repair issue? | 2 agents, 2 addresses, 2 tokens, 1 change of each agent, 3 flows, announcements and faults together | holds |

Why the bounds are enough. Every hazard of the hub needs an eviction (more events
than history), a full channel (a replay plus one or two live sends) and a
`Subscribe` overtaken by a rebuild: history 2, channel 3 and 4 events have all of
them, and a second request would be independent of the first, since requests share
nothing but the hub. The delivery needs two handlers, because the old one lingers
while the new one runs, a gap whose events are retained and one whose events are
not. In `event_delivery` the channel is as small as the history, which is less
than the code's 300 over 256: a handler stuck in `FinishSubscribe` is then
reachable, and `SilenceTimeout` is what ends it. `event_delivery_live` needs room
for the snapshot beside a full replay, as the code has, or a reconnect could be
stuck every time; and it has no agent restart, after which the events of
`event_delivery_restart` are not caught up with. The pending table needs two
connections with one id between them, two actions and two requests. The loop needs
more faults than the threshold, and enough for the backoff to reach its cap. The
monitor needs a root, a subagent and a parent that is never listed; two requests,
so that they can be of one thread; and two changes outside, so that a turn can
begin between an interrupt and its record or a status change while a list is held.
Changes are status notifications, turns, requests, hooks, interrupts, file changes
and ends of the connection together; a thread may be active from the start. The
invariants also hold with three changes (3.6 million states). The RPC client needs
a pipe that is full, a request that times out before its reply comes and one that
follows it: one line in a pipe and four in all, two of which are the handshake. It
also passes with five lines, and its invariants with pipes of two. An entry needs
two agents that can trade two addresses, two tokens, and a version to fall back
from; three events are what it takes for an agent to move and be announced
elsewhere while its entry is set up, runs or waits, for a fault between the probe
and the write of a second flow, and for a reauth that meets another agent and is
aborted (a flow that creates the entry, a fault and the reauth's probe). One
change of an agent is enough for a copy that follows a newer broadcast, the second
version being the newer one (1.5 million states in all). Its first agent is taken
to be at the first address, the names being interchangeable. Sequence numbers,
rebuilds, losses, restarts and faults are bounded by `MaxSequence`, `MaxRebuilds`,
`MaxBatch`, `MaxLosses`, `MaxRestarts`, `MaxRequests`, `MaxChanges`, `MaxLines`,
`MaxVersion`, `MaxEvents` and `MaxFaults`; because a bounded behaviour stops, and
because a stopped agent stops, deadlock is not checked.

Symmetry is used only in runs without liveness, over sets no definition chooses
from or orders.

### Fairness

* `EventStream`: the goroutine that holds the lock goes on (`EmitTaskEvent`,
  `BroadcastSnapshot`). Nothing is assumed of handlers, which is the point of
  `LockReleased`.
* `EventDelivery` (`FairDeliverySpec`): the goroutines of the agent and the task
  of the coordinator run, a vanished client is noticed by the server, and the read
  timeout fires. Losses are not fair and are bounded.
* `AppServerLoop`: the loop's goroutine runs; each of its waits has a timer, a
  ticker or a timeout. A read loop ends after its pipe has. With its context
  cancelled the child is killed by `exec.CommandContext`. Faults are bounded.
* `Monitor` (`FairSpec`): the read loop runs, the tickers of the filesystem scan
  and of the reconcile fire, the refresh gets its replies, and times to live pass.
  A connection need never end; after one that did, the next reconcile stands for
  the reconnection, which `AppServerLoop` shows to come (`EventuallyConnected`).
  Nothing is assumed of HTTP handlers: an interrupt may never be recorded.
* `RpcClient` (`FairSpec`): goroutines run; a `sync.Mutex` does not starve a
  waiter and `select` picks among ready cases at random, hence the two strong
  fairnesses. Only the main loop's requests are assumed to have a timeout that
  passes. Nothing is assumed of the child until it is killed.
* `HaEntry` (`FairSpec`): the event loop runs, polls are due again, requests end,
  and a stream's first copy is sent or its read times out. No agent need push
  anything, and nobody need ever finish a flow.

## What the violated properties show

* `agent_recovered` is never emitted: `setConnection("connecting")` precedes every
  connection and replaces the state the check reads (`monitor.go:163`, `:179`).
* The snapshot after a replay can be older than the one sent just before it
  (`monitor.go:105`). `StaleOnlyBySubscribeCopy`, which holds, says that this is
  the only way, and that the current one was then sent directly before.
* Two actions can both answer one request (`control.go:138-148`).
* After an agent restart retained events are passed over, because the cursor is of
  the previous life (`coordinator.py:118`).

A disconnect need not end a request, though `agent-integration-contract.md:194`
reads so: one read from a connection that a failed refresh has just closed is
recorded after `clearClient` and stays (`monitor.go:197-199`).
`EofLeavesNoRequest` says it takes a read loop that was still running at the
close, and `RemovedForAReason` that only then a resolution of one connection can
hit the request of another.

What `RpcClient` shows besides: `CloseReleasesAll` has to excuse a request
registered after `failPending`, which waits for its timeout, and
`DoneLeadsToClose` a write on the full pipe of a living child, which holds
`writeMu` and can keep the main loop from seeing `done` for as long as the child
lives.

What `HaEntry` shows besides: the flows do not verify the schema of the agent they
probe (`api.py:75-83`, `config_flow.py:73`, `:135`, `:193`, `:245`), which
`ha-integration-architecture.md:72-76` and `agent-integration-contract.md:45` say
they do; the entry is created or moved, and it is its setup that refuses the
status and raises the repair issue. `IssueTracksSchema` holds of such entries too.
An address that discovery writes while the entry is being set up is used from the
next reload only (`missed`); the reauth flow can be aborted for another
installation, after which nothing polls until someone acts; and neither a poll nor
the first snapshot of a stream is compared with the entry's unique id
(`coordinator.py:55`, `:128`), so an entry whose address another agent has taken,
or to whose address a wrong announcement has been written, shows that agent as its
own until a flow or discovery moves it. Its data can step back from one push to
the next with no poll in flight, when a stream's first copy follows a newer
broadcast; the next poll sets it right.

What the model of `Monitor` shows besides, with nothing in the repository that
says otherwise: a list can undo a notification handled while the refresh was under
way, until the next reconcile (so a completed task can be told as resumed and
completed again); an interrupt can mark a newer turn idle; of two requests of one
thread the published one can change at any rebuild, each change being told as an
event; `LastTurnStatus` outlives its turn; a thread that is silent for the active
window before it completes is never told as completed. The aggregate state of
`agent-integration-contract.md:124`, approval first, is a priority among threads:
a thread with an approval and an input request can show the input, and the
workload with it. `AttentionVisible` says just that: a thread shows one of its
requests, and the workload the most pressing of what the threads show.

## Proofs

TLAPS proves, for every value of the constants the assumptions admit, every
invariant and action property the passing runs check, and that the delivery
implements its abstract feed.

* `EventStreamProofs`: `TypeOK`, `HistoryIsSuffix` and `ReplayNeverBlocks` are
  inductive together; the lemmas give the length and the elements of `Remember`
  and the length of `Replay`. `ReplayNeverBlocks` rests on `HistoryLimit <=
  ChannelCap`, an assumption of the module that the code's constants (256 and 300)
  meet. `StreamIdsIncrease` follows from the ids of a stream having been emitted
  and increasing (`IdsOrdered`), which a replay from the history and a live send
  both keep. `NoHoleWithoutDrop` is inductive beside them.
  `StaleOnlyBySubscribeCopy` speaks only of drained streams; `SnapshotsInv` says
  of every stream what it must end with (`Follows`) while `Subscribe` has not sent
  its copy, once it has, and while a change is recorded and not yet broadcast.
* `EventDeliveryProofs`: `DeliveryTypeOK` and `FeedSpec`, the refinement of
  `EventFeed`. `CursorInv` is what the cursor stands for: once an agent life has
  delivered something, it is the last id delivered or an id the history has lost,
  everything in an open stream is after it, and the reconnect for a gap starts
  with the missing id or shows that it is gone. Every step then maps to a step of
  the feed or leaves it alone: `EmitTaskEvent` to `Publish`, an accepted message
  to `Deliver`, `RestartAgent` to itself, `ReloadEntry` to `NewListeners`.
* `PendingControlProofs`: `AnswersFitRequest`, `RemovedForAReason`,
  `AnsweredIsGone` and `EofLeavesNoRequest`. None is inductive alone. The
  invariant adds what an action relies on between its critical sections
  (`HeldIsRecorded`), that an id names one request for ever (`IdsUnique`), that a
  connection closed after its read loop ended reads nothing (`ClosedIsSilent`),
  that there is one connection at a time (`OneConnection`) and the few type facts
  needed (`Shapes`). Three lemmas cover the kinds of step: of a connection, of an
  action, and the removals. `TypeOK` needs a count, that the requests numbered so
  far are no more than those asked whose line waits in no inbox (`Counting`).
* `AppServerLoopProofs`: `TypeOK`, `NoLeakedChild` and `ConnectedHasClient`, from
  where in the loop there is a child (`ChildWhere`) and a client (`ClientWhere`).
* `RpcClientProofs`: `TypeOK`, `OwnReply`, `ReaderNeverBlocks` and
  `PendingIsInside`, for any callers and pipes. The invariant adds that an id is
  issued to one line and one caller (`Issued`), that a line is at one place on its
  way (`OnePlace`), that a channel is empty while its reply is still to be
  delivered (`QuietChannels`) and that what waits in the channel of a request is
  its own (`OwnChannel`). `AnswerOnItsWay` is made inductive by saying it of every
  call from its registration on, its line still unsent included (`AnswersCome`).
* `MonitorProofs`: `TypeOK`, `AttentionVisible`, `ActivityAnnounced` and
  `WorkflowsShareRoots`. The types are those of each source, of the lines and of
  what a rebuild makes of them (`Types`); every step is a rebuild from typed
  sources or leaves what is published alone (`Stepped`), so that each property is
  proved of `Rebuild` once; the lines a closed connection leaves are typed because
  they are a prefix of the `inbox`. `AttentionVisible` needs that the summary is
  that of the threads published (`Summarized`) and that the workload of a summary
  is the highest-ranked of them (`PriorityHolds`). `ActivityAnnounced` needs that
  events are told against what was published last (`BaselineIsShown`). For
  `WorkflowsShareRoots` the climb of `RootOf` is an infinite sequence of steps: a
  climb of as many steps as there are threads stands still, because each step
  before meets a new thread, and the climb of a child follows that of its parent.
  It rests on `ParentAssumption`: a subagent is started by a thread that is there
  already, so parents form no circle. The code reads them from the app-server and
  the files and only guards the climb against a circle; in one, each thread would
  be its own root.
* `HaEntryProofs`: `StreamFollowsEntry`, `CoordFollowsEntry` and
  `StoredWasProbed`, for any agents, addresses, tokens and numbers of faults and
  flows. The invariant adds how entry, flow, poll and lifecycle go together
  (`EntryLife`) and that a flow between its probe and its write has met what it is
  going to write (`FlowWasProbed`). No announcement is assumed to be true.
  `TypeOK` is proved beside it. The action property `RegressOnlyInFlight` follows
  from `InFlight`: nothing on its way is newer than its agent (`Reached`), and
  unless marked, a half of a poll (`PollNewer`) and each snapshot on its way
  (`LineNewer`) is no older than the data shown of the same agent, the snapshots
  of a stream no older than those before them (`InOrder`).

The other assumptions say that bounds and limits are numbers, that sets that
cannot be empty are not, that the threads are finitely many, and that `None` is
none of the values it is the absence of.

Model-checked only: the liveness properties (`LockReleased`, `CaughtUp`,
`EventuallyConnected`, `ShutdownStops`, `EventuallyTrue`, `CloseReleasesAll`,
`DoneLeadsToClose`, `Converges`, `RejectionAsksForToken`, `IssueTracksSchema`),
since liveness under fairness is beyond the prover, and the four properties the
code violates.

## Plan

1. `Monitor`: usage and the signature of a snapshot, with their proofs.
2. Algorithms as recursive functions against reference definitions: `Summarize`,
   the current-thread choice of `models.py`.
3. Proofs: what the liveness properties rest on, such as the measure that falls
   with every step of a call after `Close`.

## Not modelled

* The entities, config forms, services and diagnostics of Home Assistant: they
  keep no state, a service forwards one call. The options flow only reloads the
  entry with another interval, and time is not counted.
* Identity and mDNS: one file written at the first start, without a recovery the
  code could be held to, and a library's announcement; what the announcement
  causes is `Zeroconf` of `HaEntry`.
* The read-only endpoints: copies of the snapshot under the lock, read as `Now` in
  `HaEntry`.
* The walk of the rollout directory, titles, tokens and times of threads: file I/O
  and data no property tells apart. A panic on a null account reply ends the
  process and leaves no state to speak of.
