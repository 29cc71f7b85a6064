------------------------------ MODULE HaEntry ------------------------------
(* One config entry of the Home Assistant integration: its coordinator     *)
(* with the REST poll and the stream task (coordinator.py, api.py), setup, *)
(* unload and reload (__init__.py) and the flows that write the entry      *)
(* (config_flow.py), over addresses at which agents come, go, change their *)
(* token and speak an unknown schema.  An agent's state is a version that  *)
(* grows with what its rebuilds publish; EventDelivery has the events of   *)
(* the stream, here are its snapshots.                                     *)
EXTENDS Naturals, Sequences

CONSTANTS
  Installations, Urls, Tokens, None,
  MaxVersion,    \* bound on the changes of each agent's state
  MaxEvents      \* bound on flows, announcements and faults together

Entries == [uid : Installations, url : Urls, token : Tokens]
FlowKinds == {"user", "reauth", "reconfigure"}
Flows == [kind : FlowKinds, url : Urls, token : Tokens, inst : Installations]

Snapshots == [inst : Installations, version : 0..MaxVersion, known : BOOLEAN]
Apis == [url : Urls, token : Tokens]
Pairs == [status : Snapshots, threads : Snapshots]
Sent == [shot : Snapshots, late : BOOLEAN]
Probes == [inst : Installations, url : Urls, token : Tokens]

(* None is none of the values it is the absence of. *)
ASSUME HaAssumption ==
  /\ None \notin Installations \cup Urls \cup Tokens \cup Entries \cup Flows
                     \cup Snapshots \cup Apis \cup Pairs \cup Sent
  /\ Tokens # {}
  /\ MaxVersion \in Nat /\ MaxEvents \in Nat

VARIABLES
  site,       \* address -> the agent that listens there
  version,    \* agent -> its state
  accepts,    \* agent -> the token it takes
  foreign,    \* agents whose schema major is not 1
  events,     \* flows, announcements and faults so far
  entry,      \* the stored entry: unique id, url, token
  flow,       \* a flow between its probe and its write
  probed,     \* history: the agents, addresses and tokens that flows met
  discovered, \* history: discovery was the last to write the url
  lifecycle,  \* how far Home Assistant is with the entry
  reload,     \* a reload of the entry is due
  missed,     \* history: discovery changed the url while the setup ran
  coord,      \* the url and token of the coordinator's api
  data,       \* coordinator.data
  poll,       \* the poll in progress, with what has answered already
  resting,    \* no poll is scheduled: the last one was rejected
  stream,     \* the stream task, and the agent it is connected to
  line,       \* the snapshots on their way to the stream task
  copy,       \* Subscribe's copy of the snapshot, until it is sent
  overtaken,  \* history: a push was put in place during the poll in progress
  reauth,     \* the reauth flow: none, open, or aborted
  issue       \* the repair issue incompatible_agent

world == <<site, version, accepts, foreign>>
history == <<probed, discovered>>
around == <<world, events, entry, flow, history>>
life == <<lifecycle, reload, missed>>
push == <<stream, line, copy>>
polling == <<poll, resting, overtaken>>
run == <<coord, data, push, polling>>
vars == <<around, life, run, reauth, issue>>

StreamStates == {"none", "connect", "open", "refresh", "await", "ended"}
NoStream == [pc |-> "none", inst |-> None, rejected |-> FALSE]
NewPoll == [status |-> None, threads |-> None]
Stored == [url |-> entry.url, token |-> entry.token]

Now(i) == [inst |-> i, version |-> version[i], known |-> i \notin foreign]
Listening(url) == site[url] # None
Rejects(i, token) == accepts[i] # token

Init ==
  /\ site \in {f \in [Urls -> Installations \cup {None}] :
                 /\ \E u \in Urls : f[u] # None
                 /\ \A u, v \in Urls : f[u] = f[v] => u = v \/ f[u] = None}
  /\ version = [i \in Installations |-> 0]
  /\ accepts \in [Installations -> Tokens]
  /\ foreign = {}
  /\ events = 0
  /\ entry = None /\ flow = None /\ probed = {} /\ discovered = FALSE
  /\ lifecycle = "absent" /\ reload = FALSE /\ missed = FALSE
  /\ coord = None /\ data = None /\ poll = None /\ resting = FALSE
  /\ stream = NoStream /\ line = <<>> /\ copy = None /\ overtaken = FALSE
  /\ reauth = "none" /\ issue = FALSE

-----------------------------------------------------------------------------
(* Around the integration.                                                 *)
(* A rebuild broadcasts the new state to the stream, whose channel may     *)
(* have no room for it left.  One that gets ahead of Subscribe's copy      *)
(* leaves the copy late.                                                   *)
Late(sent) == [sent EXCEPT !.late = TRUE]

Broadcast(snapshot) ==
  \/ UNCHANGED push
  \/ /\ stream.pc = "open" /\ stream.inst = snapshot.inst
     /\ site[coord.url] = snapshot.inst
     /\ line' = Append(line, [shot |-> snapshot, late |-> FALSE])
     /\ copy' = IF copy = None THEN None ELSE Late(copy)
     /\ UNCHANGED stream

AgentChanges(i) ==
  /\ version[i] < MaxVersion
  /\ version' = [version EXCEPT ![i] = @ + 1]
  /\ Broadcast([Now(i) EXCEPT !.version = @ + 1])
  /\ UNCHANGED <<site, accepts, foreign, events, entry, flow, history,
                 life, coord, data, polling, reauth, issue>>

(* An agent stops, starts or moves, or another one takes its address.      *)
AgentMoves(u, i) ==
  /\ site[u] # i
  /\ site' = [v \in Urls |-> IF v = u THEN i
                             ELSE IF site[v] = i THEN None ELSE site[v]]
  /\ UNCHANGED <<version, accepts, foreign, push>>

(* An agent restarts, with another token or with another schema or with    *)
(* neither, and its connections are lost.                                  *)
Failing(rejected) == [pc |-> "refresh", inst |-> None, rejected |-> rejected]
NothingSent == line' = <<>> /\ copy' = None
Disconnects == stream' = Failing(FALSE) /\ NothingSent

AgentRestarts(i) ==
  /\ \/ UNCHANGED <<accepts, foreign>> /\ stream.pc = "open" /\ stream.inst = i
     \/ \E t \in Tokens : accepts' = [accepts EXCEPT ![i] = t] /\ UNCHANGED foreign
     \/ \E f \in SUBSET {i} : foreign' = (foreign \ {i}) \cup f /\ UNCHANGED accepts
  /\ IF stream.pc = "open" /\ stream.inst = i THEN Disconnects ELSE UNCHANGED push
  /\ UNCHANGED <<site, version>>

Event == events < MaxEvents /\ events' = events + 1

Fault ==
  /\ Event
  /\ \/ \E u \in Urls, i \in Installations \cup {None} : AgentMoves(u, i)
     \/ \E i \in Installations : AgentRestarts(i)
  /\ UNCHANGED <<entry, flow, history, life, coord, data, polling, reauth, issue>>

-----------------------------------------------------------------------------
(* async_setup_entry and its first refresh; Home Assistant repeats a setup *)
(* that was not ready and keeps one that needs a token until a reload.     *)
BeginSetup ==
  /\ lifecycle \in {"notLoaded", "retry"}
  /\ lifecycle' = "setup" /\ reload' = FALSE /\ missed' = FALSE
  /\ coord' = Stored
  /\ poll' = NewPoll /\ resting' = FALSE
  /\ UNCHANGED <<around, data, push, overtaken, reauth, issue>>

(* Polls of a coordinator never overlap (external: its refresh lock).      *)
Running == lifecycle \in {"loaded", "unloading", "stuck"}
MutStartPoll ==            \* joins the poll in progress
  /\ Running /\ poll' = IF poll = None THEN NewPoll ELSE poll
  /\ overtaken' = FALSE
MutStartPollIdle ==        \* polls only while the stream is down
  /\ Running /\ poll = None /\ stream.pc # "open" /\ poll' = NewPoll
  /\ overtaken' = FALSE

StartPoll ==
  /\ Running /\ poll = None
  /\ poll' = NewPoll
  /\ overtaken' = FALSE

(* A rejected poll is not scheduled again (external).                      *)
TimerPoll ==
  /\ ~resting /\ StartPoll
  /\ UNCHANGED <<around, life, coord, data, push, resting, reauth, issue>>

(* The two requests of async_get_snapshot, each answered at a moment of    *)
(* its own.                                                                *)
Answered(part) ==
  /\ poll # None /\ poll[part] = None
  /\ Listening(coord.url) /\ ~Rejects(site[coord.url], coord.token)
  /\ poll' = [poll EXCEPT ![part] = Now(site[coord.url])]
  /\ UNCHANGED <<around, life, coord, data, push, resting, overtaken, reauth, issue>>

Waiting == poll # None /\ (poll.status = None \/ poll.threads = None)
MutPollAnswered == poll # None /\ poll.status # None   \* awaits the status only
PollAnswered == poll # None /\ ~Waiting

(* What a failed poll means to its caller: the first refresh gives the     *)
(* setup up, for good when the token was rejected; a later one keeps the   *)
(* data.                                                                   *)
PollFails(rejected) ==
  /\ poll' = None /\ overtaken' = FALSE
  /\ resting' = rejected
  /\ lifecycle' = IF lifecycle # "setup" THEN lifecycle
                  ELSE IF rejected THEN "needsToken" ELSE "retry"
  /\ UNCHANGED <<around, reload, missed, coord, data, push>>

(* ConfigEntryAuthFailed, and the repair issue.                            *)
MutAsksForToken ==         \* only once the entry is loaded
  reauth' = IF lifecycle = "setup" THEN reauth ELSE "open"
AsksForToken == reauth' = "open"
MutRepair(bad) ==          \* only once the entry is loaded
  issue' = (bad /\ lifecycle # "setup")
Repair(bad) == issue' = bad

PollDown ==
  /\ Waiting /\ ~Listening(coord.url)
  /\ PollFails(FALSE)
  /\ UNCHANGED <<reauth, issue>>

PollRejected ==
  /\ Waiting /\ Listening(coord.url) /\ Rejects(site[coord.url], coord.token)
  /\ PollFails(TRUE)
  /\ AsksForToken
  /\ UNCHANGED issue

(* from_payloads refuses the schema of the status.                         *)
PollInvalid ==
  /\ PollAnswered /\ ~poll.status.known
  /\ PollFails(FALSE)
  /\ Repair(TRUE)
  /\ UNCHANGED reauth

StartStream == stream' = [NoStream EXCEPT !.pc = "connect"]

(* The stream starts with the first good poll, once the platforms are set  *)
(* up; no poll compares the installation with the entry's unique id.       *)
PollSucceeds ==
  /\ PollAnswered /\ poll.status.known
  /\ data' = poll
  /\ poll' = None /\ resting' = FALSE /\ overtaken' = FALSE
  /\ line' = [k \in DOMAIN line |-> Late(line[k])]
  /\ copy' = IF copy = None THEN None ELSE Late(copy)
  /\ Repair(FALSE)
  /\ IF lifecycle = "setup"
     THEN lifecycle' = "loaded" /\ StartStream
     ELSE UNCHANGED <<lifecycle, stream>>
  /\ UNCHANGED <<around, reload, missed, coord, reauth>>

-----------------------------------------------------------------------------
(* _async_stream_loop.  Failing means: request a refresh, then retry, or   *)
(* end for good after a rejected token.                                    *)
(* The agent registers the stream and copies its snapshot under its lock,  *)
(* but sends the copy only after the unlock.                               *)
StreamConnects ==
  /\ stream.pc = "connect"
  /\ LET i == site[coord.url] IN
       IF i # None /\ ~Rejects(i, coord.token)
       THEN /\ stream' = [stream EXCEPT !.pc = "open", !.inst = i]
            /\ line' = <<>> /\ copy' = [shot |-> Now(i), late |-> FALSE]
       ELSE stream' = Failing(i # None) /\ UNCHANGED <<line, copy>>
  /\ UNCHANGED <<around, life, coord, data, polling, reauth, issue>>

SendCopy ==
  /\ stream.pc = "open" /\ copy # None /\ site[coord.url] = stream.inst
  /\ line' = Append(line, copy) /\ copy' = None
  /\ UNCHANGED <<around, life, coord, data, polling, stream, reauth, issue>>

(* The handler writes what the channel holds once Subscribe has returned.  *)
(* A snapshot of the agent the data came from replaces the data and        *)
(* schedules the next poll; one of another agent or of an unknown schema   *)
(* is an error.                                                            *)
StreamApplies ==
  /\ stream.pc = "open" /\ copy = None /\ line # <<>>
  /\ LET shot == Head(line).shot IN
       IF ~shot.known \/ shot.inst # data.status.inst
       THEN Disconnects /\ UNCHANGED <<data, resting, overtaken>>
       ELSE /\ data' = [status |-> shot, threads |-> shot]
            /\ line' = Tail(line)
            /\ resting' = FALSE /\ overtaken' = (poll # None)
            /\ UNCHANGED <<stream, copy>>
  /\ UNCHANGED <<around, life, coord, poll, reauth, issue>>

(* Subscribe waits for ever when its channel was full before its copy; the *)
(* stream task then hears nothing until its read times out.                *)
StreamLost ==
  /\ stream.pc = "open" /\ (site[coord.url] # stream.inst \/ copy # None)
  /\ Disconnects
  /\ UNCHANGED <<around, life, coord, data, polling, reauth, issue>>

AfterRefresh == [stream EXCEPT !.pc = IF stream.rejected THEN "ended" ELSE "connect"]

(* async_request_refresh polls and waits, or is put off by its debouncer.  *)
StreamRefreshes ==
  /\ stream.pc = "refresh"
  /\ \/ StartPoll /\ stream' = [stream EXCEPT !.pc = "await"]
     \/ stream' = AfterRefresh /\ UNCHANGED <<poll, overtaken>>
  /\ UNCHANGED <<around, life, coord, data, resting, line, copy, reauth, issue>>

StreamRefreshed ==
  /\ stream.pc = "await" /\ poll = None
  /\ stream' = AfterRefresh
  /\ UNCHANGED <<around, life, coord, data, polling, line, copy, reauth, issue>>

-----------------------------------------------------------------------------
(* Reloading: the platforms go first, while the stream still runs, then    *)
(* async_shutdown cancels it and waits for it.  An entry whose platforms   *)
(* will not go keeps its coordinator.                                      *)
UnloadPlatforms ==
  /\ reload /\ lifecycle = "loaded"
  /\ \/ lifecycle' = "unloading" /\ UNCHANGED events
     \/ lifecycle' = "stuck" /\ Event
  /\ UNCHANGED <<world, entry, flow, history, reload, missed, run, reauth, issue>>

MutCancelStream == UNCHANGED push   \* leaves the task running
CancelStream == stream' = NoStream /\ NothingSent

Shutdown ==
  /\ lifecycle = "unloading"
  /\ lifecycle' = "notLoaded"
  /\ CancelStream
  /\ data' = None /\ poll' = None /\ overtaken' = FALSE
  /\ UNCHANGED <<around, reload, missed, coord, resting, reauth, issue>>

(* Nothing to unload.                                                      *)
ReloadFailedSetup ==
  /\ reload /\ lifecycle \in {"retry", "needsToken"}
  /\ lifecycle' = "notLoaded"
  /\ UNCHANGED <<around, reload, missed, run, reauth, issue>>

-----------------------------------------------------------------------------
(* The flows.  Each probes an address with a token (async_probe: version   *)
(* and status of one installation, whatever their schema), then writes the *)
(* entry.                                                                  *)
Probe(kind, url, token) ==
  /\ flow = None /\ Event
  /\ CASE kind = "user" -> entry = None
       [] kind = "reauth" -> reauth = "open" /\ url = entry.url
       [] kind = "reconfigure" -> entry # None
  /\ Listening(url) /\ ~Rejects(site[url], token)
  /\ flow' = [kind |-> kind, url |-> url, token |-> token, inst |-> site[url]]
  /\ probed' = probed \cup {[inst |-> site[url], url |-> url, token |-> token]}
  /\ UNCHANGED <<world, entry, discovered, life, run, reauth, issue>>

FlowCreates ==
  /\ flow # None /\ flow.kind = "user" /\ flow' = None
  /\ entry' = [uid |-> flow.inst, url |-> flow.url, token |-> flow.token]
  /\ lifecycle' = "notLoaded"
  /\ UNCHANGED <<world, events, history, reload, missed, run, reauth, issue>>

(* async_set_unique_id and _abort_if_unique_id_mismatch.                   *)
MutMatches == TRUE
Matches == flow.inst = entry.uid

(* async_update_reload_and_abort; a reauth keeps the url stored by now.    *)
MutReloads == lifecycle = "loaded"   \* leaves it to the update listener
Reloads == TRUE

FlowUpdates ==
  /\ flow # None /\ flow.kind # "user" /\ flow' = None
  /\ IF Matches
     THEN /\ entry' = [entry EXCEPT !.token = flow.token,
                         !.url = IF flow.kind = "reauth" THEN @ ELSE flow.url]
          /\ discovered' = (discovered /\ flow.kind = "reauth")
          /\ reload' = (reload \/ Reloads)
     ELSE UNCHANGED <<entry, discovered, reload>>
  /\ reauth' = IF flow.kind # "reauth" THEN reauth
               ELSE IF Matches THEN "none" ELSE "aborted"
  /\ UNCHANGED <<world, events, probed, lifecycle, missed, run, issue>>

(* async_step_zeroconf of a configured installation writes the announced   *)
(* address, whichever it is, without a probe.  The update listener, which  *)
(* is registered after the first refresh, reloads the entry, and Home      *)
(* Assistant one that waits to retry (external); no one reloads an entry   *)
(* that is being set up.                                                   *)
Zeroconf(url) ==
  /\ Event
  /\ entry # None /\ url # entry.url
  /\ entry' = [entry EXCEPT !.url = url] /\ discovered' = TRUE
  /\ reload' = (reload \/ Running \/ lifecycle = "retry")
  /\ missed' = (missed \/ lifecycle = "setup")
  /\ UNCHANGED <<world, flow, probed, lifecycle, run, reauth, issue>>

-----------------------------------------------------------------------------
Next ==
  \/ \E i \in Installations : AgentChanges(i)
  \/ Fault
  \/ BeginSetup \/ TimerPoll
  \/ Answered("status") \/ Answered("threads")
  \/ PollDown \/ PollRejected \/ PollInvalid \/ PollSucceeds
  \/ StreamConnects \/ SendCopy \/ StreamApplies \/ StreamLost
  \/ StreamRefreshes \/ StreamRefreshed
  \/ UnloadPlatforms \/ Shutdown \/ ReloadFailedSetup
  \/ \E kind \in FlowKinds, url \in Urls, token \in Tokens : Probe(kind, url, token)
  \/ FlowCreates \/ FlowUpdates
  \/ \E url \in Urls : Zeroconf(url)

Spec == Init /\ [][Next]_vars

-----------------------------------------------------------------------------
(* Home Assistant's scheduler and loop and the agents go on; no one need   *)
(* finish a flow.                                                          *)
Fairness ==
  /\ WF_vars(BeginSetup) /\ WF_vars(TimerPoll)
  /\ WF_vars(Answered("status")) /\ WF_vars(Answered("threads"))
  /\ WF_vars(PollDown) /\ WF_vars(PollRejected)
  /\ WF_vars(PollInvalid) /\ WF_vars(PollSucceeds)
  /\ WF_vars(StreamConnects) /\ WF_vars(StreamApplies)
  /\ WF_vars(SendCopy \/ StreamLost)
  /\ WF_vars(StreamRefreshes) /\ WF_vars(StreamRefreshed)
  /\ WF_vars(UnloadPlatforms) /\ WF_vars(Shutdown) /\ WF_vars(ReloadFailedSetup)

FairSpec == Spec /\ Fairness

-----------------------------------------------------------------------------
Parts == Snapshots \cup {None}
Polls == [status : Parts, threads : Parts] \cup {None}

(* Types; data is always complete, and there while the entry runs.         *)
TypeOK ==
  /\ site \in [Urls -> Installations \cup {None}]
  /\ version \in [Installations -> 0..MaxVersion]
  /\ accepts \in [Installations -> Tokens]
  /\ foreign \subseteq Installations
  /\ events \in 0..MaxEvents
  /\ entry \in Entries \cup {None}
  /\ flow \in Flows \cup {None}
  /\ probed \subseteq Probes /\ discovered \in BOOLEAN
  /\ lifecycle \in {"absent", "notLoaded", "setup", "retry", "needsToken",
                    "loaded", "unloading", "stuck"}
  /\ lifecycle = "absent" <=> entry = None
  /\ reload \in BOOLEAN /\ missed \in BOOLEAN
  /\ coord \in Apis \cup {None}
  /\ data \in Pairs \cup {None}
  /\ Running => data # None
  /\ poll \in Polls /\ resting \in BOOLEAN
  /\ stream \in [pc : StreamStates, inst : Installations \cup {None},
                 rejected : BOOLEAN]
  /\ line \in Seq(Sent) /\ copy \in Sent \cup {None}
  /\ overtaken \in BOOLEAN
  /\ reauth \in {"none", "open", "aborted"} /\ issue \in BOOLEAN

(* An entry has its stream exactly from the end of its setup to the end of *)
(* its unload: no reload leaves one behind or a loaded entry without.      *)
StreamFollowsEntry == stream.pc # "none" <=> Running

(* A url or token written by a flow takes effect: the running coordinator  *)
(* uses what is stored, or a reload is due, also when a flow finished      *)
(* while the entry was being set up.  Only an address that discovery wrote *)
(* meanwhile waits for the next reload.                                    *)
CoordFollowsEntry ==
  /\ lifecycle \in {"setup", "loaded"} => reload \/ missed \/ coord.url = entry.url
  /\ lifecycle \in {"setup", "loaded", "needsToken"} => reload \/ coord.token = entry.token

(* However flows, discovery and moving agents overlap, the token stored is *)
(* one that the entry's own installation took from a flow, and so is the   *)
(* address the one it was met at, unless discovery, which probes nothing,  *)
(* wrote it last.                                                          *)
StoredWasProbed ==
  entry # None =>
    /\ \E p \in probed : p.inst = entry.uid /\ p.token = entry.token
    /\ discovered \/ \E p \in probed : p.inst = entry.uid /\ p.url = entry.url

(* The data of an entry steps back only onto what was taken before the     *)
(* newer data came: by a poll during which a push was put in place, or by  *)
(* a push that was on its way when a poll succeeded or, as the copy of a   *)
(* Subscribe, when a newer broadcast got ahead of it.                      *)
StepsBack ==
  \E part \in {"status", "threads"} :
    /\ data[part].inst = data'[part].inst
    /\ data'[part].version < data[part].version

RegressOnlyInFlight ==
  [][data # None /\ data' # None /\ StepsBack =>
       IF poll' = poll THEN Head(line).late ELSE overtaken]_vars

(* Once things stay quiet, the entry holds what the agent at its address   *)
(* says, both halves of one moment: after overlapping polls and pushes,    *)
(* lost and late snapshots, ended streams, restarts, and reloads in the    *)
(* middle of a poll.  Only a rejected token, after which a flow asks for   *)
(* another, stops it.                                                      *)
Reachable == entry # None /\ lifecycle # "stuck" /\ ~missed /\ Listening(entry.url)
Rejected == Rejects(site[entry.url], entry.token)
Polled ==
  /\ Reachable /\ ~Rejected
  /\ lifecycle # "needsToken" /\ (resting => reauth = "none")
Current == data # None /\ \A part \in {"status", "threads"} :
                            data[part] = Now(site[entry.url])

Converges ==
  <>[](Polled /\ site[entry.url] \notin foreign => lifecycle = "loaded" /\ Current)

(* A token the agent keeps rejecting ends in a reauth flow and is not      *)
(* polled with again, whether the setup, a poll or the stream met it.      *)
RejectionAsksForToken ==
  <>[](Reachable /\ Rejected =>
         reauth # "none" /\ (resting \/ lifecycle = "needsToken"))

(* The repair issue comes with an unknown schema and goes with it.         *)
IssueTracksSchema ==
  <>[](Polled => (issue <=> site[entry.url] \in foreign))
=============================================================================
