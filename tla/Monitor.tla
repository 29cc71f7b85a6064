------------------------------ MODULE Monitor ------------------------------
(***************************************************************************)
(* The state the agent publishes and the task events it derives from it    *)
(* (agent/internal/monitor: monitor.go, hooks.go, events.go; the summary   *)
(* of model/model.go).                                                     *)
(*                                                                         *)
(* Four sources say what a thread does: the app-server, by lists that are  *)
(* asked for and by notifications; the rollout files; the hooks of Codex,  *)
(* for a time; and the requests that wait for an answer. They are written  *)
(* by different goroutines, and every write ends in rebuildLocked, which   *)
(* composes the published threads, sums them up and turns the difference   *)
(* from the last ones into events.                                         *)
(*                                                                         *)
(* A connection ends in clearClient, at any time, and the next one begins  *)
(* with a new app-server; the steps of that, and why they end, are the     *)
(* matter of AppServerLoop, and who removes which request that of          *)
(* PendingControl.                                                         *)
(***************************************************************************)
EXTENDS Naturals, Sequences, FiniteSets, Functions

CONSTANTS
  Threads,      \* ids of threads that may be seen
  Parent,       \* the parent each was started with: a thread, another id or None
  None,
  Statuses,     \* what the app-server may say of a thread
  HookEvents,   \* names of hook events
  MaxChanges,   \* bound: changes outside the agent
  MaxRequests   \* bound: requests asked

VARIABLES
  appThreads, fsThreads, hookSessions, pendingRequests,   \* the sources
  threads, summary,          \* m.snapshot.Threads and .Summary
  eventsReady, lastThreads,  \* what events are told against
  told,                      \* history: what the events have said of each thread
  refresh,                   \* refreshAppServer, between its requests and its store
  interrupting,              \* turns whose interrupt is accepted and not recorded
  served, turns, files,      \* outside: the app-server's threads, rollout files
  asked, settled,            \* outside: requests of the app-server
  former,                    \* outside: those asked by one that is closed
  inbox,                     \* lines of the app-server not handled yet
  changes                    \* count for MaxChanges

sources == <<appThreads, fsThreads, hookSessions, pendingRequests>>
published == <<threads, summary, eventsReady, lastThreads, told>>
outside == <<served, turns, files, asked, settled, former, changes>>
vars == <<sources, published, refresh, interrupting, outside, inbox>>

Waiting == {"WAITING_APPROVAL", "WAITING_INPUT"}
Active == Waiting \cup {"RUNNING"}
States == Active \cup {"IDLE", "ERROR", "UNKNOWN"}
TurnStatuses == {"", "inProgress", "completed", "failed", "interrupted"}

(* A function on some of a set. *)
Partial(S, T) == UNION {[D -> T] : D \in SUBSET S}
IsPartial(f, S, T) == DOMAIN f \subseteq S /\ \A t \in DOMAIN f : f[t] \in T
Nothing == [t \in {} |-> None]
With(f, t, value) == [x \in DOMAIN f \cup {t} |-> IF x = t THEN value ELSE f[x]]

(* The status of a thread as the app-server words it; the flags of an      *)
(* active one are named by the first that counts.                          *)
mapAppServerState(status) ==
  CASE status = "systemError"        -> "ERROR"
    [] status = "idle"               -> "IDLE"
    [] status = "active"             -> "RUNNING"
    [] status = "waitingOnApproval"  -> "WAITING_APPROVAL"
    [] status = "waitingOnUserInput" -> "WAITING_INPUT"
    [] OTHER                         -> "UNKNOWN"

(* The state a hook event stands for; of an unrecorded one, UNKNOWN. The   *)
(* two kinds of Notification are told apart by their text.                 *)
mapHookEvent(event) ==
  CASE event \in {"PermissionRequest", "NotificationToApprove"} -> "WAITING_APPROVAL"
    [] event \in {"Elicitation", "Notification"}                -> "WAITING_INPUT"
    [] event \in {"Stop", "SessionEnd", "SessionStart"}         -> "IDLE"
    [] event \in {"UserPromptSubmit", "PreToolUse", "PostToolUse", "PreCompact",
                  "PostCompact", "SubagentStart", "SubagentStop", "WorktreeCreate"}
         -> "RUNNING"
    [] OTHER -> "UNKNOWN"

ASSUME MonitorAssumption ==
  /\ None \notin Threads
  /\ IsFiniteSet(Threads) /\ Threads \subseteq DOMAIN Parent
  /\ {"active", "idle", "notLoaded"} \subseteq Statuses
  /\ MaxChanges \in Nat /\ MaxRequests \in Nat
(* A subagent is started by a thread that is there already. *)
ASSUME ParentAssumption ==
  \E age \in [Threads -> 1..Cardinality(Threads)] :
    \A t \in Threads : Parent[t] \in Threads => age[Parent[t]] < age[t]

Seen == [state : States, turnStatus : TurnStatuses, parent : {None} \cup Range(Parent),
         root : {None} \cup Threads \cup Range(Parent), request : 0..MaxRequests]
Hooked == [state : States, old : BOOLEAN]
Requests == [id : 1..MaxRequests, thread : Threads, turn : 0..MaxChanges,
             type : {"approval", "input"}]
NoThread == [state |-> "UNKNOWN", turnStatus |-> "", parent |-> None, root |-> None,
             request |-> 0]
-----------------------------------------------------------------------------
(* rebuildLocked, step by step.                                            *)

(* The app-server's word counts, unless it says nothing of the state. *)
mergeThreads(app, fs) ==
  [t \in DOMAIN app \cup DOMAIN fs |->
     IF t \notin DOMAIN app THEN fs[t]
     ELSE IF t \notin DOMAIN fs THEN app[t]
     ELSE [app[t] EXCEPT !.parent = IF @ = None THEN fs[t].parent ELSE @,
                         !.state = IF @ = "UNKNOWN" THEN fs[t].state ELSE @]]

Of(base, t) == IF t \in DOMAIN base THEN base[t] ELSE NoThread

(* A hook covers what the app-server and the files say. *)
applyHooks(base, hooks) ==
  [t \in DOMAIN base \cup DOMAIN hooks |->
     IF t \in DOMAIN hooks THEN [Of(base, t) EXCEPT !.state = hooks[t].state]
     ELSE base[t]]

(* A request covers everything. pendingRequests is walked in any order:    *)
(* last is the one seen last of each thread that has one.                  *)
decoratePendingRequests(base, last) ==
  [t \in DOMAIN base \cup DOMAIN last |->
     IF t \in DOMAIN last
     THEN [Of(base, t) EXCEPT !.request = last[t].id,
             !.state = IF last[t].type = "approval" THEN "WAITING_APPROVAL"
                       ELSE "WAITING_INPUT"]
     ELSE base[t]]
LastSeen(pending) ==
  {last \in [{p.thread : p \in pending} -> pending] :
     \A t \in DOMAIN last : last[t].thread = t}

(* The climb to the root ends at a thread without a parent, at an id that  *)
(* is not among the threads, or where it meets itself.                     *)
StepUp(seen, at) ==
  IF at.id \in at.met \/ at.id \notin DOMAIN seen THEN at
  ELSE IF seen[at.id].parent = None THEN at
  ELSE [id |-> seen[at.id].parent, met |-> at.met \cup {at.id}]
RootOf(seen, t) ==
  LET climb[k \in Nat] == IF k = 0 THEN [id |-> seen[t].parent, met |-> {t}]
                          ELSE StepUp(seen, climb[k - 1])
  IN  climb[Cardinality(DOMAIN seen)].id
(* Mutant: the parent is taken for the root. *)
MutassignThreadHierarchy(seen) ==
  [t \in DOMAIN seen |->
     [seen[t] EXCEPT !.root = IF seen[t].parent = None THEN t ELSE seen[t].parent]]
assignThreadHierarchy(seen) ==
  [t \in DOMAIN seen |->
     [seen[t] EXCEPT !.root = IF seen[t].parent = None THEN t ELSE RootOf(seen, t)]]

Compose(app, fs, hooks, last) ==
  assignThreadHierarchy(
    decoratePendingRequests(applyHooks(mergeThreads(app, fs), hooks), last))

(* Mutant: input comes before approval. *)
MutRank == [WAITING_APPROVAL |-> 5, WAITING_INPUT |-> 6, ERROR |-> 4, RUNNING |-> 3,
            IDLE |-> 2, UNKNOWN |-> 1]
Rank == [WAITING_APPROVAL |-> 6, WAITING_INPUT |-> 5, ERROR |-> 4, RUNNING |-> 3,
         IDLE |-> 2, UNKNOWN |-> 1]
(* The summary without shared visibility, which nothing in the agent sets:  *)
(* then no thread that is idle or unknown says anything of the workload.   *)
Summarize(shown) ==
  LET active == {t \in DOMAIN shown : shown[t].state \in Active}
      telling == {t \in DOMAIN shown : shown[t].state \in Active \cup {"ERROR"}}
      best == CHOOSE t \in telling :
                \A u \in telling : Rank[shown[u].state] <= Rank[shown[t].state]
  IN  [workload |-> IF telling = {} THEN "UNKNOWN" ELSE shown[best].state,
       workers |-> Cardinality(active),
       workflows |-> Cardinality({shown[t].root : t \in active})]

(* The event a change of state stands for, if any. *)
transitionEventType(previous, current, existed) ==
  CASE current.state = "WAITING_APPROVAL" -> "approval_required"
    [] current.state = "WAITING_INPUT" -> "input_required"
    [] current.state = "ERROR" -> "task_failed"
    [] current.state = "RUNNING" ->
         IF existed /\ previous.state \in Waiting \cup {"IDLE"}
         THEN "task_resumed" ELSE "task_started"
    [] current.state = "IDLE" /\ existed ->
         IF current.turnStatus = "interrupted" THEN "task_interrupted"
         ELSE IF current.turnStatus = "failed" THEN "task_failed"
         ELSE IF previous.state \in Active THEN "task_completed" ELSE ""
    [] OTHER -> ""

(* Mutant: a thread that waits already is not announced again. *)
MutTransitions(previous, current) ==
  LET changed == {t \in DOMAIN current :
                    ~(t \in DOMAIN previous /\ previous[t].state = current[t].state)}
  IN  {t \in changed :
         transitionEventType(Of(previous, t), current[t], t \in DOMAIN previous) # ""}
(* emitTransitionEventsLocked: the threads an event is emitted of. *)
Transitions(previous, current) ==
  LET changed == {t \in DOMAIN current :
                    ~(/\ t \in DOMAIN previous
                      /\ previous[t].state = current[t].state
                      /\ previous[t].request = current[t].request)}
  IN  {t \in changed :
         transitionEventType(Of(previous, t), current[t], t \in DOMAIN previous) # ""}

(* prepareLiveEventLocked: what a rebuild compares with, when there is no  *)
(* earlier one to compare with, is what is published.                      *)
Baseline == IF eventsReady THEN lastThreads ELSE threads

(* A critical section that leaves these sources; a live one tells events   *)
(* even if it is the first.                                                *)
Rebuild(app, fs, hooks, pending, live) ==
  LET announced == IF eventsReady \/ live THEN Transitions(Baseline, threads')
                   ELSE DOMAIN threads'   \* in the first snapshot
  IN  /\ appThreads' = app /\ fsThreads' = fs
      /\ hookSessions' = Restrict(hooks, {t \in DOMAIN hooks : ~hooks[t].old})
      /\ pendingRequests' = pending
      /\ \E last \in LastSeen(pending) :
           threads' = Compose(appThreads', fsThreads', hookSessions', last)
      /\ summary' = Summarize(threads')
      /\ eventsReady' = TRUE /\ lastThreads' = threads'
      /\ told' = [t \in Threads |->
           IF t \in announced
           THEN [state |-> threads'[t].state, request |-> threads'[t].request]
           ELSE told[t]]
-----------------------------------------------------------------------------
(* The agent.                                                              *)

(* What the end of a rollout file says of its thread: records after the    *)
(* last task_complete, the last of them new or old, or none.               *)
scanTail(tail) ==
  CASE tail = "recent" -> "RUNNING" [] tail = "complete" -> "IDLE" [] OTHER -> "UNKNOWN"
Collected ==
  [t \in DOMAIN files |->
     [NoThread EXCEPT !.state = scanTail(files[t]), !.parent = Parent[t]]]

(* collectFilesystem reads the files and stores what they say at once: it  *)
(* is the only reader, so a later store is a later change of a file.       *)
collectFilesystem ==
  /\ Rebuild(appThreads, Collected, hookSessions, pendingRequests, FALSE)
  /\ UNCHANGED <<refresh, interrupting, outside, inbox>>

(* A rebuild for a reason outside the sources, such as setConnection. *)
setConnection ==
  /\ Rebuild(appThreads, fsThreads, hookSessions, pendingRequests, FALSE)
  /\ UNCHANGED <<refresh, interrupting, outside, inbox>>

(* refreshAppServer asks for the list; the app-server answers in line with *)
(* its notifications.                                                      *)
BeginRefresh ==
  /\ refresh.at = "idle"
  /\ refresh' = [at |-> "listing"]
  /\ inbox' = Append(inbox, [kind |-> "list", of |->
       [t \in DOMAIN served |-> [NoThread EXCEPT !.state = mapAppServerState(served[t]),
                                                 !.parent = Parent[t]]]])
  /\ UNCHANGED <<sources, published, interrupting, outside>>

(* The reply waits for the other requests of the refresh while the read    *)
(* loop handles what follows it.                                           *)
HandleList ==
  /\ inbox # <<>> /\ Head(inbox).kind = "list"
  /\ refresh' = [at |-> "holding", of |-> Head(inbox).of]
  /\ inbox' = Tail(inbox)
  /\ UNCHANGED <<sources, published, interrupting, outside>>

FinishRefresh ==
  /\ refresh.at = "holding"
  /\ refresh' = [at |-> "idle"]
  /\ Rebuild(refresh.of, fsThreads, hookSessions, pendingRequests, FALSE)
  /\ UNCHANGED <<interrupting, outside, inbox>>

(* thread/status/changed: of a thread not known it is only a rebuild. *)
HandleStatusChanged ==
  /\ inbox # <<>> /\ Head(inbox).kind = "status"
  /\ LET t == Head(inbox).thread
         app == IF t \notin DOMAIN appThreads THEN appThreads
                ELSE With(appThreads, t, [appThreads[t] EXCEPT
                       !.state = mapAppServerState(Head(inbox).status)])
     IN  Rebuild(app, fsThreads, hookSessions, pendingRequests, TRUE)
  /\ inbox' = Tail(inbox)
  /\ UNCHANGED <<refresh, interrupting, outside>>

(* Mutant: the status of the turn is taken for the state of the thread. *)
MutHandleTurn ==
  /\ inbox # <<>> /\ Head(inbox).kind = "turn"
  /\ LET t == Head(inbox).thread
         status == Head(inbox).status
         thread == [Of(appThreads, t) EXCEPT !.turnStatus = status, !.state = status]
     IN  Rebuild(With(appThreads, t, thread), fsThreads, hookSessions,
                 pendingRequests, TRUE)
  /\ inbox' = Tail(inbox)
  /\ UNCHANGED <<refresh, interrupting, outside>>
(* turn/started and turn/completed add a thread that is not known. *)
HandleTurn ==
  /\ inbox # <<>> /\ Head(inbox).kind = "turn"
  /\ LET t == Head(inbox).thread
         status == Head(inbox).status
         thread == [Of(appThreads, t) EXCEPT
                      !.turnStatus = status,
                      !.state = CASE status = "inProgress" -> "RUNNING"
                                  [] status = "failed" -> "ERROR"
                                  [] OTHER -> "IDLE"]
     IN  Rebuild(With(appThreads, t, thread), fsThreads, hookSessions,
                 pendingRequests, TRUE)
  /\ inbox' = Tail(inbox)
  /\ UNCHANGED <<refresh, interrupting, outside>>

recordServerRequest ==
  /\ inbox # <<>> /\ Head(inbox).kind = "request"
  /\ Rebuild(appThreads, fsThreads, hookSessions,
             pendingRequests \cup {Head(inbox).of}, TRUE)
  /\ inbox' = Tail(inbox)
  /\ UNCHANGED <<refresh, interrupting, outside>>

(* Mutant: nothing is rebuilt when a request is over. *)
MutHandleResolved ==
  /\ inbox # <<>> /\ Head(inbox).kind = "resolved"
  /\ pendingRequests' = {p \in pendingRequests : p.id # Head(inbox).id}
  /\ inbox' = Tail(inbox)
  /\ UNCHANGED <<appThreads, fsThreads, hookSessions, published, refresh,
                 interrupting, outside>>
HandleResolved ==
  /\ inbox # <<>> /\ Head(inbox).kind = "resolved"
  /\ Rebuild(appThreads, fsThreads, hookSessions,
             {p \in pendingRequests : p.id # Head(inbox).id}, FALSE)
  /\ inbox' = Tail(inbox)
  /\ UNCHANGED <<refresh, interrupting, outside>>

(* A reply to a request that nobody waits for. *)
HandleUnclaimed ==
  /\ inbox # <<>> /\ Head(inbox).kind = "unclaimed"
  /\ inbox' = Tail(inbox)
  /\ UNCHANGED <<sources, published, refresh, interrupting, outside>>

HandleLine ==
  \/ HandleList \/ HandleStatusChanged \/ HandleTurn \/ recordServerRequest
  \/ HandleResolved \/ HandleUnclaimed

(* The answer to a request is written, which a closed app-server does not  *)
(* take; finishPending removes the request.                                *)
finishPending(p) ==
  /\ p \in pendingRequests \ former
  /\ Rebuild(appThreads, fsThreads, hookSessions, pendingRequests \ {p}, FALSE)
  /\ UNCHANGED <<refresh, interrupting, outside, inbox>>

(* Interrupt: the app-server accepts turn/interrupt ... *)
SendInterrupt(t) ==
  /\ t \in DOMAIN served /\ served[t] = "active"
  /\ changes < MaxChanges /\ changes' = changes + 1
  /\ served' = [served EXCEPT ![t] = "idle"]
  /\ inbox' = Append(inbox, [kind |-> "turn", thread |-> t, status |-> "interrupted"])
  /\ interrupting' = interrupting \cup {[thread |-> t, turn |-> turns[t]]}
  /\ UNCHANGED <<sources, published, refresh, turns, files, asked, settled, former>>
(* ... and later the agent records it.                   *)
Interrupt(of) ==
  /\ of \in interrupting
  /\ interrupting' = interrupting \ {of}
  /\ LET app == IF of.thread \notin DOMAIN appThreads THEN appThreads
                ELSE With(appThreads, of.thread, [appThreads[of.thread] EXCEPT
                       !.state = "IDLE", !.turnStatus = "interrupted"])
     IN  Rebuild(app, fsThreads, hookSessions,
                 {p \in pendingRequests : p.thread # of.thread \/ p.turn # of.turn}, FALSE)
  /\ UNCHANGED <<refresh, outside, inbox>>

(* Mutant: nothing is rebuilt when a connection is over. *)
MutclearClient ==
  /\ changes < MaxChanges /\ changes' = changes + 1
  /\ pendingRequests' = pendingRequests \cap former
  /\ former' = asked
  /\ refresh' = [at |-> "idle"] /\ inbox' = <<>>
  /\ served' = [t \in DOMAIN served |-> "notLoaded"]
  /\ UNCHANGED <<appThreads, fsThreads, hookSessions, published, interrupting, turns,
                 files, asked, settled>>
(* The first n lines of an app-server that was closed, a list among them   *)
(* now a reply nobody waits for.                                           *)
Leftover(n) ==
  [i \in 1..n |-> IF inbox[i].kind = "list" THEN [kind |-> "unclaimed"] ELSE inbox[i]]
(* The loop has closed the app-server, because it failed in whatever way,  *)
(* and takes its requests away. What it said of the threads stays. Lines   *)
(* its read loop has in hand may be handled afterwards, so that a request  *)
(* among them is recorded of an app-server that is gone. The next one has  *)
(* loaded nothing yet.                                                     *)
clearClient ==
  /\ changes < MaxChanges /\ changes' = changes + 1
  /\ Rebuild(appThreads, fsThreads, hookSessions, pendingRequests \cap former, FALSE)
  /\ former' = asked
  /\ refresh' = [at |-> "idle"]
  /\ \E n \in 0..Len(inbox) : inbox' = Leftover(n)
  /\ served' = [t \in DOMAIN served |-> "notLoaded"]
  /\ UNCHANGED <<interrupting, turns, files, asked, settled>>

(* RecordHook: an event that is not recorded is only a rebuild. *)
RecordHook(t, event) ==
  /\ changes < MaxChanges /\ changes' = changes + 1
  /\ LET state == mapHookEvent(event)
         hooks == IF state = "UNKNOWN" THEN hookSessions
                  ELSE With(hookSessions, t, [state |-> state, old |-> FALSE])
     IN  Rebuild(appThreads, fsThreads, hooks, pendingRequests, TRUE)
  /\ UNCHANGED <<refresh, interrupting, served, turns, files, asked, settled, former, inbox>>

(* Mutant: the time to live is counted for attention only. *)
MutHookAges(t) ==
  /\ t \in DOMAIN hookSessions /\ ~hookSessions[t].old
  /\ hookSessions[t].state \in Waiting
  /\ hookSessions' = With(hookSessions, t, [hookSessions[t] EXCEPT !.old = TRUE])
  /\ UNCHANGED <<appThreads, fsThreads, pendingRequests, published, refresh,
                 interrupting, outside, inbox>>
(* The time to live (hookTTL) of what a hook said has passed. *)
HookAges(t) ==
  /\ t \in DOMAIN hookSessions /\ ~hookSessions[t].old
  /\ hookSessions' = With(hookSessions, t, [hookSessions[t] EXCEPT !.old = TRUE])
  /\ UNCHANGED <<appThreads, fsThreads, pendingRequests, published, refresh,
                 interrupting, outside, inbox>>
-----------------------------------------------------------------------------
(* The app-server and the rollout files.                                   *)

StatusChanges(t, status) ==
  /\ changes < MaxChanges /\ changes' = changes + 1
  /\ t \in DOMAIN served => served[t] # status
  /\ served' = With(served, t, status)
  /\ inbox' = Append(inbox, [kind |-> "status", thread |-> t, status |-> status])
  /\ UNCHANGED <<sources, published, refresh, interrupting, turns, files, asked, settled, former>>

TurnStarts(t) ==
  /\ changes < MaxChanges /\ changes' = changes + 1
  /\ served' = With(served, t, "active")
  /\ turns' = [turns EXCEPT ![t] = @ + 1]
  /\ inbox' = Append(inbox, [kind |-> "turn", thread |-> t, status |-> "inProgress"])
  /\ UNCHANGED <<sources, published, refresh, interrupting, files, asked, settled, former>>

TurnEnds(t, status) ==
  /\ t \in DOMAIN served /\ served[t] = "active"
  /\ changes < MaxChanges /\ changes' = changes + 1
  /\ served' = [served EXCEPT ![t] = "idle"]
  /\ inbox' = Append(inbox, [kind |-> "turn", thread |-> t, status |-> status])
  /\ UNCHANGED <<sources, published, refresh, interrupting, turns, files, asked, settled, former>>

ServerAsks(t, type) ==
  /\ t \in DOMAIN served /\ served[t] = "active"
  /\ Cardinality(asked) < MaxRequests
  /\ changes < MaxChanges /\ changes' = changes + 1
  /\ LET r == [id |-> Cardinality(asked) + 1, thread |-> t, turn |-> turns[t], type |-> type]
     IN  /\ asked' = asked \cup {r}
         /\ inbox' = Append(inbox, [kind |-> "request", of |-> r])
  /\ UNCHANGED <<sources, published, refresh, interrupting, served, turns, files, settled,
                 former>>

ServerSettles(r) ==
  /\ r \in asked \ (settled \cup former)
  /\ settled' = settled \cup {r}
  /\ inbox' = Append(inbox, [kind |-> "resolved", id |-> r.id])
  /\ UNCHANGED <<sources, published, refresh, interrupting, served, turns, files,
                 asked, former, changes>>

FileChanges(t, tail) ==
  /\ changes < MaxChanges /\ changes' = changes + 1
  /\ t \in DOMAIN files => files[t] # tail
  /\ files' = With(files, t, tail)
  /\ UNCHANGED <<sources, published, refresh, interrupting, served, turns, asked,
                 settled, former, inbox>>
-----------------------------------------------------------------------------
Init ==
  /\ appThreads = Nothing /\ fsThreads = Nothing /\ hookSessions = Nothing
  /\ pendingRequests = {}
  /\ threads = Nothing /\ summary = Summarize(Nothing)
  /\ eventsReady = FALSE /\ lastThreads = Nothing
  /\ told = [t \in Threads |-> [state |-> "UNKNOWN", request |-> 0]]
  /\ refresh = [at |-> "idle"] /\ interrupting = {}
  /\ served \in Partial(Threads, {"active"})
  /\ turns = [t \in Threads |-> 0]
  /\ files = Nothing
  /\ asked = {} /\ settled = {} /\ former = {} /\ inbox = <<>> /\ changes = 0

Outside ==
  \/ \E t \in Threads :
       \/ \E status \in Statuses : StatusChanges(t, status)
       \/ TurnStarts(t)
       \/ \E status \in {"completed", "failed", "interrupted"} : TurnEnds(t, status)
       \/ \E type \in {"approval", "input"} : ServerAsks(t, type)
       \/ \E tail \in {"recent", "silent", "complete"} : FileChanges(t, tail)
       \/ HookAges(t)
  \/ \E r \in asked : ServerSettles(r)

Next ==
  \/ collectFilesystem \/ setConnection \/ clearClient
  \/ BeginRefresh \/ FinishRefresh \/ HandleLine
  \/ \E p \in pendingRequests : finishPending(p)
  \/ \E of \in interrupting : Interrupt(of)
  \/ \E t \in Threads : SendInterrupt(t) \/ \E e \in HookEvents : RecordHook(t, e)
  \/ Outside

Spec == Init /\ [][Next]_vars

(* The read loop, the tickers of the filesystem and of the reconcile, and  *)
(* the clock go on.                                                        *)
FairSpec ==
  /\ Spec
  /\ WF_vars(HandleLine) /\ WF_vars(collectFilesystem)
  /\ WF_vars(BeginRefresh) /\ WF_vars(FinishRefresh)
  /\ \A t \in Threads : WF_vars(HookAges(t))
-----------------------------------------------------------------------------
(* Types of the variables. *)
TypeOK ==
  /\ IsPartial(appThreads, Threads, Seen)
  /\ IsPartial(fsThreads, Threads, Seen)
  /\ IsPartial(hookSessions, Threads, Hooked)
  /\ pendingRequests \cup settled \cup former \subseteq asked
  /\ asked \subseteq Requests
  /\ eventsReady \in BOOLEAN
  /\ told \in [Threads -> [state : States, request : 0..MaxRequests]]
  /\ refresh.at \in {"idle", "listing", "holding"}
  /\ IsPartial(served, Threads, Statuses)
  /\ changes \in 0..MaxChanges

(* Attention remains visible while other tasks keep running, and while     *)
(* hooks, lists and files say otherwise: the thread of a pending request   *)
(* names a pending request of its own and waits as that one says, and      *)
(* nothing names a request that is over, whichever of the handlers, of the *)
(* answers, of the interrupts or of the ends of a connection removed it.   *)
(* Of two requests of one thread either may be the one named, because      *)
(* pendingRequests is a map: then an approval can show as an input.  The   *)
(* workload is approval, input, error, running in this order, as far as    *)
(* the threads shown have it, and nothing that no thread shows             *)
(* (decoratePendingRequestsLocked, Summarize, contract.md:124).            *)
AttentionVisible ==
  LET shows == {threads[t].state : t \in DOMAIN threads}
  IN  /\ \A p \in pendingRequests :
           p.thread \in DOMAIN threads /\ threads[p.thread].request # 0
      /\ \A t \in {u \in DOMAIN threads : threads[u].request # 0} :
           \E p \in pendingRequests :
             /\ p.id = threads[t].request /\ p.thread = t
             /\ threads[t].state = IF p.type = "approval" THEN "WAITING_APPROVAL"
                                   ELSE "WAITING_INPUT"
      /\ summary.workload \in shows \cup {"UNKNOWN"}
      /\ "WAITING_APPROVAL" \in shows => summary.workload = "WAITING_APPROVAL"
      /\ "WAITING_INPUT" \in shows => summary.workload \in Waiting
      /\ "ERROR" \in shows => summary.workload \in Waiting \cup {"ERROR"}
      /\ "RUNNING" \in shows => summary.workload \in Active \cup {"ERROR"}

(* The events are enough to know what runs, waits or has failed: a reader   *)
(* of the events and of the first snapshot was told the state a thread is   *)
(* now in, and the request it waits for, whoever wrote it and whichever     *)
(* rebuild made the baseline (emitTransitionEventsLocked,                   *)
(* prepareLiveEventLocked).                                                 *)
ActivityAnnounced ==
  \A t \in DOMAIN threads : threads[t].state \in Active \cup {"ERROR"} =>
    told[t] = [state |-> threads[t].state, request |-> threads[t].request]

(* One workflow is counted once: a subagent has the root of its parent      *)
(* while the parent is shown, whatever sources the two came from, and the   *)
(* workflows are never more than the workers (assignThreadHierarchy,        *)
(* mergeThreads, Summarize).                                                *)
WorkflowsShareRoots ==
  /\ \A t \in DOMAIN threads : threads[t].parent \in DOMAIN threads =>
       threads[t].root = threads[threads[t].parent].root
  /\ summary.workflows <= summary.workers
  /\ summary.workers > 0 => summary.workflows > 0

(* When everything outside is quiet the published state becomes and stays   *)
(* what the app-server says, though a reconcile can undo a later            *)
(* notification, an interrupt can be recorded after the next turn began     *)
(* and a hook can cover both for a time (refreshAppServer, Interrupt,       *)
(* applyHooksLocked, mergeThreads).                                         *)
EventuallyTrue ==
  <>[](\A t \in DOMAIN served :
         \/ mapAppServerState(served[t]) = "UNKNOWN"
         \/ \E p \in pendingRequests : p.thread = t
         \/ t \in DOMAIN threads /\ threads[t].state = mapAppServerState(served[t]))
=============================================================================
