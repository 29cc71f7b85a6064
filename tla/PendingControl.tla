--------------------------- MODULE PendingControl ---------------------------
(***************************************************************************)
(* The requests an app-server asks of its user and the HTTP actions that   *)
(* answer them (agent/internal/monitor/control.go), over the connections   *)
(* that carry both (appserver/client.go, clearClient in monitor.go).       *)
(*                                                                         *)
(* Each action runs in a goroutine of its own and takes the lock only to   *)
(* look the request up and to remove it: the answer is written in between. *)
(* Each connection has a read loop that keeps handling the lines it has    *)
(* already buffered when the main loop closes the connection under it.     *)
(*                                                                         *)
(* A turn stands for the pair (thread_id, turn_id) an action must name.    *)
(***************************************************************************)
EXTENDS Naturals, Sequences, FiniteSets

CONSTANTS
  Clients,      \* successive app-server connections
  AppIds,       \* ids an app-server gives its requests, again from the start
                \* on every connection
  Turns,
  Asked,        \* the methods its requests use
  Workers,      \* goroutines of the action endpoints
  None,
  MaxRequests   \* bound: requests asked

VARIABLES
  client,           \* m.client
  alive,            \* the connections whose child process runs
  reader,           \* the connections whose read loop runs
  closed,           \* the connections the main loop has closed
  inbox,            \* lines of each connection not handled yet
  asked, settled,   \* what each app-server asked, and what of it is over
  requestSequence, pendingRequests,
  worker,           \* where each action is, and what it holds
  answers,          \* history: answers written
  recorded,         \* history: every request ever put in pendingRequests
  removals,         \* history: the occasions on which requests are removed
  closedEarly       \* history: connections closed before their read loop ended

connVars == <<client, alive, reader, closed, inbox, asked, settled, closedEarly>>
tableVars == <<requestSequence, pendingRequests, recorded, removals>>
vars == <<connVars, tableVars, worker, answers>>

(* The methods recordServerRequest tells apart. *)
Methods == {"commandApproval", "fileApproval", "userInput", "permissions",
            "elicitation", "unknown"}
(* Mutant: the type is the method as it came. *)
MutTypeOf(method) == method
TypeOf(method) ==
  IF method \in {"userInput", "elicitation"} THEN "input" ELSE "approval"
IsControllable(method) == method \in {"commandApproval", "fileApproval", "userInput"}

ASSUME PendingAssumption ==
  /\ None \notin Clients
  /\ Asked \subseteq Methods
  /\ MaxRequests \in Nat

Asks == [appId : AppIds, turn : Turns, method : Asked]
Lines == [kind : {"request"}, ask : Asks] \cup [kind : {"resolved"}, appId : AppIds]
Pendings == [id : 1..MaxRequests, client : Clients, appId : AppIds, turn : Turns,
             type : {"approval", "input"}, controllable : BOOLEAN]
Answers == [id : 1..MaxRequests, client : Clients, appId : AppIds, turn : Turns,
            type : {"approval", "input"}, by : Workers]
Removals == [kind : {"answered"}, of : 1..MaxRequests]
              \cup [kind : {"resolved"}, of : AppIds, by : Clients]
              \cup [kind : {"interrupted"}, of : Turns]
              \cup [kind : {"disconnected"}, of : Clients]

Idle == [at |-> "idle"]
WorkerStates ==
  {Idle}
    \cup [at : {"respond", "finish"}, pending : Pendings]
    \cup [at : {"interrupting", "interrupted"}, client : Clients, turn : Turns]

TypeOK ==
  /\ client \in Clients \cup {None}
  /\ alive \subseteq Clients
  /\ reader \subseteq Clients
  /\ closed \subseteq Clients
  /\ inbox \in [Clients -> Seq(Lines)]
  /\ asked \in [Clients -> SUBSET Asks]
  /\ settled \in [Clients -> SUBSET Asks]
  /\ requestSequence \in 0..MaxRequests
  /\ pendingRequests \subseteq Pendings
  /\ worker \in [Workers -> WorkerStates]
  /\ answers \subseteq Answers
  /\ recorded \subseteq Pendings
  /\ removals \subseteq Removals
  /\ closedEarly \subseteq Clients

Init ==
  /\ client = None
  /\ alive = {} /\ reader = {} /\ closed = {}
  /\ inbox = [k \in Clients |-> <<>>]
  /\ asked = [k \in Clients |-> {}]
  /\ settled = [k \in Clients |-> {}]
  /\ requestSequence = 0
  /\ pendingRequests = {}
  /\ worker = [w \in Workers |-> Idle]
  /\ answers = {} /\ recorded = {} /\ removals = {} /\ closedEarly = {}

-----------------------------------------------------------------------------
(* The main loop (runAppServer) and the child process.                     *)

(* ConnectStdio succeeded: the read loop runs and the client is published. *)
Connect(k) ==
  /\ client = None
  /\ alive \cup reader \subseteq closed   \* every earlier one is closed
  /\ k \notin closed
  /\ client' = k
  /\ alive' = alive \cup {k}
  /\ reader' = reader \cup {k}
  /\ UNCHANGED <<closed, inbox, asked, settled, closedEarly, tableVars, worker, answers>>

(* The app-server puts a question to its user, under a fresh id. *)
ServerAsks(k, ask) ==
  /\ k \in alive
  /\ \A other \in asked[k] : other.appId # ask.appId
  /\ Cardinality(UNION {{k2} \X asked[k2] : k2 \in Clients}) < MaxRequests
  /\ asked' = [asked EXCEPT ![k] = @ \cup {ask}]
  /\ inbox' = [inbox EXCEPT ![k] = Append(@, [kind |-> "request", ask |-> ask])]
  /\ UNCHANGED <<client, alive, reader, closed, settled, closedEarly,
                 tableVars, worker, answers>>

(* The question is settled: answered here, or overtaken by its turn. *)
ServerResolves(k, ask) ==
  /\ k \in alive
  /\ ask \in asked[k] \ settled[k]
  /\ settled' = [settled EXCEPT ![k] = @ \cup {ask}]
  /\ inbox' = [inbox EXCEPT ![k] = Append(@, [kind |-> "resolved", appId |-> ask.appId])]
  /\ UNCHANGED <<client, alive, reader, closed, asked, closedEarly, tableVars, worker, answers>>

ProcessDies(k) ==
  /\ k \in alive
  /\ alive' = alive \ {k}
  /\ UNCHANGED <<client, reader, closed, inbox, asked, settled, closedEarly, tableVars, worker, answers>>

(* scanner.Scan fails: at the end of a dead process's output, or anywhere  *)
(* once Close has waited for the process and closed the pipe.              *)
ReaderEnds(k) ==
  /\ k \in reader \ alive
  /\ inbox[k] = <<>> \/ k \in closed
  /\ reader' = reader \ {k}
  /\ inbox' = [inbox EXCEPT ![k] = <<>>]
  /\ UNCHANGED <<client, alive, closed, asked, settled, closedEarly, tableVars, worker, answers>>

(* Close, from a failed refresh or after Done: it kills the process.       *)
CloseClient(k) ==
  /\ client = k
  /\ k \notin closed
  /\ closed' = closed \cup {k}
  /\ alive' = alive \ {k}
  /\ closedEarly' = IF k \in reader THEN closedEarly \cup {k} ELSE closedEarly
  /\ UNCHANGED <<client, reader, inbox, asked, settled, tableVars, worker, answers>>

(* Mutant: only the client is cleared. *)
MutClearClient(k) ==
  /\ client = k
  /\ k \in closed
  /\ client' = None
  /\ removals' = removals \cup {[kind |-> "disconnected", of |-> k]}
  /\ UNCHANGED <<alive, reader, closed, inbox, asked, settled, closedEarly,
                 requestSequence, pendingRequests, recorded, worker, answers>>

(* clearClient, the next step of the main loop. *)
ClearClient(k) ==
  /\ client = k
  /\ k \in closed
  /\ client' = None
  /\ pendingRequests' = {p \in pendingRequests : p.client # k}
  /\ removals' = removals \cup {[kind |-> "disconnected", of |-> k]}
  /\ UNCHANGED <<alive, reader, closed, inbox, asked, settled, closedEarly,
                 requestSequence, recorded, worker, answers>>

-----------------------------------------------------------------------------
(* The read loop of a connection: handleAppServerMessage.                  *)

(* Mutant: the id is the size of the table plus one. *)
MutRecordServerRequest(k, ask) ==
  LET p == [id |-> Cardinality(pendingRequests) + 1, client |-> k, appId |-> ask.appId,
            turn |-> ask.turn, type |-> TypeOf(ask.method),
            controllable |-> IsControllable(ask.method)]
  IN /\ pendingRequests' = pendingRequests \cup {p}
     /\ recorded' = recorded \cup {p}
     /\ UNCHANGED <<requestSequence, removals>>

(* recordServerRequest: a request it does not know is ignored. *)
RecordServerRequest(k, ask) ==
  IF ask.method = "unknown"
  THEN UNCHANGED tableVars
  ELSE LET p == [id |-> requestSequence + 1, client |-> k, appId |-> ask.appId,
                 turn |-> ask.turn, type |-> TypeOf(ask.method),
                 controllable |-> IsControllable(ask.method)]
       IN /\ requestSequence' = requestSequence + 1
          /\ pendingRequests' = pendingRequests \cup {p}
          /\ recorded' = recorded \cup {p}
          /\ UNCHANGED removals

(* serverRequest/resolved: the id alone is compared, not the connection. *)
RequestResolved(k, appId) ==
  /\ pendingRequests' = {p \in pendingRequests : p.appId # appId}
  /\ removals' = removals \cup {[kind |-> "resolved", of |-> appId, by |-> k]}
  /\ UNCHANGED <<requestSequence, recorded>>

HandleLine(k) ==
  /\ k \in reader
  /\ inbox[k] # <<>>
  /\ inbox' = [inbox EXCEPT ![k] = Tail(@)]
  /\ LET line == Head(inbox[k])
     IN IF line.kind = "request" THEN RecordServerRequest(k, line.ask)
                                 ELSE RequestResolved(k, line.appId)
  /\ UNCHANGED <<client, alive, reader, closed, asked, settled, closedEarly, worker, answers>>

-----------------------------------------------------------------------------
(* The action endpoints.                                                   *)

(* lookupPending: what an action naming this id, turn and type is told. *)
LookupPending(id, turn, type) ==
  LET found == {p \in pendingRequests : p.id = id}
  IN IF found = {} THEN "not_found"
     ELSE IF \E p \in found : p.turn # turn \/ p.type # type THEN "conflict"
     ELSE IF \E p \in found : ~p.controllable THEN "not_controllable"
     ELSE "ok"

(* Approve, Reject and SubmitInput up to the answer: the lookup under the  *)
(* read lock.  Every other verdict, a decision that is not offered and an  *)
(* empty answer are error responses that change nothing.                   *)
StartAction(w, id, turn, type) ==
  /\ worker[w] = Idle
  /\ LookupPending(id, turn, type) = "ok"
  /\ \E p \in pendingRequests :
       /\ p.id = id
       /\ worker' = [worker EXCEPT ![w] = [at |-> "respond", pending |-> p]]
  /\ UNCHANGED <<connVars, tableVars, answers>>

(* Mutant: the answer is written on m.client. *)
MutRespond(w) ==
  /\ worker[w].at = "respond"
  /\ client \in alive
  /\ LET p == worker[w].pending
     IN answers' = answers \cup {[id |-> p.id, client |-> client, appId |-> p.appId,
                                  turn |-> p.turn, type |-> p.type, by |-> w]}
  /\ worker' = [worker EXCEPT ![w] = [@ EXCEPT !.at = "finish"]]
  /\ UNCHANGED <<connVars, tableVars>>

(* pending.client.Respond: a write on that connection's stdin. *)
Respond(w) ==
  /\ worker[w].at = "respond"
  /\ LET p == worker[w].pending
     IN IF p.client \in alive
        THEN /\ answers' = answers \cup {[id |-> p.id, client |-> p.client, appId |-> p.appId,
                                          turn |-> p.turn, type |-> p.type, by |-> w]}
             /\ worker' = [worker EXCEPT ![w] = [@ EXCEPT !.at = "finish"]]
        ELSE /\ worker' = [worker EXCEPT ![w] = Idle]
             /\ UNCHANGED answers
  /\ UNCHANGED <<connVars, tableVars>>

FinishPending(w) ==
  /\ worker[w].at = "finish"
  /\ pendingRequests' = pendingRequests \ {worker[w].pending}
  /\ removals' = removals \cup {[kind |-> "answered", of |-> worker[w].pending.id]}
  /\ worker' = [worker EXCEPT ![w] = Idle]
  /\ UNCHANGED <<connVars, requestSequence, recorded, answers>>

(* Interrupt reads m.client under the lock, then asks that app-server. *)
StartInterrupt(w, turn) ==
  /\ worker[w] = Idle
  /\ client # None
  /\ worker' = [worker EXCEPT ![w] =
                  [at |-> "interrupting", client |-> client, turn |-> turn]]
  /\ UNCHANGED <<connVars, tableVars, answers>>

(* The reply to turn/interrupt: none of a dead process, only the timeout. *)
InterruptReply(w) ==
  /\ worker[w].at = "interrupting"
  /\ \/ /\ worker[w].client \in alive
        /\ worker' = [worker EXCEPT ![w] = [@ EXCEPT !.at = "interrupted"]]
     \/ worker' = [worker EXCEPT ![w] = Idle]
  /\ UNCHANGED <<connVars, tableVars, answers>>

(* Mutant: an interrupt drops every request. *)
MutFinishInterrupt(w) ==
  /\ worker[w].at = "interrupted"
  /\ pendingRequests' = {}
  /\ removals' = removals \cup {[kind |-> "interrupted", of |-> worker[w].turn]}
  /\ worker' = [worker EXCEPT ![w] = Idle]
  /\ UNCHANGED <<connVars, requestSequence, recorded, answers>>

FinishInterrupt(w) ==
  /\ worker[w].at = "interrupted"
  /\ pendingRequests' = {p \in pendingRequests : p.turn # worker[w].turn}
  /\ removals' = removals \cup {[kind |-> "interrupted", of |-> worker[w].turn]}
  /\ worker' = [worker EXCEPT ![w] = Idle]
  /\ UNCHANGED <<connVars, requestSequence, recorded, answers>>

-----------------------------------------------------------------------------
Next ==
  \/ \E k \in Clients :
       \/ Connect(k) \/ ProcessDies(k) \/ ReaderEnds(k)
       \/ CloseClient(k) \/ ClearClient(k) \/ HandleLine(k)
       \/ \E ask \in Asks : ServerAsks(k, ask) \/ ServerResolves(k, ask)
  \/ \E w \in Workers :
       \/ \E id \in 1..MaxRequests, turn \in Turns, type \in {"approval", "input"} :
            StartAction(w, id, turn, type)
       \/ Respond(w) \/ FinishPending(w)
       \/ \E turn \in Turns : StartInterrupt(w, turn)
       \/ InterruptReply(w) \/ FinishInterrupt(w)

Spec == Init /\ [][Next]_vars

-----------------------------------------------------------------------------
(* An answer goes to the connection that asked, carries the id, the turn   *)
(* and the kind of a request of that connection, and only where this agent *)
(* may answer: actions outlive the connection their request came from.     *)
AnswersFitRequest ==
  \A a \in answers : \E p \in recorded :
    /\ p.id = a.id /\ p.client = a.client /\ p.appId = a.appId
    /\ p.turn = a.turn /\ p.type = a.type
    /\ p.controllable

(* A request leaves the table only when it was answered, reported resolved *)
(* under its id, interrupted with its turn, or lost with its connection;   *)
(* a failed or refused action never takes it away.  serverRequest/resolved *)
(* compares ids only, and every connection counts from the start: it may   *)
(* hit the request of another connection, but only if one of the two was   *)
(* closed while its read loop still held lines.                            *)
RemovedForAReason ==
  \A p \in recorded \ pendingRequests :
    \/ [kind |-> "answered", of |-> p.id] \in removals
    \/ \E k \in Clients :
         /\ [kind |-> "resolved", of |-> p.appId, by |-> k] \in removals
         /\ k = p.client \/ {k, p.client} \cap closedEarly # {}
    \/ [kind |-> "interrupted", of |-> p.turn] \in removals
    \/ [kind |-> "disconnected", of |-> p.client] \in removals

Cleared(k) == [kind |-> "disconnected", of |-> k] \in removals

(* When the read loop had already ended at the close (the Done branch of   *)
(* runAppServer), clearClient leaves no request of that connection behind. *)
EofLeavesNoRequest ==
  \A p \in pendingRequests : Cleared(p.client) => p.client \in closedEarly

(* A request that was answered is not answered again: the later action     *)
(* gets 404.  Two actions that both looked it up first both answer it.     *)
AnsweredOnce ==
  \A a, b \in answers : a.id = b.id => a.by = b.by

(* An action reported as done is over: what it answered is gone for good,  *)
(* whatever the read loops and the other actions do meanwhile.             *)
AnsweredIsGone ==
  \A p \in pendingRequests : [kind |-> "answered", of |-> p.id] \notin removals
=============================================================================
