----------------------- MODULE PendingControlProofs -----------------------
(***************************************************************************)
(* The safety of the control endpoints for any number of connections,      *)
(* requests, turns and concurrent actions.                                 *)
(***************************************************************************)
EXTENDS PendingControl, FiniteSetTheorems, SequenceTheorems, TLAPS

(* What the actions rely on between two critical sections: a request they  *)
(* hold was recorded, and it was controllable when they looked it up.      *)
HeldIsRecorded ==
  /\ pendingRequests \subseteq recorded
  /\ \A w \in Workers :
       worker[w].at \in {"respond", "finish"} =>
         /\ worker[w].pending \in recorded
         /\ worker[w].pending.controllable

(* nextRequestID never gives an id twice, so an id names one request.      *)
IdsUnique ==
  /\ requestSequence \in Nat
  /\ \A p \in recorded : p.id \in Nat /\ p.id <= requestSequence
  /\ \A p, q \in recorded : p.id = q.id => p = q
  /\ \A r \in removals : r.kind = "answered" => r.of \in Nat /\ r.of <= requestSequence

(* A connection closed after its read loop ended reads nothing any more.   *)
ClosedIsSilent ==
  /\ \A k \in Clients : Cleared(k) => k \in closed
  /\ \A k \in closed \ closedEarly : k \notin reader
  /\ closedEarly \subseteq closed
  /\ closed \subseteq Clients

(* There is one connection at a time: of the others, all that is left is a *)
(* read loop of a connection closed early, and the requests it recorded.   *)
OneConnection ==
  /\ reader \ closed \subseteq {client}
  /\ \A k \in closed : k = client \/ Cleared(k)
  /\ \A p \in pendingRequests : p.client = client \/ Cleared(p.client)

(* What of the types the argument needs. *)
Shapes ==
  /\ client \in Clients \cup {None}
  /\ worker \in [Workers -> {Idle} \cup [at : {"respond", "finish"}, pending : recorded]
                              \cup [at : {"interrupting", "interrupted"},
                                    client : Clients, turn : Turns]]
  /\ \A p \in recorded : p.client \in Clients

IInv ==
  /\ Shapes
  /\ HeldIsRecorded
  /\ IdsUnique
  /\ ClosedIsSilent
  /\ OneConnection
  /\ AnswersFitRequest
  /\ RemovedForAReason
  /\ AnsweredIsGone
  /\ EofLeavesNoRequest

LEMMA InitIInv == Init => IInv
<1> SUFFICES ASSUME Init PROVE IInv
  OBVIOUS
<1>1. Shapes
  BY DEF Init, Shapes
<1>2. HeldIsRecorded
  BY DEF Init, HeldIsRecorded, Idle
<1>3. IdsUnique
  BY DEF Init, IdsUnique
<1>4. ClosedIsSilent /\ OneConnection
  BY DEF Init, ClosedIsSilent, OneConnection, Cleared
<1>5. AnswersFitRequest /\ RemovedForAReason /\ AnsweredIsGone /\ EofLeavesNoRequest
  BY DEF Init, AnswersFitRequest, RemovedForAReason, AnsweredIsGone, EofLeavesNoRequest
<1> QED
  BY <1>1, <1>2, <1>3, <1>4, <1>5 DEF IInv

(* Steps that touch neither the table, the actions nor the answers.        *)
LEMMA ConnectionStep ==
  ASSUME IInv, UNCHANGED <<tableVars, worker, answers>>, ClosedIsSilent', OneConnection',
         closedEarly \subseteq closedEarly', client' \in Clients \cup {None}
  PROVE  IInv'
<1> USE DEF IInv, tableVars
<1>1. Shapes'
  BY DEF Shapes
<1>2. HeldIsRecorded'
  BY DEF HeldIsRecorded
<1>3. IdsUnique'
  BY DEF IdsUnique
<1>4. AnswersFitRequest' /\ RemovedForAReason' /\ AnsweredIsGone'
  BY DEF AnswersFitRequest, RemovedForAReason, AnsweredIsGone
<1>5. EofLeavesNoRequest'
  BY DEF EofLeavesNoRequest, Cleared
<1> QED
  BY <1>1, <1>2, <1>3, <1>4, <1>5

(* Steps of an action that only move it on: what it then holds is recorded *)
(* and controllable.                                                       *)
LEMMA WorkerStep ==
  ASSUME IInv, UNCHANGED <<connVars, tableVars>>, Shapes', HeldIsRecorded',
         AnswersFitRequest'
  PROVE  IInv'
<1> USE DEF IInv, tableVars, connVars
<1>1. IdsUnique' /\ ClosedIsSilent' /\ OneConnection'
  BY DEF IdsUnique, ClosedIsSilent, OneConnection, Cleared
<1>2. RemovedForAReason' /\ AnsweredIsGone' /\ EofLeavesNoRequest'
  BY DEF RemovedForAReason, AnsweredIsGone, EofLeavesNoRequest, Cleared
<1> QED
  BY <1>1, <1>2

LEMMA OneConnectionKept ==
  ASSUME OneConnection, UNCHANGED <<client, reader, closed>>,
         pendingRequests' \subseteq pendingRequests, removals \subseteq removals'
  PROVE  OneConnection'
  BY DEF OneConnection, Cleared

(* The four ways of RemovedForAReason.                                     *)
Justifies(reason, p) ==
  \/ reason = [kind |-> "answered", of |-> p.id]
  \/ \E k \in Clients :
       /\ reason = [kind |-> "resolved", of |-> p.appId, by |-> k]
       /\ k = p.client \/ {k, p.client} \cap closedEarly # {}
  \/ reason = [kind |-> "interrupted", of |-> p.turn]
  \/ reason = [kind |-> "disconnected", of |-> p.client]

(* Steps that take requests out of the table, for a reason they record.    *)
LEMMA RemovalStep ==
  ASSUME IInv, NEW reason,
         pendingRequests' \subseteq pendingRequests,
         removals' = removals \cup {reason},
         UNCHANGED <<requestSequence, recorded, answers, reader, closed, closedEarly>>,
         \A p \in pendingRequests \ pendingRequests' : Justifies(reason, p),
         reason.kind = "answered" =>
           /\ reason.of \in Nat /\ reason.of <= requestSequence
           /\ \A p \in pendingRequests' : p.id # reason.of,
         \A k \in Clients : reason = [kind |-> "disconnected", of |-> k] =>
           /\ k \in closed
           /\ \A p \in pendingRequests' : p.client # k,
         Shapes', HeldIsRecorded', OneConnection'
  PROVE  IInv'
<1> USE DEF IInv
<1>1. IdsUnique'
  BY DEF IdsUnique
<1>2. \A k \in Clients :
        Cleared(k)' => Cleared(k) \/ reason = [kind |-> "disconnected", of |-> k]
  BY DEF Cleared
<1>3. ClosedIsSilent'
  BY <1>2 DEF ClosedIsSilent, Cleared
<1>4. AnswersFitRequest'
  BY DEF AnswersFitRequest
<1>5. RemovedForAReason'
  BY DEF RemovedForAReason, Justifies
<1>6. AnsweredIsGone'
  <2> SUFFICES ASSUME NEW p \in pendingRequests',
                      [kind |-> "answered", of |-> p.id] \in removals'
               PROVE  FALSE
    BY DEF AnsweredIsGone
  <2>1. [kind |-> "answered", of |-> p.id] \notin removals
    BY DEF AnsweredIsGone
  <2>2. reason = [kind |-> "answered", of |-> p.id]
    BY <2>1
  <2>3. reason.kind = "answered" /\ reason.of = p.id
    BY <2>2
  <2> QED
    BY <2>3
<1>7. \A p \in pendingRequests : p.client \in Clients
  BY DEF Shapes, HeldIsRecorded
<1>8. EofLeavesNoRequest'
  BY <1>2, <1>7 DEF EofLeavesNoRequest, Cleared
<1> QED
  BY <1>1, <1>3, <1>4, <1>5, <1>6, <1>8

LEMMA NextIInv == IInv /\ [Next]_vars => IInv'
<1> SUFFICES ASSUME IInv, [Next]_vars PROVE IInv'
  OBVIOUS
<1> USE DEF IInv
<1>1. ASSUME NEW k \in Clients, Connect(k)
      PROVE  IInv'
  <2>2. /\ client = None /\ client' = k /\ reader' = reader \cup {k}
        /\ reader \subseteq closed
        /\ UNCHANGED <<closed, closedEarly, removals, pendingRequests>>
    BY <1>1 DEF Connect, tableVars
  <2>3. k \notin closed
    BY <1>1 DEF Connect
  <2>4. None \notin Clients /\ \A p \in pendingRequests : p.client \in Clients
    BY PendingAssumption DEF Shapes, HeldIsRecorded
  <2>5. closed \subseteq Clients
    BY DEF ClosedIsSilent
  <2>6. \A j \in closed : Cleared(j)
    BY <2>2, <2>4, <2>5 DEF OneConnection
  <2>7. \A p \in pendingRequests : Cleared(p.client)
    BY <2>2, <2>4 DEF OneConnection
  <2>8. OneConnection'
    BY <2>2, <2>6, <2>7 DEF OneConnection, Cleared
  <2>9. ClosedIsSilent'
    BY <2>2, <2>3 DEF ClosedIsSilent, Cleared
  <2>1. ClosedIsSilent' /\ OneConnection' /\ client' \in Clients \cup {None}
    BY <2>2, <2>8, <2>9
  <2> QED
    BY <1>1, <2>1, ConnectionStep DEF Connect
<1>2. ASSUME NEW k \in Clients, NEW ask \in Asks, ServerAsks(k, ask)
      PROVE  IInv'
  <2>1. ClosedIsSilent' /\ OneConnection' /\ client' \in Clients \cup {None}
    BY <1>2 DEF ServerAsks, Shapes, ClosedIsSilent, OneConnection, Cleared, tableVars
  <2> QED
    BY <1>2, <2>1, ConnectionStep DEF ServerAsks
<1>3. ASSUME NEW k \in Clients, NEW ask \in Asks, ServerResolves(k, ask)
      PROVE  IInv'
  <2>1. ClosedIsSilent' /\ OneConnection' /\ client' \in Clients \cup {None}
    BY <1>3 DEF ServerResolves, Shapes, ClosedIsSilent, OneConnection, Cleared, tableVars
  <2> QED
    BY <1>3, <2>1, ConnectionStep DEF ServerResolves
<1>4. ASSUME NEW k \in Clients, ProcessDies(k)
      PROVE  IInv'
  <2>1. ClosedIsSilent' /\ OneConnection' /\ client' \in Clients \cup {None}
    BY <1>4 DEF ProcessDies, Shapes, ClosedIsSilent, OneConnection, Cleared, tableVars
  <2> QED
    BY <1>4, <2>1, ConnectionStep DEF ProcessDies
<1>5. ASSUME NEW k \in Clients, ReaderEnds(k)
      PROVE  IInv'
  <2>1. ClosedIsSilent' /\ OneConnection' /\ client' \in Clients \cup {None}
    BY <1>5 DEF ReaderEnds, Shapes, ClosedIsSilent, OneConnection, Cleared, tableVars
  <2> QED
    BY <1>5, <2>1, ConnectionStep DEF ReaderEnds
<1>6. ASSUME NEW k \in Clients, CloseClient(k)
      PROVE  IInv'
  <2>1. ClosedIsSilent' /\ OneConnection' /\ client' \in Clients \cup {None}
    BY <1>6 DEF CloseClient, Shapes, ClosedIsSilent, OneConnection, Cleared, tableVars
  <2>2. closedEarly \subseteq closedEarly'
    BY <1>6 DEF CloseClient
  <2> QED
    BY <1>6, <2>1, <2>2, ConnectionStep DEF CloseClient
<1>7. ASSUME NEW k \in Clients, ClearClient(k)
      PROVE  IInv'
  <2> DEFINE reason == [kind |-> "disconnected", of |-> k]
  <2>1. Shapes' /\ HeldIsRecorded'
    BY <1>7 DEF ClearClient, Shapes, HeldIsRecorded
  <2>2. \A j : reason = [kind |-> "disconnected", of |-> j] => j = k
    OBVIOUS
  <2>3. reason.kind # "answered"
    OBVIOUS
  <2>4. OneConnection'
    <3>1. Cleared(k)' /\ \A j : Cleared(j) => Cleared(j)'
      BY <1>7 DEF ClearClient, Cleared
    <3>2. reader \ closed = {}
      BY <1>7 DEF ClearClient, OneConnection
    <3>3. \A j \in closed : Cleared(j)'
      BY <1>7, <3>1 DEF ClearClient, OneConnection
    <3>4. \A p \in pendingRequests : Cleared(p.client)' 
      BY <1>7, <3>1 DEF ClearClient, OneConnection
    <3> QED
      BY <1>7, <3>2, <3>3, <3>4 DEF ClearClient, OneConnection, Cleared
  <2>5. \A p \in pendingRequests \ pendingRequests' : Justifies(reason, p)
    BY <1>7 DEF ClearClient, Justifies
  <2> QED
    BY <1>7, <2>1, <2>2, <2>3, <2>4, <2>5, RemovalStep DEF ClearClient
<1>8. ASSUME NEW k \in Clients, HandleLine(k)
      PROVE  IInv'
  <2> DEFINE line == Head(inbox[k])
  <2>1. CASE line.kind = "request" /\ line.ask.method = "unknown"
    <3>1. ClosedIsSilent' /\ OneConnection' /\ client' \in Clients \cup {None}
      BY <1>8, <2>1 DEF HandleLine, Shapes, RecordServerRequest, ClosedIsSilent, OneConnection, Cleared, tableVars
    <3> QED
      BY <1>8, <2>1, <3>1, ConnectionStep DEF HandleLine, RecordServerRequest
  <2>2. CASE line.kind = "request" /\ line.ask.method # "unknown"
    <3> DEFINE new == [id |-> requestSequence + 1, client |-> k, appId |-> line.ask.appId,
                       turn |-> line.ask.turn, type |-> TypeOf(line.ask.method),
                       controllable |-> IsControllable(line.ask.method)]
    <3>1. /\ requestSequence' = requestSequence + 1
          /\ pendingRequests' = pendingRequests \cup {new}
          /\ recorded' = recorded \cup {new}
          /\ UNCHANGED <<client, removals, worker, answers, reader, closed, closedEarly>>
      BY <1>8, <2>2 DEF HandleLine, RecordServerRequest
    <3>2. new.id = requestSequence + 1 /\ new.client = k
      OBVIOUS
    <3> HIDE DEF new
    <3>3. Shapes'
      BY <3>1, <3>2 DEF Shapes
    <3>4. HeldIsRecorded'
      BY <3>1 DEF HeldIsRecorded
    <3>5. IdsUnique'
      BY <3>1, <3>2 DEF IdsUnique
    <3>6. ClosedIsSilent' /\ OneConnection'
      BY <1>8, <3>1, <3>2 DEF ClosedIsSilent, OneConnection, Cleared, HandleLine
    <3>7. AnswersFitRequest' /\ RemovedForAReason'
      BY <3>1 DEF AnswersFitRequest, RemovedForAReason
    <3>8. AnsweredIsGone'
      <4> SUFFICES ASSUME [kind |-> "answered", of |-> new.id] \in removals
                   PROVE  FALSE
        BY <3>1 DEF AnsweredIsGone
      <4> DEFINE r == [kind |-> "answered", of |-> new.id]
      <4>1. r.kind = "answered" /\ r.of = new.id
        OBVIOUS
      <4>2. r.of <= requestSequence /\ requestSequence \in Nat
        BY <4>1 DEF IdsUnique
      <4> QED
        BY <3>2, <4>1, <4>2
    <3>9. EofLeavesNoRequest'
      BY <1>8, <3>1, <3>2 DEF EofLeavesNoRequest, ClosedIsSilent, Cleared, HandleLine
    <3> QED
      BY <3>3, <3>4, <3>5, <3>6, <3>7, <3>8, <3>9
  <2>3. CASE line.kind # "request"
    <3> DEFINE reason == [kind |-> "resolved", of |-> line.appId, by |-> k]
    <3>1. /\ pendingRequests' = {p \in pendingRequests : p.appId # line.appId}
          /\ removals' = removals \cup {reason}
          /\ UNCHANGED <<client, requestSequence, recorded, worker, answers, reader, closed, closedEarly>>
      BY <1>8, <2>3 DEF HandleLine, RequestResolved
    <3>2. Shapes' /\ HeldIsRecorded'
      BY <3>1 DEF Shapes, HeldIsRecorded
    <3>3. reason.kind = "resolved"
      OBVIOUS
    <3>4. \A j : reason # [kind |-> "disconnected", of |-> j]
      OBVIOUS
    <3>5. \A p \in pendingRequests : k = p.client \/ {k, p.client} \cap closedEarly # {}
      <4> SUFFICES ASSUME NEW p \in pendingRequests, k # p.client
                   PROVE  k \in closedEarly \/ p.client \in closedEarly
        OBVIOUS
      <4>1. CASE k \in closed
        BY <1>8, <4>1 DEF HandleLine, ClosedIsSilent
      <4>2. CASE k \notin closed
        BY <1>8, <4>2 DEF HandleLine, OneConnection, EofLeavesNoRequest
      <4> QED
        BY <4>1, <4>2
    <3>6. \A p \in pendingRequests \ pendingRequests' : Justifies(reason, p)
      BY <3>1, <3>5 DEF Justifies
    <3>7. pendingRequests' \subseteq pendingRequests
      BY <3>1
    <3> HIDE DEF reason
    <3> QED
      BY <3>1, <3>2, <3>3, <3>4, <3>6, <3>7, RemovalStep, OneConnectionKept
  <2> QED
    BY <2>1, <2>2, <2>3
<1>9. ASSUME NEW w \in Workers, NEW id, NEW turn, NEW type, StartAction(w, id, turn, type)
      PROVE  IInv'
  <2>1. PICK p \in pendingRequests :
          /\ p.id = id
          /\ worker' = [worker EXCEPT ![w] = [at |-> "respond", pending |-> p]]
    BY <1>9 DEF StartAction
  <2>2. p.controllable
    BY <1>9, <2>1 DEF StartAction, LookupPending
  <2>3. p \in recorded
    BY <2>1 DEF HeldIsRecorded
  <2>4. UNCHANGED <<connVars, tableVars, answers>>
    BY <1>9 DEF StartAction
  <2>5. Shapes'
    BY <2>1, <2>3, <2>4 DEF Shapes, tableVars, connVars
  <2>6. HeldIsRecorded'
    BY <2>1, <2>2, <2>3, <2>4 DEF HeldIsRecorded, Shapes, tableVars
  <2>7. AnswersFitRequest'
    BY <2>4 DEF AnswersFitRequest, tableVars
  <2> QED
    BY <2>4, <2>5, <2>6, <2>7, WorkerStep
<1>10. ASSUME NEW w \in Workers, Respond(w)
       PROVE  IInv'
  <2> DEFINE p == worker[w].pending
             a == [id |-> p.id, client |-> p.client, appId |-> p.appId,
                   turn |-> p.turn, type |-> p.type, by |-> w]
  <2>1. p \in recorded /\ p.controllable /\ worker[w].at = "respond"
    BY <1>10 DEF Respond, HeldIsRecorded
  <2>2. UNCHANGED <<connVars, tableVars>>
    BY <1>10 DEF Respond
  <2>3. worker[w] \in [at : {"respond", "finish"}, pending : recorded]
    BY <2>1 DEF Shapes, Idle
  <2>4. \/ worker' = [worker EXCEPT ![w] = Idle]
        \/ worker' = [worker EXCEPT ![w] = [@ EXCEPT !.at = "finish"]]
    BY <1>10 DEF Respond
  <2>5. [worker[w] EXCEPT !.at = "finish"] \in [at : {"respond", "finish"}, pending : recorded]
        /\ [worker[w] EXCEPT !.at = "finish"].pending = p
    BY <2>3
  <2>6. Shapes'
    <3>1. CASE worker' = [worker EXCEPT ![w] = Idle]
      BY <2>2, <3>1 DEF Shapes, tableVars, connVars
    <3>2. CASE worker' = [worker EXCEPT ![w] = [@ EXCEPT !.at = "finish"]]
      <4> DEFINE moved == [worker[w] EXCEPT !.at = "finish"]
      <4>1. worker' = [worker EXCEPT ![w] = moved]
        BY <3>2
      <4>2. moved \in [at : {"respond", "finish"}, pending : recorded]
        BY <2>5
      <4> HIDE DEF moved
      <4> QED
        BY <2>2, <4>1, <4>2 DEF Shapes, tableVars, connVars
    <3> QED
      BY <2>4, <3>1, <3>2
  <2>7. HeldIsRecorded'
    BY <2>1, <2>2, <2>4, <2>5 DEF HeldIsRecorded, Shapes, tableVars, Idle
  <2>8. answers' = answers \/ answers' = answers \cup {a}
    BY <1>10 DEF Respond
  <2>9. /\ p.id = a.id /\ p.client = a.client /\ p.appId = a.appId
        /\ p.turn = a.turn /\ p.type = a.type
    OBVIOUS
  <2> HIDE DEF p, a
  <2>10. AnswersFitRequest'
    BY <2>1, <2>2, <2>8, <2>9 DEF AnswersFitRequest, tableVars
  <2> QED
    BY <2>2, <2>6, <2>7, <2>10, WorkerStep
<1>11. ASSUME NEW w \in Workers, FinishPending(w)
       PROVE  IInv'
  <2> DEFINE p == worker[w].pending
             reason == [kind |-> "answered", of |-> p.id]
  <2>1. /\ p \in recorded
        /\ pendingRequests' = pendingRequests \ {p}
        /\ removals' = removals \cup {reason}
        /\ worker' = [worker EXCEPT ![w] = Idle]
        /\ UNCHANGED <<client, requestSequence, recorded, answers, reader, closed, closedEarly>>
    BY <1>11 DEF FinishPending, HeldIsRecorded, connVars
  <2>2. reason.kind = "answered" /\ reason.of = p.id
    OBVIOUS
  <2>3. p.id \in Nat /\ p.id <= requestSequence
    BY <2>1 DEF IdsUnique
  <2>4. \A q \in pendingRequests' : q.id # p.id
    BY <2>1 DEF IdsUnique, HeldIsRecorded
  <2>5. \A j : reason # [kind |-> "disconnected", of |-> j]
    OBVIOUS
  <2>6. Shapes'
    BY <2>1 DEF Shapes
  <2>7. HeldIsRecorded'
    BY <2>1 DEF HeldIsRecorded, Shapes, Idle
  <2>8. \A q \in pendingRequests \ pendingRequests' :
          Justifies(reason, q)
    BY <2>1 DEF Justifies
  <2> HIDE DEF reason, p
  <2> QED
    BY <2>1, <2>2, <2>3, <2>4, <2>5, <2>6, <2>7, <2>8, RemovalStep, OneConnectionKept
<1>12. ASSUME NEW w \in Workers, NEW turn \in Turns, StartInterrupt(w, turn)
       PROVE  IInv'
  <2> DEFINE asking == [at |-> "interrupting", client |-> client, turn |-> turn]
  <2>1. /\ client \in Clients
        /\ worker' = [worker EXCEPT ![w] = asking]
        /\ UNCHANGED <<connVars, tableVars, answers>>
    BY <1>12 DEF StartInterrupt, Shapes
  <2>2. /\ asking \in [at : {"interrupting", "interrupted"}, client : Clients, turn : Turns]
        /\ asking.at = "interrupting"
    BY <2>1
  <2> HIDE DEF asking
  <2>3. Shapes'
    BY <2>1, <2>2 DEF Shapes, tableVars, connVars
  <2>4. HeldIsRecorded'
    BY <2>1, <2>2 DEF HeldIsRecorded, Shapes, tableVars
  <2>5. AnswersFitRequest'
    BY <2>1 DEF AnswersFitRequest, tableVars
  <2> QED
    BY <2>1, <2>3, <2>4, <2>5, WorkerStep
<1>13. ASSUME NEW w \in Workers, InterruptReply(w)
       PROVE  IInv'
  <2> DEFINE moved == [worker[w] EXCEPT !.at = "interrupted"]
  <2>1. /\ worker[w].at = "interrupting"
        /\ worker' = [worker EXCEPT ![w] = moved] \/ worker' = [worker EXCEPT ![w] = Idle]
        /\ UNCHANGED <<connVars, tableVars, answers>>
    BY <1>13 DEF InterruptReply
  <2>2. worker[w] \in [at : {"interrupting", "interrupted"}, client : Clients, turn : Turns]
    BY <2>1 DEF Shapes, Idle
  <2>3. /\ moved \in [at : {"interrupting", "interrupted"}, client : Clients, turn : Turns]
        /\ moved.at = "interrupted"
    BY <2>2
  <2> HIDE DEF moved
  <2>4. Shapes'
    BY <2>1, <2>3 DEF Shapes, tableVars, connVars
  <2>5. HeldIsRecorded'
    BY <2>1, <2>3 DEF HeldIsRecorded, Shapes, tableVars, Idle
  <2>6. AnswersFitRequest'
    BY <2>1 DEF AnswersFitRequest, tableVars
  <2> QED
    BY <2>1, <2>4, <2>5, <2>6, WorkerStep
<1>14. ASSUME NEW w \in Workers, FinishInterrupt(w)
       PROVE  IInv'
  <2> DEFINE turn == worker[w].turn
             reason == [kind |-> "interrupted", of |-> turn]
  <2>1. /\ pendingRequests' = {p \in pendingRequests : p.turn # turn}
        /\ removals' = removals \cup {reason}
        /\ worker' = [worker EXCEPT ![w] = Idle]
        /\ UNCHANGED <<client, requestSequence, recorded, answers, reader, closed, closedEarly>>
    BY <1>14 DEF FinishInterrupt, connVars
  <2>2. reason.kind # "answered"
    OBVIOUS
  <2>3. \A j : reason # [kind |-> "disconnected", of |-> j]
    OBVIOUS
  <2>4. \A p \in pendingRequests \ pendingRequests' :
          Justifies(reason, p)
    BY <2>1 DEF Justifies
  <2>5. Shapes'
    BY <2>1 DEF Shapes
  <2>6. HeldIsRecorded'
    BY <2>1 DEF HeldIsRecorded, Shapes, Idle
  <2> HIDE DEF turn, reason
  <2>7. pendingRequests' \subseteq pendingRequests
    BY <2>1
  <2> QED
    BY <2>1, <2>2, <2>3, <2>4, <2>5, <2>6, <2>7, RemovalStep, OneConnectionKept
<1>15. CASE UNCHANGED vars
  <2>1. Shapes' /\ HeldIsRecorded' /\ AnswersFitRequest'
    BY <1>15 DEF vars, connVars, tableVars, Shapes, HeldIsRecorded, AnswersFitRequest
  <2> QED
    BY <1>15, <2>1, WorkerStep DEF vars
<1> QED
  BY <1>1, <1>2, <1>3, <1>4, <1>5, <1>6, <1>7, <1>8, <1>9, <1>10, <1>11,
     <1>12, <1>13, <1>14, <1>15 DEF Next

LEMMA SpecIInv == Spec => []IInv
  BY InitIInv, NextIInv, PTL DEF Spec

-----------------------------------------------------------------------------
(* Answers go to the connection that asked, with the id, turn and type of  *)
(* a recorded and controllable request: lookupPending decides under the    *)
(* lock, and Respond uses what it returned and never m.client.             *)
THEOREM AnswersFit == Spec => []AnswersFitRequest
  BY SpecIInv, PTL DEF IInv

(* recordServerRequest apart, only finishPending, a resolved notification, *)
(* Interrupt and clearClient change the table, each for its own requests.  *)
THEOREM RemovalsHaveReasons == Spec => []RemovedForAReason
  BY SpecIInv, PTL DEF IInv

(* An answered request never comes back: finishPending deletes it and      *)
(* nextRequestID does not give its id again.                               *)
THEOREM AnsweredStaysGone == Spec => []AnsweredIsGone
  BY SpecIInv, PTL DEF IInv

(* clearClient after the end of the read loop leaves no request of that    *)
(* connection, whatever actions and other connections do.                  *)
THEOREM EofClean == Spec => []EofLeavesNoRequest
  BY SpecIInv, PTL DEF IInv

-----------------------------------------------------------------------------
(* Types.  That requestSequence stays within its bound is a count: every   *)
(* number was given for a request that was asked and whose line no longer  *)
(* waits in an inbox.                                                      *)
EverAsked == UNION {{k} \X asked[k] : k \in Clients}
WaitsAt(k, i) == i \in 1..Len(inbox[k]) /\ inbox[k][i].kind = "request"
Handled == {c \in EverAsked : \A i : WaitsAt(c[1], i) => inbox[c[1]][i].ask # c[2]}

Counting ==
  /\ IsFiniteSet(EverAsked) /\ Cardinality(EverAsked) <= MaxRequests
  /\ requestSequence <= Cardinality(Handled)
  /\ \A k \in Clients : \A i : WaitsAt(k, i) =>
       /\ inbox[k][i].ask \in asked[k]
       /\ \A j : WaitsAt(k, j) /\ inbox[k][j].ask = inbox[k][i].ask => i = j

ConnectionTypes ==
  /\ alive \subseteq Clients /\ reader \subseteq Clients
  /\ closed \subseteq Clients /\ closedEarly \subseteq Clients
  /\ inbox \in [Clients -> Seq(Lines)]
  /\ asked \in [Clients -> SUBSET Asks] /\ settled \in [Clients -> SUBSET Asks]
TableTypes ==
  recorded \subseteq Pendings /\ answers \subseteq Answers /\ removals \subseteq Removals

LEMMA EverAskedIs ==
  /\ \A c \in EverAsked : \E k \in Clients : \E ask \in asked[k] :
       c = <<k, ask>> /\ c[1] = k /\ c[2] = ask
  /\ \A k \in Clients : \A ask \in asked[k] : <<k, ask>> \in EverAsked
  /\ \A k, ask : <<k, ask>> \in EverAsked => k \in Clients /\ ask \in asked[k]
BY DEF EverAsked

(* The bound of the count and what an unhandled request is worth.          *)
LEMMA CountKept ==
  ASSUME IInv, Counting, IsFiniteSet(EverAsked)', Cardinality(EverAsked)' <= MaxRequests,
         Handled \subseteq Handled', requestSequence' = requestSequence
  PROVE  requestSequence' <= Cardinality(Handled)'
<1>1. Handled' \in SUBSET EverAsked'
  BY DEF Handled
<1>2. IsFiniteSet(Handled') /\ Cardinality(Handled') \in Nat
  BY <1>1, FS_Subset, FS_CardinalityType
<1>3. Cardinality(Handled) <= Cardinality(Handled')
  BY <1>2, FS_Subset
<1>4. IsFiniteSet(Handled) /\ Cardinality(Handled) \in Nat
  BY <1>2, FS_Subset, FS_CardinalityType
<1>5. requestSequence \in Nat /\ requestSequence <= Cardinality(Handled)
  BY DEF IInv, IdsUnique, Counting
<1> QED
  BY <1>2, <1>3, <1>4, <1>5

LEMMA CountStill ==
  ASSUME Counting, UNCHANGED <<inbox, asked, requestSequence>>
  PROVE  Counting'
BY DEF Counting, EverAsked, Handled, WaitsAt

WithinBound == requestSequence \in 0..MaxRequests

LEMMA SequenceBounded == IInv /\ Counting => WithinBound
<1> SUFFICES ASSUME IInv, Counting PROVE WithinBound
  OBVIOUS
<1>1. Handled \in SUBSET EverAsked
  BY DEF Handled
<1>2. /\ Cardinality(Handled) <= Cardinality(EverAsked)
      /\ Cardinality(Handled) \in Nat /\ Cardinality(EverAsked) \in Nat
  BY <1>1, FS_Subset, FS_CardinalityType DEF Counting
<1> QED
  BY <1>2, PendingAssumption DEF IInv, IdsUnique, Counting, WithinBound

(* A line is put at the end of an inbox.                                   *)
LEMMA InboxGrows ==
  ASSUME ConnectionTypes, NEW k \in Clients, NEW line \in Lines,
         inbox' = [inbox EXCEPT ![k] = Append(@, line)]
  PROVE  /\ inbox' \in [Clients -> Seq(Lines)]
         /\ \A k2 \in Clients \ {k} : inbox'[k2] = inbox[k2]
         /\ Len(inbox[k]) \in Nat /\ Len(inbox'[k]) = Len(inbox[k]) + 1
         /\ \A i \in 1..Len(inbox[k]) : inbox'[k][i] = inbox[k][i]
         /\ inbox'[k][Len(inbox[k]) + 1] = line
<1>1. inbox[k] \in Seq(Lines) /\ inbox \in [Clients -> Seq(Lines)]
  BY DEF ConnectionTypes
<1>2. inbox'[k] = Append(inbox[k], line)
  BY <1>1
<1>3. Append(inbox[k], line) \in Seq(Lines)
  BY <1>1, AppendProperties
<1>4. inbox' \in [Clients -> Seq(Lines)] /\ \A k2 \in Clients \ {k} : inbox'[k2] = inbox[k2]
  BY <1>1, <1>3
<1> QED
  BY <1>1, <1>2, <1>4, AppendProperties

(* A line is taken from the front.                                         *)
LEMMA InboxShrinks ==
  ASSUME ConnectionTypes, NEW k \in Clients, inbox[k] # <<>>,
         inbox' = [inbox EXCEPT ![k] = Tail(@)]
  PROVE  /\ inbox' \in [Clients -> Seq(Lines)]
         /\ \A k2 \in Clients \ {k} : inbox'[k2] = inbox[k2]
         /\ Len(inbox[k]) \in Nat \ {0} /\ Len(inbox'[k]) = Len(inbox[k]) - 1
         /\ \A i \in 1..Len(inbox'[k]) : inbox'[k][i] = inbox[k][i + 1]
         /\ Head(inbox[k]) = inbox[k][1] /\ Head(inbox[k]) \in Lines
<1>1. inbox[k] \in Seq(Lines) /\ inbox \in [Clients -> Seq(Lines)]
  BY DEF ConnectionTypes
<1>2. inbox'[k] = Tail(inbox[k])
  BY <1>1
<1>3. Tail(inbox[k]) \in Seq(Lines) /\ Head(inbox[k]) \in Lines
  BY <1>1, HeadTailProperties
<1>4. inbox' \in [Clients -> Seq(Lines)] /\ \A k2 \in Clients \ {k} : inbox'[k2] = inbox[k2]
  BY <1>1, <1>3
<1>5. Len(inbox[k]) \in Nat \ {0}
  BY <1>1, LenProperties, EmptySeq
<1> QED
  BY <1>1, <1>2, <1>3, <1>4, <1>5, HeadTailProperties

LEMMA AsksCounted ==
  ASSUME IInv, Counting, ConnectionTypes, NEW k \in Clients, NEW ask \in Asks, ServerAsks(k, ask)
  PROVE  Counting' /\ inbox' \in [Clients -> Seq(Lines)]
<1> DEFINE line == [kind |-> "request", ask |-> ask]
           n == Len(inbox[k]) + 1
<1>1. /\ \A other \in asked[k] : other.appId # ask.appId
      /\ Cardinality(EverAsked) < MaxRequests
      /\ asked' = [asked EXCEPT ![k] = @ \cup {ask}]
      /\ inbox' = [inbox EXCEPT ![k] = Append(@, line)] /\ requestSequence' = requestSequence
  BY DEF ServerAsks, EverAsked, tableVars
<1>2. line \in Lines /\ line.kind = "request" /\ line.ask = ask
  BY DEF Lines
<1> HIDE DEF line
<1>3. /\ inbox' \in [Clients -> Seq(Lines)]
      /\ \A k2 \in Clients \ {k} : inbox'[k2] = inbox[k2]
      /\ Len(inbox[k]) \in Nat /\ Len(inbox'[k]) = n
      /\ \A i \in 1..Len(inbox[k]) : inbox'[k][i] = inbox[k][i]
      /\ inbox'[k][n] = line
  BY <1>1, <1>2, InboxGrows
<1>4. /\ ask \notin asked[k] /\ asked'[k] = asked[k] \cup {ask}
      /\ \A k2 \in Clients \ {k} : asked'[k2] = asked[k2]
  BY <1>1 DEF ConnectionTypes
<1>5. EverAsked' = EverAsked \cup {<<k, ask>>} /\ <<k, ask>> \notin EverAsked
  <2>1. EverAsked \cup {<<k, ask>>} \subseteq EverAsked'
    BY <1>4 DEF EverAsked
  <2>2. EverAsked' \subseteq EverAsked \cup {<<k, ask>>}
    BY <1>4 DEF EverAsked
  <2> QED
    BY <1>4, <2>1, <2>2, EverAskedIs
<1>6. IsFiniteSet(EverAsked') /\ Cardinality(EverAsked') <= MaxRequests
  <2>1. Cardinality(EverAsked) \in Nat
    BY FS_CardinalityType DEF Counting
  <2>2. Cardinality(EverAsked') = Cardinality(EverAsked) + 1
    BY <1>5, FS_AddElement DEF Counting
  <2> QED
    BY <1>1, <1>5, <2>1, <2>2, FS_AddElement, PendingAssumption DEF Counting
<1>7. \A k2 \in Clients : \A i : WaitsAt(k2, i)' =>
        \/ k2 = k /\ i = n
        \/ WaitsAt(k2, i) /\ inbox'[k2][i] = inbox[k2][i] /\ (k2 = k => i # n)
  <2> SUFFICES ASSUME NEW k2 \in Clients, NEW i, WaitsAt(k2, i)', ~(k2 = k /\ i = n)
               PROVE  WaitsAt(k2, i) /\ inbox'[k2][i] = inbox[k2][i]
    OBVIOUS
  <2>1. CASE k2 = k
    <3>1. i \in 1..n /\ i # n
      BY <1>3, <2>1 DEF WaitsAt
    <3>2. i \in 1..Len(inbox[k])
      BY <1>3, <3>1
    <3> QED
      BY <1>3, <2>1, <3>2 DEF WaitsAt
  <2>2. CASE k2 # k
    BY <1>3, <2>2 DEF WaitsAt
  <2> QED
    BY <2>1, <2>2
<1> HIDE DEF n
<1>8. Handled \subseteq Handled'
  <2> SUFFICES ASSUME NEW c \in Handled, NEW i, WaitsAt(c[1], i)'
               PROVE  inbox'[c[1]][i].ask # c[2]
    BY <1>5 DEF Handled
  <2>1. c \in EverAsked
    BY DEF Handled
  <2>2. PICK k2, a : k2 \in Clients /\ a \in asked[k2] /\ c[1] = k2 /\ c[2] = a
    BY <2>1, EverAskedIs
  <2>3. CASE k2 = k /\ i = n
    BY <1>2, <1>3, <1>4, <2>2, <2>3
  <2>4. CASE ~(k2 = k /\ i = n)
    BY <1>7, <2>2, <2>4 DEF Handled
  <2> QED
    BY <2>3, <2>4
<1>9. ASSUME NEW k2 \in Clients, NEW i, WaitsAt(k2, i)'
      PROVE  /\ inbox'[k2][i].ask \in asked'[k2]
             /\ \A j : WaitsAt(k2, j)' /\ inbox'[k2][j].ask = inbox'[k2][i].ask => i = j
  <2>1. \A j : WaitsAt(k2, j)' =>
          \/ k2 = k /\ j = n /\ inbox'[k2][j].ask = ask
          \/ /\ WaitsAt(k2, j) /\ inbox'[k2][j] = inbox[k2][j] /\ (k2 = k => j # n)
             /\ inbox[k2][j].ask \in asked[k2]
    BY <1>2, <1>3, <1>7 DEF Counting
  <2> QED
    BY <1>4, <1>9, <2>1 DEF Counting
<1> QED
  BY <1>1, <1>3, <1>6, <1>8, <1>9, CountKept DEF Counting

LEMMA ResolvesCounted ==
  ASSUME IInv, Counting, ConnectionTypes, NEW k \in Clients, NEW ask \in Asks,
         ServerResolves(k, ask)
  PROVE  Counting' /\ inbox' \in [Clients -> Seq(Lines)]
<1> DEFINE line == [kind |-> "resolved", appId |-> ask.appId]
<1>1. /\ inbox' = [inbox EXCEPT ![k] = Append(@, line)]
      /\ requestSequence' = requestSequence /\ asked' = asked
  BY DEF ServerResolves, tableVars
<1>2. line \in Lines /\ line.kind = "resolved"
  BY DEF Lines, Asks
<1> HIDE DEF line
<1>3. /\ inbox' \in [Clients -> Seq(Lines)]
      /\ \A k2 \in Clients \ {k} : inbox'[k2] = inbox[k2]
      /\ Len(inbox[k]) \in Nat /\ Len(inbox'[k]) = Len(inbox[k]) + 1
      /\ \A i \in 1..Len(inbox[k]) : inbox'[k][i] = inbox[k][i]
      /\ inbox'[k][Len(inbox[k]) + 1] = line
  BY <1>1, <1>2, InboxGrows
<1>4. \A k2 \in Clients : \A i :
        WaitsAt(k2, i)' => WaitsAt(k2, i) /\ inbox'[k2][i] = inbox[k2][i]
  <2> SUFFICES ASSUME NEW k2 \in Clients, NEW i, WaitsAt(k2, i)'
               PROVE  WaitsAt(k2, i) /\ inbox'[k2][i] = inbox[k2][i]
    OBVIOUS
  <2>1. CASE k2 = k
    <3>1. i \in 1..(Len(inbox[k]) + 1) /\ i # Len(inbox[k]) + 1
      BY <1>2, <1>3, <2>1 DEF WaitsAt
    <3>2. i \in 1..Len(inbox[k])
      BY <1>3, <3>1
    <3> QED
      BY <1>3, <2>1, <3>2 DEF WaitsAt
  <2>2. CASE k2 # k
    BY <1>3, <2>2 DEF WaitsAt
  <2> QED
    BY <2>1, <2>2
<1>5. EverAsked' = EverAsked
  BY <1>1 DEF EverAsked
<1>6. Handled \subseteq Handled'
  BY <1>4, <1>5, EverAskedIs DEF Handled
<1>7. /\ IsFiniteSet(EverAsked') /\ Cardinality(EverAsked') <= MaxRequests
      /\ requestSequence' <= Cardinality(Handled')
  BY <1>1, <1>5, <1>6, CountKept DEF Counting
<1>8. \A k2 \in Clients : \A i : WaitsAt(k2, i)' =>
       /\ inbox'[k2][i].ask \in asked'[k2]
       /\ \A j : WaitsAt(k2, j)' /\ inbox'[k2][j].ask = inbox'[k2][i].ask => i = j
  <2> SUFFICES ASSUME NEW k2 \in Clients, NEW i, WaitsAt(k2, i)'
               PROVE  /\ inbox'[k2][i].ask \in asked'[k2]
                      /\ \A j : WaitsAt(k2, j)' /\ inbox'[k2][j].ask = inbox'[k2][i].ask
                               => i = j
    OBVIOUS
  <2>1. WaitsAt(k2, i) /\ inbox'[k2][i] = inbox[k2][i]
    BY <1>4
  <2>2. \A j : WaitsAt(k2, j)' => WaitsAt(k2, j) /\ inbox'[k2][j] = inbox[k2][j]
    BY <1>4
  <2> QED
    BY <1>1, <2>1, <2>2 DEF Counting
<1> QED
  BY <1>3, <1>7, <1>8 DEF Counting

LEMMA EndCounted ==
  ASSUME IInv, Counting, ConnectionTypes, NEW k \in Clients, ReaderEnds(k)
  PROVE  Counting' /\ inbox' \in [Clients -> Seq(Lines)]
<1>1. /\ inbox' = [inbox EXCEPT ![k] = <<>>]
      /\ requestSequence' = requestSequence /\ asked' = asked
  BY DEF ReaderEnds, tableVars
<1>2. inbox' \in [Clients -> Seq(Lines)]
  BY <1>1, EmptySeq DEF ConnectionTypes
<1>3. \A k2 \in Clients : \A i :
        WaitsAt(k2, i)' => WaitsAt(k2, i) /\ inbox'[k2][i] = inbox[k2][i]
  <2>1. inbox'[k] = <<>> /\ \A k2 \in Clients \ {k} : inbox'[k2] = inbox[k2]
    BY <1>1 DEF ConnectionTypes
  <2> QED
    BY <2>1, EmptySeq DEF WaitsAt
<1>4. EverAsked' = EverAsked
  BY <1>1 DEF EverAsked
<1>5. Handled \subseteq Handled'
  BY <1>3, <1>4, EverAskedIs DEF Handled
<1> QED
  BY <1>1, <1>2, <1>3, <1>4, <1>5, CountKept DEF Counting

LEMMA LineCounted ==
  ASSUME IInv, Counting, ConnectionTypes, NEW k \in Clients, HandleLine(k)
  PROVE  Counting' /\ inbox' \in [Clients -> Seq(Lines)]
<1> DEFINE line == Head(inbox[k])
<1>1. inbox[k] # <<>> /\ inbox' = [inbox EXCEPT ![k] = Tail(@)] /\ asked' = asked
  BY DEF HandleLine
<1>2. /\ inbox' \in [Clients -> Seq(Lines)]
      /\ \A k2 \in Clients \ {k} : inbox'[k2] = inbox[k2]
      /\ Len(inbox[k]) \in Nat \ {0} /\ Len(inbox'[k]) = Len(inbox[k]) - 1
      /\ \A i \in 1..Len(inbox'[k]) : inbox'[k][i] = inbox[k][i + 1]
      /\ line = inbox[k][1] /\ line \in Lines
  BY <1>1, InboxShrinks
<1>3. ASSUME NEW k2 \in Clients, NEW i, WaitsAt(k2, i)'
      PROVE  \E j : /\ WaitsAt(k2, j) /\ inbox'[k2][i] = inbox[k2][j]
                    /\ j = (IF k2 = k THEN i + 1 ELSE i) /\ (k2 = k => j # 1 /\ i \in Int)
  <2>1. CASE k2 = k
    <3>1. i \in 1..Len(inbox'[k])
      BY <2>1, <1>3 DEF WaitsAt
    <3>2. i + 1 \in 1..Len(inbox[k]) /\ i + 1 # 1 /\ i \in Int
      BY <1>2, <3>1
    <3>3. inbox'[k][i] = inbox[k][i + 1]
      BY <1>2, <3>1
    <3> QED
      BY <1>3, <2>1, <3>2, <3>3 DEF WaitsAt
  <2>2. CASE k2 # k
    BY <1>2, <1>3, <2>2 DEF WaitsAt
  <2> QED
    BY <2>1, <2>2
<1>4. EverAsked' = EverAsked
  BY <1>1 DEF EverAsked
<1>5. Handled \subseteq Handled'
  <2> SUFFICES ASSUME NEW c \in Handled, NEW i, WaitsAt(c[1], i)'
               PROVE  inbox'[c[1]][i].ask # c[2]
    BY <1>4 DEF Handled
  <2>1. c[1] \in Clients
    BY EverAskedIs DEF Handled
  <2> QED
    BY <1>3, <2>1 DEF Handled
<1>6. ASSUME NEW k2 \in Clients, NEW i, WaitsAt(k2, i)'
      PROVE  /\ inbox'[k2][i].ask \in asked'[k2]
             /\ \A j : WaitsAt(k2, j)' /\ inbox'[k2][j].ask = inbox'[k2][i].ask => i = j
  <2>1. inbox'[k2][i].ask \in asked'[k2]
    <3>1. PICK x : WaitsAt(k2, x) /\ inbox'[k2][i] = inbox[k2][x]
      BY <1>3, <1>6
    <3> QED
      BY <1>1, <3>1 DEF Counting
  <2>2. ASSUME NEW j, WaitsAt(k2, j)', inbox'[k2][j].ask = inbox'[k2][i].ask
        PROVE  i = j
    <3>1. PICK x : /\ WaitsAt(k2, x) /\ inbox'[k2][i] = inbox[k2][x]
                   /\ x = (IF k2 = k THEN i + 1 ELSE i) /\ (k2 = k => x # 1 /\ i \in Int)
      BY <1>3, <1>6
    <3>2. PICK y : /\ WaitsAt(k2, y) /\ inbox'[k2][j] = inbox[k2][y]
                   /\ y = (IF k2 = k THEN j + 1 ELSE j) /\ (k2 = k => y # 1 /\ j \in Int)
      BY <1>3, <2>2
    <3>3. x = y
      BY <2>2, <3>1, <3>2 DEF Counting
    <3> QED
      BY <3>1, <3>2, <3>3
  <2> QED
    BY <2>1, <2>2
<1>7. requestSequence' <= Cardinality(Handled')
  <2>1. CASE requestSequence' = requestSequence
    BY <1>4, <1>5, <2>1, CountKept DEF Counting
  <2>2. CASE requestSequence' # requestSequence
    <3> DEFINE c == <<k, line.ask>>
    <3>1. line.kind = "request" /\ requestSequence' = requestSequence + 1
      BY <2>2 DEF HandleLine, RecordServerRequest, RequestResolved, tableVars
    <3>2. WaitsAt(k, 1)
      BY <1>2, <3>1 DEF WaitsAt
    <3>3. c \in EverAsked /\ c \notin Handled
      <4>1. line.ask \in asked[k]
        BY <1>2, <3>2 DEF Counting
      <4>2. c[1] = k /\ c[2] = line.ask
        OBVIOUS
      <4> QED
        BY <1>2, <3>2, <4>1, <4>2, EverAskedIs DEF Handled
    <3>4. c \in Handled'
      <4> SUFFICES ASSUME NEW i, WaitsAt(k, i)', inbox'[k][i].ask = line.ask PROVE FALSE
        BY <1>4, <3>3 DEF Handled
      <4>1. PICK x : WaitsAt(k, x) /\ inbox'[k][i] = inbox[k][x] /\ x # 1
        BY <1>3
      <4> QED
        BY <1>2, <3>2, <4>1 DEF Counting
    <3> HIDE DEF c
    <3>5. Handled' \in SUBSET EverAsked /\ Handled \in SUBSET EverAsked
      BY <1>4 DEF Handled
    <3>6. /\ IsFiniteSet(Handled) /\ IsFiniteSet(Handled')
          /\ Cardinality(Handled) \in Nat /\ Cardinality(Handled') \in Nat
      BY <3>5, FS_Subset, FS_CardinalityType DEF Counting
    <3>7. Cardinality(Handled \cup {c}) = Cardinality(Handled) + 1
      BY <3>3, <3>6, FS_AddElement
    <3>8. Handled \cup {c} \in SUBSET Handled'
      BY <1>5, <3>4
    <3>9. Cardinality(Handled \cup {c}) <= Cardinality(Handled')
      BY <3>6, <3>8, FS_Subset
    <3>10. requestSequence \in Nat /\ requestSequence <= Cardinality(Handled)
      BY DEF IInv, IdsUnique, Counting
    <3> QED
      BY <3>1, <3>6, <3>7, <3>9, <3>10
  <2> QED
    BY <2>1, <2>2
<1> QED
  BY <1>2, <1>4, <1>6, <1>7 DEF Counting

-----------------------------------------------------------------------------
Typed == ConnectionTypes /\ TableTypes /\ Counting

LEMMA InitTyped == Init => Typed
<1> SUFFICES ASSUME Init PROVE Typed
  OBVIOUS
<1>1. ConnectionTypes
  BY EmptySeq DEF Init, ConnectionTypes
<1>2. TableTypes
  BY DEF Init, TableTypes
<1>3. EverAsked = {} /\ Handled = {}
  BY DEF Init, EverAsked, Handled
<1>4. \A k : \A i : k \in Clients => ~WaitsAt(k, i)
  BY EmptySeq DEF Init, WaitsAt
<1>5. IsFiniteSet(EverAsked) /\ Cardinality(EverAsked) = 0 /\ Cardinality(Handled) = 0
  BY <1>3, FS_EmptySet
<1>6. Counting
  BY <1>4, <1>5, PendingAssumption DEF Init, Counting
<1> QED
  BY <1>1, <1>2, <1>6 DEF Typed

LEMMA CountingKept ==
  ASSUME IInv, Typed, [Next]_vars
  PROVE  Counting' /\ inbox' \in [Clients -> Seq(Lines)]
<1> USE DEF Typed
<1>1. ASSUME UNCHANGED <<inbox, asked, requestSequence>>
      PROVE  Counting' /\ inbox' \in [Clients -> Seq(Lines)]
  BY <1>1, CountStill DEF ConnectionTypes
<1>2. ASSUME NEW k \in Clients, Connect(k) \/ ProcessDies(k) \/ CloseClient(k) \/ ClearClient(k)
      PROVE  UNCHANGED <<inbox, asked, requestSequence>>
  BY <1>2 DEF Connect, ProcessDies, CloseClient, ClearClient, tableVars
<1>3. ASSUME NEW w \in Workers, NEW id, NEW turn, NEW type,
             StartAction(w, id, turn, type) \/ Respond(w) \/ FinishPending(w)
               \/ StartInterrupt(w, turn) \/ InterruptReply(w) \/ FinishInterrupt(w)
      PROVE  UNCHANGED <<inbox, asked, requestSequence>>
  BY <1>3 DEF StartAction, Respond, FinishPending, StartInterrupt, InterruptReply,
              FinishInterrupt, connVars, tableVars
<1>4. CASE UNCHANGED vars
  BY <1>1, <1>4 DEF vars, connVars, tableVars
<1>5. ASSUME NEW k \in Clients, ReaderEnds(k)
      PROVE  Counting' /\ inbox' \in [Clients -> Seq(Lines)]
  BY <1>5, EndCounted
<1>6. ASSUME NEW k \in Clients, HandleLine(k)
      PROVE  Counting' /\ inbox' \in [Clients -> Seq(Lines)]
  BY <1>6, LineCounted
<1>7. ASSUME NEW k \in Clients, NEW ask \in Asks, ServerAsks(k, ask)
      PROVE  Counting' /\ inbox' \in [Clients -> Seq(Lines)]
  BY <1>7, AsksCounted
<1>8. ASSUME NEW k \in Clients, NEW ask \in Asks, ServerResolves(k, ask)
      PROVE  Counting' /\ inbox' \in [Clients -> Seq(Lines)]
  BY <1>8, ResolvesCounted
<1> QED
  BY <1>1, <1>2, <1>3, <1>4, <1>5, <1>6, <1>7, <1>8 DEF Next

(* What each step adds to the table, the answers and the histories.        *)
LEMMA TablesKept ==
  ASSUME IInv, Typed, [Next]_vars, requestSequence' \in 0..MaxRequests
  PROVE  TableTypes'
<1> USE DEF Typed, TableTypes
<1>1. ASSUME UNCHANGED <<recorded, answers, removals>> PROVE TableTypes'
  BY <1>1
<1>2. ASSUME NEW k \in Clients,
             \/ Connect(k) \/ ProcessDies(k) \/ CloseClient(k) \/ ReaderEnds(k)
             \/ \E ask \in Asks : ServerAsks(k, ask) \/ ServerResolves(k, ask)
      PROVE  UNCHANGED <<recorded, answers, removals>>
  BY <1>2 DEF Connect, ProcessDies, CloseClient, ReaderEnds, ServerAsks, ServerResolves, tableVars
<1>3. ASSUME NEW w \in Workers, NEW id, NEW turn, NEW type,
             \/ StartAction(w, id, turn, type) \/ StartInterrupt(w, turn) \/ InterruptReply(w)
      PROVE  UNCHANGED <<recorded, answers, removals>>
  BY <1>3 DEF StartAction, StartInterrupt, InterruptReply, tableVars
<1>4. CASE UNCHANGED vars
  BY <1>1, <1>4 DEF vars, tableVars
<1>5. ASSUME NEW k \in Clients, ClearClient(k) PROVE TableTypes'
  <2>1. [kind |-> "disconnected", of |-> k] \in Removals
    BY DEF Removals
  <2> QED
    BY <1>5, <2>1 DEF ClearClient
<1>6. ASSUME NEW k \in Clients, HandleLine(k) PROVE TableTypes'
  <2> DEFINE line == Head(inbox[k])
             ask == line.ask
             p == [id |-> requestSequence + 1, client |-> k, appId |-> ask.appId,
                   turn |-> ask.turn, type |-> TypeOf(ask.method),
                   controllable |-> IsControllable(ask.method)]
             r == [kind |-> "resolved", of |-> line.appId, by |-> k]
  <2>1. line \in Lines
    BY <1>6, InboxShrinks DEF HandleLine
  <2>2. answers' = answers
    BY <1>6 DEF HandleLine
  <2>3. CASE line.kind = "request"
    <3>1. ask \in Asks
      BY <2>1, <2>3 DEF Lines
    <3>2. CASE ask.method = "unknown"
      BY <1>6, <2>2, <2>3, <3>2 DEF HandleLine, RecordServerRequest, tableVars
    <3>3. CASE ask.method # "unknown"
      <4>1. /\ recorded' = recorded \cup {p} /\ removals' = removals
            /\ requestSequence' = requestSequence + 1
        BY <1>6, <2>3, <3>3 DEF HandleLine, RecordServerRequest
      <4>2. requestSequence + 1 \in 1..MaxRequests
        BY <4>1, PendingAssumption DEF IInv, IdsUnique
      <4>3. TypeOf(ask.method) \in {"approval", "input"} /\ IsControllable(ask.method) \in BOOLEAN
        BY DEF TypeOf, IsControllable
      <4>4. p \in Pendings
        BY <3>1, <4>2, <4>3 DEF Pendings, Asks
      <4> QED
        BY <2>2, <4>1, <4>4
    <3> QED
      BY <3>2, <3>3
  <2>4. CASE line.kind # "request"
    <3>1. recorded' = recorded /\ removals' = removals \cup {r}
      BY <1>6, <2>4 DEF HandleLine, RequestResolved
    <3>2. line.appId \in AppIds
      BY <2>1, <2>4 DEF Lines
    <3>3. r \in Removals
      BY <3>2 DEF Removals
    <3> QED
      BY <2>2, <3>1, <3>3
  <2> QED
    BY <2>3, <2>4
<1>7. ASSUME NEW w \in Workers, Respond(w) PROVE TableTypes'
  <2> DEFINE p == worker[w].pending
             a == [id |-> p.id, client |-> p.client, appId |-> p.appId,
                   turn |-> p.turn, type |-> p.type, by |-> w]
  <2>1. p \in Pendings
    BY <1>7 DEF Respond, IInv, HeldIsRecorded
  <2>2. a \in Answers
    BY <2>1 DEF Answers, Pendings
  <2>3. /\ answers' = answers \/ answers' = answers \cup {a}
        /\ UNCHANGED <<recorded, removals>>
    BY <1>7 DEF Respond, tableVars
  <2> QED
    BY <2>2, <2>3
<1>8. ASSUME NEW w \in Workers, FinishPending(w) PROVE TableTypes'
  <2>1. worker[w].pending \in Pendings
    BY <1>8 DEF FinishPending, IInv, HeldIsRecorded
  <2>2. [kind |-> "answered", of |-> worker[w].pending.id] \in Removals
    BY <2>1 DEF Removals, Pendings
  <2> QED
    BY <1>8, <2>2 DEF FinishPending
<1>9. ASSUME NEW w \in Workers, FinishInterrupt(w) PROVE TableTypes'
  <2>1. worker[w].turn \in Turns
    BY <1>9 DEF FinishInterrupt, IInv, Shapes, Idle
  <2>2. [kind |-> "interrupted", of |-> worker[w].turn] \in Removals
    BY <2>1 DEF Removals
  <2> QED
    BY <1>9, <2>2 DEF FinishInterrupt
<1> QED
  BY <1>1, <1>2, <1>3, <1>4, <1>5, <1>6, <1>7, <1>8, <1>9 DEF Next

LEMMA ConnectionsKept ==
  ASSUME Typed, [Next]_vars, inbox' \in [Clients -> Seq(Lines)]
  PROVE  ConnectionTypes'
<1> USE DEF Typed, ConnectionTypes
<1>1. ASSUME NEW w \in Workers, NEW id, NEW turn, NEW type,
             StartAction(w, id, turn, type) \/ Respond(w) \/ FinishPending(w)
               \/ StartInterrupt(w, turn) \/ InterruptReply(w) \/ FinishInterrupt(w)
      PROVE  ConnectionTypes'
  BY <1>1 DEF StartAction, Respond, FinishPending, StartInterrupt, InterruptReply,
              FinishInterrupt, connVars
<1>2. ASSUME NEW k \in Clients,
             \/ Connect(k) \/ ProcessDies(k) \/ CloseClient(k) \/ ReaderEnds(k)
             \/ ClearClient(k) \/ HandleLine(k)
      PROVE  ConnectionTypes'
  BY <1>2 DEF Connect, ProcessDies, CloseClient, ReaderEnds, ClearClient, HandleLine
<1>3. ASSUME NEW k \in Clients, NEW ask \in Asks, ServerAsks(k, ask)
      PROVE  ConnectionTypes'
  BY <1>3 DEF ServerAsks
<1>4. ASSUME NEW k \in Clients, NEW ask \in Asks, ServerResolves(k, ask)
      PROVE  ConnectionTypes'
  BY <1>4 DEF ServerResolves
<1>5. CASE UNCHANGED vars
  BY <1>5 DEF vars, connVars
<1> QED
  BY <1>1, <1>2, <1>3, <1>4, <1>5 DEF Next

LEMMA NextTyped == IInv /\ IInv' /\ Typed /\ [Next]_vars => Typed'
<1> SUFFICES ASSUME IInv, IInv', Typed, [Next]_vars PROVE Typed'
  OBVIOUS
<1>1. Counting' /\ inbox' \in [Clients -> Seq(Lines)]
  BY CountingKept
<1>2. requestSequence' \in 0..MaxRequests
  <2>1. IInv' /\ Counting' => WithinBound'
    BY SequenceBounded, PTL
  <2> QED
    BY <1>1, <2>1 DEF WithinBound
<1>3. TableTypes'
  BY <1>2, TablesKept
<1>4. ConnectionTypes'
  BY <1>1, ConnectionsKept
<1> QED
  BY <1>1, <1>3, <1>4 DEF Typed

LEMMA TypedIsTypeOK == IInv /\ Typed => TypeOK
<1> SUFFICES ASSUME IInv, Typed PROVE TypeOK
  OBVIOUS
<1>1. requestSequence \in 0..MaxRequests
  BY SequenceBounded DEF Typed, WithinBound
<1>2. recorded \subseteq Pendings /\ pendingRequests \subseteq Pendings
  BY DEF Typed, TableTypes, IInv, HeldIsRecorded
<1>3. worker \in [Workers -> WorkerStates]
  <2>1. [at : {"respond", "finish"}, pending : recorded]
          \subseteq [at : {"respond", "finish"}, pending : Pendings]
    BY <1>2
  <2> QED
    BY <2>1 DEF IInv, Shapes, WorkerStates
<1> QED
  BY <1>1, <1>2, <1>3 DEF TypeOK, Typed, ConnectionTypes, TableTypes, IInv, Shapes

(* Whatever is asked, answered, interrupted or lost, the table, the        *)
(* answers and what the actions hold keep their shape, and nextRequestID   *)
(* gives no more numbers than requests were asked: its type needs the      *)
(* count above.                                                            *)
THEOREM TypeCorrect == Spec => []TypeOK
<1>1. Init => IInv /\ Typed
  BY InitIInv, InitTyped
<1>2. IInv /\ Typed /\ [Next]_vars => IInv' /\ Typed'
  BY NextIInv, NextTyped
<1>3. IInv /\ Typed => TypeOK
  BY TypedIsTypeOK
<1> QED
  BY <1>1, <1>2, <1>3, PTL DEF Spec
=============================================================================
