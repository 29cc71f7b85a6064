-------------------------- MODULE RpcClientProofs --------------------------
(* The safety of the JSON-RPC client for any number of callers, lines and  *)
(* any capacity of the pipes.                                              *)
EXTENDS RpcClient, TLAPS

USE DEF sent, table, callers, pipes, reading

Unsent(c) == call[c].pc \in {"toWrite", "writing"}

(* The shape of a call and of the read loop.                               *)
CallShape ==
  \A c \in Callers :
    /\ Busy(c) => call[c].line \in Lines
    /\ call[c].pc = "waiting" => call[c].line.id # 0
ReaderShape ==
  /\ reader.pc = "deliver" => reader.line \in Lines /\ reader.line.id # 0
  /\ reader.pc # "deliver" => reader.line = None

(* Every line there is, wherever it is.                                    *)
Sent == stdin \cup owed \cup stdout \cup ({reader.line} \ {None})
Known == Sent \cup {call[c].line : c \in {d \in Callers : Busy(d)}}

(* An id stands for one line and is asked by one caller.                   *)
IdsIssued == \A l \in Known : l \in Lines /\ l.id <= nextID
OneLinePerId == \A l, m \in Known : l.id = m.id /\ l.id # 0 => l = m
OneCallerPerId ==
  \A c, d \in Callers :
    Busy(c) /\ Busy(d) /\ call[c].line.id = call[d].line.id /\ call[c].line.id # 0 => c = d

(* A line that expects a reply is in one place at a time.                  *)
OnePlace ==
  /\ \A l \in owed \cup stdout : l.id # 0
  /\ stdin \cap owed = {} /\ stdin \cap stdout = {} /\ owed \cap stdout = {}
  /\ reader.line \notin stdin \cup owed \cup stdout
  /\ \A c \in Callers : Unsent(c) /\ call[c].line.id # 0 => call[c].line \notin Sent

(* While it is on its way its channel is empty, and a channel holds only   *)
(* what its request can take.                                              *)
QuietChannels ==
  ~Swept =>
    /\ \A l \in Sent : l.id # 0 => reply[l.id] = None
    /\ \A c \in Callers : Unsent(c) /\ call[c].line.id # 0 => reply[call[c].line.id] = None
OwnChannel ==
  \A c \in Callers : Busy(c) /\ call[c].line.id # 0 =>
    reply[call[c].line.id] \in {None, Failed, call[c].line.serial}

Shapes == TypeOK /\ CallShape /\ ReaderShape
Issued == IdsIssued /\ OneLinePerId /\ OneCallerPerId
IInv == /\ Shapes /\ Issued /\ OnePlace
        /\ QuietChannels /\ OwnChannel /\ OwnReply /\ PendingIsInside

-----------------------------------------------------------------------------
LEMMA LineTypes ==
  /\ Ids \subseteq Nat /\ 0 \notin Ids
  /\ None \notin Lines /\ None \notin Ids /\ None \notin Callers /\ None # 0
  /\ \A l \in Lines : l.id # 0 => l.id \in Ids
  /\ \A l \in Lines : l.id \in Nat /\ l.serial \in Ids
<1>1. Lines \subseteq [id : Nat, serial : Nat]
  BY RpcAssumption DEF Lines, Ids
<1> QED
  BY <1>1, RpcAssumption DEF Lines, Ids, Callers

(* What becomes of the calls when one of them moves on.                    *)
LEMMA CallMoves ==
  ASSUME NEW r \in Calls,
         NEW pc \in {"idle", "toWrite", "writing", "waiting"},
         NEW got \in {None, Failed} \cup Ids
  PROVE  /\ [r EXCEPT !.pc = pc] =
              [pc |-> pc, line |-> r.line, late |-> r.late, got |-> r.got]
         /\ [pc |-> pc, line |-> r.line, late |-> r.late, got |-> r.got] \in Calls
         /\ [pc |-> pc, line |-> r.line, late |-> r.late, got |-> got] \in Calls
<1>1. [r EXCEPT !.pc = pc] = [pc |-> pc, line |-> r.line, late |-> r.late, got |-> r.got]
  BY DEF Calls
<1>2. [pc |-> pc, line |-> r.line, late |-> r.late, got |-> r.got] \in Calls
  BY DEF Calls
<1>3. [pc |-> pc, line |-> r.line, late |-> r.late, got |-> got] \in Calls
  BY DEF Calls
<1> QED
  BY <1>1, <1>2, <1>3

LEMMA InitShapes == Init => Shapes
<1> SUFFICES ASSUME Init PROVE Shapes
  OBVIOUS
<1>1. Idle \in Calls /\ Scanning \in [pc : {"scan", "deliver", "sweep", "signal", "ended"},
                                       line : Lines \cup {None}]
  BY DEF Idle, Scanning, Calls
<1>2. call \in [Callers -> Calls] /\ reply \in [Ids -> {None, Failed} \cup Ids]
  BY <1>1 DEF Init
<1>3. \A c \in Callers : call[c].pc = "idle"
  BY DEF Init, Idle
<1>4. nextID \in 0..MaxLines /\ written \in 0..MaxLines /\ nextID <= written
  BY RpcAssumption DEF Init
<1>5. CallShape /\ ReaderShape
  BY <1>3, LineTypes DEF Init, CallShape, ReaderShape, Busy, Scanning
<1>6. \A c \in Callers : call[c].pc = "writing" <=> writeMu = c
  BY <1>3, LineTypes DEF Init
<1> QED
  BY <1>1, <1>2, <1>4, <1>5, <1>6 DEF Init, Shapes, TypeOK

LEMMA NextShapes == Shapes /\ [Next]_vars => Shapes'
<1> SUFFICES ASSUME Shapes, [Next]_vars PROVE Shapes'
  OBVIOUS
<1> USE LineTypes DEF Shapes
<1>1. ASSUME NEW c \in Callers, Request(c) PROVE Shapes'
  <2> DEFINE l == [id |-> nextID + 1, serial |-> written + 1]
             r == [pc |-> "toWrite", line |-> l, late |-> Swept, got |-> None]
  <2>1. nextID \in Nat /\ written \in Nat /\ nextID <= written /\ written < MaxLines
    BY <1>1, RpcAssumption DEF Request, Room, TypeOK
  <2>2. l \in Lines /\ l.id # 0 /\ nextID + 1 \in Ids /\ written + 1 \in Ids
    BY <2>1, RpcAssumption DEF Lines, Ids
  <2>3. r \in Calls
    BY <2>2 DEF Calls, Swept
  <2>4. call' = [call EXCEPT ![c] = r]
    BY <1>1 DEF Request, NewId
  <2>5. nextID' = nextID + 1 /\ written' = written + 1
        /\ pending' = pending \cup {nextID + 1}
        /\ reply' = [reply EXCEPT ![nextID + 1] = None]
    BY <1>1 DEF Request, NewId
  <2>6. nextID' \in 0..MaxLines /\ written' \in 0..MaxLines /\ nextID' <= written'
    BY <2>1, <2>5, RpcAssumption
  <2>7. call' \in [Callers -> Calls] /\ call'[c] = r
        /\ \A d \in Callers \ {c} : call'[d] = call[d]
    BY <2>3, <2>4 DEF TypeOK
  <2> HIDE DEF r
  <2>8. r.line = l /\ r.pc = "toWrite"
    BY DEF r
  <2> HIDE DEF l
  <2>9. phase' \in {"starting", "initializing", "notifying", "connected",
                   "giveUp", "closing", "closed"}
    BY <1>1 DEF Request, TypeOK
  <2>10. CallShape'
    BY <2>2, <2>7, <2>8 DEF CallShape, Busy
  <2> QED
    BY <1>1, <2>2, <2>5, <2>6, <2>7, <2>8, <2>9, <2>10 DEF Request, Busy, TypeOK, ReaderShape
<1>2. ASSUME NEW c \in Callers, Write(c) PROVE Shapes'
  BY <1>2, RpcAssumption DEF Write, Room, TypeOK, CallShape, ReaderShape, Calls, Busy, Lines, Ids, Failed
<1>3. ASSUME NEW c \in Callers, TakeWriteMu(c) PROVE Shapes'
  <2> DEFINE r == [pc |-> "writing", line |-> call[c].line, late |-> call[c].late,
                   got |-> call[c].got]
  <2>1. call[c] \in Calls
    BY DEF TypeOK
  <2>2. call' = [call EXCEPT ![c] = r] /\ r \in Calls
    BY <1>3, <2>1, CallMoves DEF TakeWriteMu
  <2>3. call' \in [Callers -> Calls] /\ \A d \in Callers \ {c} : call'[d] = call[d]
        /\ call'[c].pc = "writing" /\ call'[c].line = call[c].line
    BY <2>2 DEF TypeOK
  <2>4. CallShape'
    BY <1>3, <2>3 DEF TakeWriteMu, CallShape, Busy
  <2>5. \A d \in Callers : call'[d].pc = "writing" <=> writeMu' = d
    BY <1>3, <2>3 DEF TakeWriteMu, TypeOK
  <2> HIDE DEF r
  <2> QED
    BY <1>3, <2>3, <2>4, <2>5 DEF TakeWriteMu, TypeOK, ReaderShape
<1>4. ASSUME NEW c \in Callers, Written(c) PROVE Shapes'
  <2> DEFINE r == [pc |-> "waiting", line |-> call[c].line, late |-> call[c].late,
                   got |-> call[c].got]
  <2>1. call[c] \in Calls
    BY DEF TypeOK
  <2>2. CASE Expects(c)
    <3>1. call' = [call EXCEPT ![c] = r] /\ r \in Calls
      BY <1>4, <2>1, <2>2, CallMoves DEF Written
    <3> QED
      BY <1>4, <2>2, <3>1 DEF Written, Expects, TypeOK, CallShape, ReaderShape, Busy
  <2>3. CASE ~Expects(c)
    BY <1>4, <2>3
    DEF Written, Return, Deregister, MainNext, Expects, Calls, Failed, TypeOK,
        CallShape, ReaderShape, Busy
  <2> QED
    BY <2>2, <2>3
<1>5. ASSUME NEW c \in Callers, WriteFails(c) PROVE Shapes'
  BY <1>5, RpcAssumption DEF WriteFails, Return, Deregister, MainNext, Expects, TypeOK, CallShape, ReaderShape, Calls, Busy, Lines, Ids, Failed
<1>6. ASSUME NEW c \in Callers, TakeReply(c) PROVE Shapes'
  BY <1>6, RpcAssumption DEF TakeReply, Return, Deregister, MainNext, Expects, TypeOK, CallShape, ReaderShape, Calls, Busy, Lines, Ids, Failed
<1>7. ASSUME NEW c \in Callers, Timeout(c) PROVE Shapes'
  BY <1>7, RpcAssumption DEF Timeout, Return, Deregister, MainNext, Expects, TypeOK, CallShape, ReaderShape, Calls, Busy, Lines, Ids, Failed
<1>8. CASE ChildReads
  BY <1>8 DEF ChildReads, TypeOK, CallShape, ReaderShape, Busy, Failed, Calls
<1>9. CASE ChildAnswers
  BY <1>9 DEF ChildAnswers, TypeOK, CallShape, ReaderShape, Busy, Failed, Calls
<1>10. CASE ChildHangs
  BY <1>10 DEF ChildHangs, TypeOK, CallShape, ReaderShape, Busy, Failed, Calls
<1>11. CASE ChildDies
  BY <1>11 DEF ChildDies, TypeOK, CallShape, ReaderShape, Busy, Failed, Calls
<1>12. CASE Scan
  BY <1>12 DEF Scan, Scanning, TypeOK, CallShape, ReaderShape, Busy, Failed, Calls
<1>13. CASE Deliver
  BY <1>13 DEF Deliver, Scanning, CanDeliver, TypeOK, CallShape, ReaderShape, Busy, Failed, Calls
<1>14. CASE ScanEnds
  BY <1>14 DEF ScanEnds, TypeOK, CallShape, ReaderShape, Busy, Failed, Calls
<1>15. CASE FailPending
  BY <1>15 DEF FailPending, TypeOK, CallShape, ReaderShape, Busy, Failed, Calls
<1>16. CASE SignalDone
  BY <1>16 DEF SignalDone, TypeOK, CallShape, ReaderShape, Busy, Failed, Calls
<1>17. CASE CloseStdinAndKill
  BY <1>17 DEF CloseStdinAndKill, MayClose, TypeOK, CallShape, ReaderShape, Busy, Failed, Calls
<1>18. CASE CloseWaits
  BY <1>18 DEF CloseWaits, TypeOK, CallShape, ReaderShape, Busy, Failed, Calls
<1>19. CASE UNCHANGED vars
  BY <1>19 DEF vars, TypeOK, CallShape, ReaderShape, Busy
<1> QED
  BY <1>1, <1>2, <1>3, <1>4, <1>5, <1>6, <1>7, <1>8, <1>9, <1>10, <1>11, <1>12, <1>13, <1>14, <1>15, <1>16, <1>17, <1>18, <1>19 DEF Next

-----------------------------------------------------------------------------
(* What a step does to the lines.                                          *)
CallsKeep ==
  \A d \in Callers :
    /\ Busy(d)' => Busy(d) /\ call'[d].line = call[d].line
    /\ Unsent(d)' => Unsent(d)

LEMMA Advance ==
  ASSUME Shapes, [Next]_vars, \A c \in Callers : ~Request(c) /\ ~Write(c)
  PROVE  nextID' = nextID /\ CallsKeep /\ Known' \subseteq Known
<1>1. ASSUME call' = call PROVE CallsKeep
  BY <1>1 DEF CallsKeep, Busy, Unsent
<1>2. ASSUME CallsKeep, Sent' \subseteq Known PROVE Known' \subseteq Known
  BY <1>2 DEF CallsKeep, Known, Busy
<1> USE LineTypes DEF Shapes
<1>3. ASSUME NEW c \in Callers, TakeWriteMu(c) PROVE nextID' = nextID /\ CallsKeep /\ Sent' = Sent
  <2>1. call[c] \in Calls
    BY DEF TypeOK
  <2>2. call' = [call EXCEPT ![c] = [pc |-> "writing", line |-> call[c].line,
                                    late |-> call[c].late, got |-> call[c].got]]
    BY <1>3, <2>1, CallMoves DEF TakeWriteMu
  <2>3. call'[c].line = call[c].line /\ \A d \in Callers \ {c} : call'[d] = call[d]
    BY <2>2 DEF TypeOK
  <2> QED
    BY <1>3, <2>3 DEF TakeWriteMu, CallsKeep, Busy, Unsent, Sent
<1>4. ASSUME NEW c \in Callers, NEW got, NEW ok, Return(c, got, ok), Busy(c) PROVE CallsKeep
  BY <1>4 DEF Return, CallsKeep, Busy, Unsent, TypeOK
<1>5. ASSUME NEW c \in Callers, Written(c)
      PROVE  nextID' = nextID /\ CallsKeep /\ Sent' \subseteq Known
  <2>1. call[c] \in Calls /\ Busy(c)
    BY <1>5 DEF TypeOK, Written, Busy
  <2>2. CallsKeep
    <3>1. CASE Expects(c)
      <4>1. call' = [call EXCEPT ![c] = [pc |-> "waiting", line |-> call[c].line,
                                        late |-> call[c].late, got |-> call[c].got]]
        BY <1>5, <2>1, <3>1, CallMoves DEF Written
      <4> QED
        BY <2>1, <4>1 DEF CallsKeep, Busy, Unsent, TypeOK
    <3>2. CASE ~Expects(c)
      BY <1>5, <2>1, <3>2, <1>4 DEF Written
    <3> QED
      BY <3>1, <3>2
  <2>3. Sent' \subseteq Known
    BY <1>5, <2>1 DEF Written, Sent, Known
  <2> QED
    BY <1>5, <2>2, <2>3 DEF Written
<1>6. ASSUME NEW c \in Callers, WriteFails(c) \/ TakeReply(c) \/ Timeout(c)
      PROVE  nextID' = nextID /\ CallsKeep /\ Sent' = Sent
  <2>1. Busy(c) /\ \E got, ok : Return(c, got, ok)
    BY <1>6 DEF WriteFails, TakeReply, Timeout, Busy
  <2>2. CallsKeep
    BY <2>1, <1>4
  <2> QED
    BY <1>6, <2>2 DEF WriteFails, TakeReply, Timeout, Sent
<1>7. CASE \/ ChildReads \/ ChildAnswers \/ ChildHangs \/ ChildDies \/ Scan \/ Deliver
           \/ ScanEnds \/ FailPending \/ SignalDone \/ CloseStdinAndKill \/ CloseWaits
           \/ UNCHANGED vars
  <2>1. nextID' = nextID /\ call' = call
    BY <1>7 DEF ChildReads, ChildAnswers, ChildHangs, ChildDies, Scan, Deliver, ScanEnds,
       FailPending, SignalDone, CloseStdinAndKill, CloseWaits, vars
  <2>2. Sent' \subseteq Sent
    <3>1. CASE ChildReads
      BY <3>1 DEF ChildReads, Sent
    <3>2. CASE ChildAnswers
      BY <3>2 DEF ChildAnswers, Sent
    <3>3. CASE Scan
      BY <3>3 DEF Scan, Scanning, Sent
    <3>4. CASE CloseWaits
      BY <3>4 DEF CloseWaits, Sent
    <3>5. CASE Deliver
      BY <3>5 DEF Deliver, Scanning, Sent
    <3>6. CASE ScanEnds
      BY <3>6 DEF ScanEnds, Sent
    <3>7. CASE FailPending \/ SignalDone
      BY <3>7 DEF FailPending, SignalDone, Sent, TypeOK
    <3>8. CASE ChildHangs \/ ChildDies \/ CloseStdinAndKill \/ UNCHANGED vars
      BY <3>8 DEF ChildHangs, ChildDies, CloseStdinAndKill, vars, Sent
    <3> QED
      BY <1>7, <3>1, <3>2, <3>3, <3>4, <3>5, <3>6, <3>7, <3>8
  <2> QED
    BY <1>1, <1>2, <2>1, <2>2 DEF Known
<1> QED
  BY <1>2, <1>3, <1>5, <1>6, <1>7 DEF Next, Known

LEMMA Issue ==
  ASSUME Shapes, NEW c \in Callers, Request(c) \/ Write(c)
  PROVE  LET l == call'[c].line IN
         /\ ~Busy(c) /\ call'[c].pc = "toWrite" /\ call'[c].got = None
         /\ \A d \in Callers \ {c} : call'[d] = call[d]
         /\ l \in Lines /\ l.id <= nextID' /\ nextID <= nextID'
         /\ l.id = 0 \/ l.id > nextID
         /\ Sent' = Sent /\ Known' \subseteq Known \cup {l}
         /\ Swept' = Swept /\ pending' = pending \cup ({l.id} \ {0})
         /\ reply' = IF l.id = 0 THEN reply ELSE [reply EXCEPT ![l.id] = None]
<1> USE LineTypes DEF Shapes
<1>1. nextID \in Nat /\ written \in Nat /\ nextID <= written /\ written < MaxLines
  BY RpcAssumption DEF Request, Write, Room, TypeOK
<1>2. call \in [Callers -> Calls]
  BY DEF TypeOK
<1>3. CASE Request(c)
  <2> DEFINE l == [id |-> nextID + 1, serial |-> written + 1]
  <2>1. l \in Lines
    BY <1>1, RpcAssumption DEF Lines, Ids
  <2>2. call' = [call EXCEPT ![c] = [pc |-> "toWrite", line |-> l, late |-> Swept, got |-> None]]
    BY <1>3 DEF Request, NewId
  <2>3. call'[c].line = l /\ call'[c].pc = "toWrite" /\ call'[c].got = None
        /\ \A d \in Callers \ {c} : call'[d] = call[d]
    BY <1>2, <2>2
  <2>4. Sent' = Sent /\ Swept' = Swept
    BY <1>3 DEF Request, Sent, Swept
  <2>5. Known' \subseteq Known \cup {l}
    BY <2>3, <2>4 DEF Known, Busy
  <2>6. nextID' = nextID + 1 /\ pending' = pending \cup {nextID + 1}
        /\ reply' = [reply EXCEPT ![nextID + 1] = None] /\ ~Busy(c)
    BY <1>3 DEF Request, NewId
  <2> QED
    BY <1>1, <2>1, <2>3, <2>4, <2>5, <2>6
<1>4. CASE Write(c)
  <2> DEFINE l == [id |-> 0, serial |-> written + 1]
  <2>1. l \in Lines
    BY <1>1, RpcAssumption DEF Lines, Ids
  <2>2. call' = [call EXCEPT ![c] = [pc |-> "toWrite", line |-> l, late |-> FALSE, got |-> None]]
    BY <1>4 DEF Write
  <2>3. call'[c].line = l /\ call'[c].pc = "toWrite" /\ call'[c].got = None
        /\ \A d \in Callers \ {c} : call'[d] = call[d]
    BY <1>2, <2>2
  <2>4. Sent' = Sent /\ Swept' = Swept
    BY <1>4 DEF Write, Sent, Swept
  <2>5. Known' \subseteq Known \cup {l}
    BY <2>3, <2>4 DEF Known, Busy
  <2> QED
    BY <1>1, <1>4, <2>1, <2>3, <2>4, <2>5 DEF Write
<1> QED
  BY <1>3, <1>4

LEMMA NextIssued == Shapes /\ Issued /\ [Next]_vars => Issued'
<1> SUFFICES ASSUME Shapes, Issued, [Next]_vars PROVE Issued'
  OBVIOUS
<1>1. CASE \A c \in Callers : ~Request(c) /\ ~Write(c)
  <2>1. nextID' = nextID /\ CallsKeep /\ Known' \subseteq Known
    BY <1>1, Advance
  <2> QED
    BY <2>1 DEF Issued, IdsIssued, OneLinePerId, OneCallerPerId, CallsKeep, Busy
<1>2. ASSUME NEW c \in Callers, Request(c) \/ Write(c) PROVE Issued'
  <2> DEFINE l == call'[c].line
  <2>1. /\ \A d \in Callers \ {c} : call'[d] = call[d]
        /\ l \in Lines /\ l.id <= nextID' /\ nextID <= nextID'
        /\ l.id = 0 \/ l.id > nextID
        /\ Known' \subseteq Known \cup {l}
    BY <1>2, Issue
  <2>2. nextID \in Nat /\ nextID' \in Nat
    BY NextShapes, RpcAssumption DEF Shapes, TypeOK
  <2>3. \A m \in Known : m \in Lines /\ m.id <= nextID /\ m.id \in Nat
    BY LineTypes DEF Issued, IdsIssued
  <2>4. \A d \in Callers : Busy(d) => call[d].line \in Known
    BY DEF Known
  <2>5. l.id \in Nat
    BY <2>1, LineTypes
  <2> HIDE DEF l
  <2>6. IdsIssued'
    BY <2>1, <2>2, <2>3, <2>5 DEF IdsIssued
  <2>7. OneLinePerId'
    BY <2>1, <2>2, <2>3, <2>5 DEF Issued, OneLinePerId
  <2>8. OneCallerPerId'
    BY <2>1, <2>2, <2>3, <2>4, <2>5 DEF Issued, OneCallerPerId, Busy, l
  <2> QED
    BY <2>6, <2>7, <2>8 DEF Issued
<1> QED
  BY <1>1, <1>2

LEMMA NextOnePlace == Shapes /\ Issued /\ OnePlace /\ [Next]_vars => OnePlace'
<1> SUFFICES ASSUME Shapes, Issued, OnePlace, [Next]_vars PROVE OnePlace'
  OBVIOUS
<1> USE LineTypes
<1>1. \A d \in Callers : Busy(d) => call[d].line \in Known
  BY DEF Known
<1>2. ASSUME NEW c \in Callers, Request(c) \/ Write(c) PROVE OnePlace'
  <2> DEFINE l == call'[c].line
  <2>1. /\ \A d \in Callers \ {c} : call'[d] = call[d]
        /\ l.id = 0 \/ l.id > nextID
        /\ Sent' = Sent /\ l \in Lines
    BY <1>2, Issue
  <2>2. l.id # 0 => l \notin Sent
    BY <2>1 DEF Known, Issued, IdsIssued, Shapes, TypeOK
  <2>3. UNCHANGED <<stdin, owed, stdout, reader>>
    BY <1>2 DEF Request, Write
  <2> HIDE DEF l
  <2>4. \A d \in Callers : Unsent(d)' /\ call'[d].line.id # 0 => call'[d].line \notin Sent'
    BY <2>1, <2>2 DEF OnePlace, Unsent, l
  <2> QED
    BY <2>3, <2>4 DEF OnePlace
<1>3. ASSUME CallsKeep, Sent' \subseteq Sent
      PROVE  \A d \in Callers : Unsent(d)' /\ call'[d].line.id # 0 => call'[d].line \notin Sent'
  BY <1>3 DEF CallsKeep, OnePlace, Unsent, Busy
<1>4. CASE \A c \in Callers : ~Request(c) /\ ~Write(c)
  <2>1. CallsKeep
    BY <1>4, Advance
  <2>2. ASSUME NEW c \in Callers, TakeWriteMu(c) \/ WriteFails(c) \/ TakeReply(c) \/ Timeout(c)
        PROVE  OnePlace'
    <3>1. UNCHANGED <<stdin, owed, stdout, reader>>
      BY <2>2 DEF TakeWriteMu, WriteFails, TakeReply, Timeout
    <3> QED
      BY <1>3, <2>1, <3>1 DEF OnePlace, Sent
  <2>3. ASSUME NEW c \in Callers, Written(c) PROVE OnePlace'
    <3> DEFINE l == call[c].line
    <3>1. /\ stdin' = stdin \cup {l} /\ UNCHANGED <<owed, stdout, reader>>
          /\ Unsent(c) /\ Busy(c) /\ ~Unsent(c)'
      <4>1. call[c].pc = "writing" /\ call[c] \in Calls /\ call \in [Callers -> Calls]
        BY <2>3 DEF Written, Shapes, TypeOK
      <4>2. call'[c].pc \in {"waiting", "idle"}
        <5>1. CASE Expects(c)
          <6>1. call' = [call EXCEPT ![c] =
                   [pc |-> "waiting", line |-> call[c].line,
                    late |-> call[c].late, got |-> call[c].got]]
            BY <2>3, <4>1, <5>1, CallMoves DEF Written
          <6> QED
            BY <4>1, <6>1
        <5>2. CASE ~Expects(c)
          BY <2>3, <4>1, <5>2 DEF Written, Return
        <5> QED
          BY <5>1, <5>2
      <4> QED
        BY <2>3, <4>1, <4>2 DEF Written, Unsent, Busy
    <3>2. l \in Lines
      BY <3>1 DEF Shapes, CallShape
    <3>3. l \notin owed \cup stdout /\ l # reader.line
      <4>1. CASE l.id = 0
        BY <3>2, <4>1 DEF OnePlace, Shapes, ReaderShape
      <4>2. CASE l.id # 0
        BY <3>1, <3>2, <4>2 DEF OnePlace, Sent
      <4> QED
        BY <4>1, <4>2
    <3>4. ASSUME NEW d \in Callers, Unsent(d)', call'[d].line.id # 0
          PROVE  call'[d].line \notin Sent'
      <4>1. Unsent(d) /\ Busy(d) /\ call'[d].line = call[d].line /\ d # c
        BY <2>1, <3>1, <3>4 DEF CallsKeep, Unsent, Busy
      <4>2. call[d].line \notin Sent
        BY <3>4, <4>1 DEF OnePlace
      <4>3. call[d].line # l
        BY <3>1, <3>4, <4>1 DEF Issued, OneCallerPerId
      <4> QED
        BY <3>1, <4>1, <4>2, <4>3 DEF Sent
    <3> HIDE DEF l
    <3> QED
      BY <3>1, <3>3, <3>4 DEF OnePlace
  <2>4. ASSUME call' = call, stdin' \subseteq stdin, owed' \subseteq owed,
               stdout' \subseteq stdout, reader' = reader \/ reader'.line = None
        PROVE  OnePlace'
    <3>1. Sent' \subseteq Sent
      BY <2>4 DEF Sent
    <3>2. reader'.line \notin stdin' \cup owed' \cup stdout'
      BY <2>4 DEF OnePlace, Shapes, TypeOK
    <3> QED
      BY <1>3, <2>1, <2>4, <3>1, <3>2 DEF OnePlace
  <2>5. CASE ChildReads
    <3>1. PICK l \in stdin : /\ stdin' = stdin \ {l}
                             /\ owed' = IF l.id = 0 THEN owed ELSE owed \cup {l}
      BY <2>5 DEF ChildReads
    <3>2. call' = call /\ stdout' = stdout /\ reader' = reader
      BY <2>5 DEF ChildReads
    <3>3. Sent' \subseteq Sent
      BY <3>1, <3>2 DEF Sent
    <3> QED
      BY <1>3, <2>1, <3>1, <3>2, <3>3 DEF OnePlace
  <2>6. CASE ChildAnswers
    <3>1. PICK l \in owed : owed' = owed \ {l} /\ stdout' = stdout \cup {l}
      BY <2>6 DEF ChildAnswers
    <3>2. call' = call /\ stdin' = stdin /\ reader' = reader
      BY <2>6 DEF ChildAnswers
    <3>3. Sent' \subseteq Sent
      BY <3>1, <3>2 DEF Sent
    <3> QED
      BY <1>3, <2>1, <3>1, <3>2, <3>3 DEF OnePlace
  <2>7. CASE Scan
    <3>1. PICK l \in stdout : stdout' = stdout \ {l} /\ reader'.line \in {l, None}
      BY <2>7 DEF Scan, Scanning
    <3>2. call' = call /\ stdin' = stdin /\ owed' = owed
      BY <2>7 DEF Scan
    <3>3. Sent' \subseteq Sent
      BY <3>1, <3>2 DEF Sent
    <3>4. None \notin stdin \cup owed \cup stdout
      BY DEF Shapes, TypeOK
    <3> QED
      BY <1>3, <2>1, <3>1, <3>2, <3>3, <3>4 DEF OnePlace
  <2>8. CASE Deliver \/ ScanEnds
    BY <2>4, <2>8 DEF Deliver, ScanEnds, Scanning
  <2>9. CASE FailPending \/ SignalDone
    <3>1. reader'.line = None
      BY <2>9 DEF FailPending, SignalDone, Shapes, TypeOK, ReaderShape
    <3> QED
      BY <2>4, <2>9, <3>1 DEF FailPending, SignalDone
  <2>10. CASE ChildHangs \/ ChildDies \/ CloseStdinAndKill \/ CloseWaits \/ UNCHANGED vars
    BY <2>4, <2>10 DEF ChildHangs, ChildDies, CloseStdinAndKill, CloseWaits, vars
  <2> QED
    BY <1>4, <2>2, <2>3, <2>5, <2>6, <2>7, <2>8, <2>9, <2>10 DEF Next
<1> QED
  BY <1>2, <1>4

-----------------------------------------------------------------------------
(* How the call of a caller that is not a new one may change.              *)
CallChanges(c) ==
  \/ call'[c] = call[c]
  \/ /\ call'[c].line = call[c].line
     /\ \/ call[c].pc # "idle" /\ call'[c].pc # "idle" /\ call'[c].got = call[c].got
        \/ call'[c].pc = "idle" /\ call'[c].got \in {None, Failed}
        \/ /\ call'[c].pc = "idle" /\ call[c].pc = "waiting"
           /\ call'[c].got = reply[call[c].line.id]

LEMMA NextCall ==
  ASSUME Shapes, [Next]_vars, \A d \in Callers : ~Request(d) /\ ~Write(d),
         NEW c \in Callers
  PROVE  CallChanges(c)
<1> USE DEF CallChanges
<1>1. call \in [Callers -> Calls]
  BY DEF Shapes, TypeOK
<1>2. ASSUME NEW d \in Callers, TakeWriteMu(d) PROVE CallChanges(c)
  <2>1. call' = [call EXCEPT ![d] = [pc |-> "writing", line |-> call[d].line,
                                    late |-> call[d].late, got |-> call[d].got]]
    BY <1>1, <1>2, CallMoves DEF TakeWriteMu
  <2>2. CASE c = d
    BY <1>1, <1>2, <2>1, <2>2 DEF TakeWriteMu
  <2>3. CASE c # d
    BY <1>1, <2>1, <2>3
  <2> QED
    BY <2>2, <2>3
<1>3. ASSUME NEW d \in Callers, Written(d), Expects(d) PROVE CallChanges(c)
  <2>1. call' = [call EXCEPT ![d] = [pc |-> "waiting", line |-> call[d].line,
                                    late |-> call[d].late, got |-> call[d].got]]
    BY <1>1, <1>3, CallMoves DEF Written
  <2> QED
    BY <1>1, <1>3, <2>1 DEF Written
<1>4. ASSUME NEW d \in Callers, \/ Written(d) /\ ~Expects(d)
                                \/ WriteFails(d) \/ Timeout(d) \/ TakeReply(d)
      PROVE  CallChanges(c)
  <2>1. ASSUME NEW got, NEW ok, Return(d, got, ok),
               \/ got \in {None, Failed}
               \/ call[d].pc = "waiting" /\ got = reply[call[d].line.id]
        PROVE  CallChanges(c)
    <3>1. call' = [call EXCEPT ![d] =
            [pc |-> "idle", line |-> call[d].line, late |-> call[d].late, got |-> got]]
      BY <2>1 DEF Return
    <3>2. CASE c = d
      BY <1>1, <2>1, <3>1, <3>2
    <3>3. CASE c # d
      BY <1>1, <3>1, <3>3
    <3> QED
      BY <3>2, <3>3
  <2> QED
    BY <1>4, <2>1 DEF Written, WriteFails, Timeout, TakeReply
<1>5. CASE \/ ChildReads \/ ChildAnswers \/ ChildHangs \/ ChildDies \/ Scan \/ Deliver
           \/ ScanEnds \/ FailPending \/ SignalDone \/ CloseStdinAndKill \/ CloseWaits
           \/ UNCHANGED vars
  BY <1>5 DEF ChildReads, ChildAnswers, ChildHangs, ChildDies, Scan, Deliver, ScanEnds,
     FailPending, SignalDone, CloseStdinAndKill, CloseWaits, vars
<1> QED
  BY <1>2, <1>3, <1>4, <1>5 DEF Next

LEMMA NextOwnReply == Shapes /\ OwnChannel /\ OwnReply /\ [Next]_vars => OwnReply'
<1> SUFFICES ASSUME Shapes, OwnChannel, OwnReply, [Next]_vars, NEW c \in Callers
             PROVE  call'[c].got \notin {None, Failed} => call'[c].got = call'[c].line.serial
  BY DEF OwnReply
<1>1. CASE \A d \in Callers : ~Request(d) /\ ~Write(d)
  <2>1. CallChanges(c)
    BY <1>1, NextCall
  <2> QED
    BY <2>1 DEF CallChanges, OwnReply, OwnChannel, Busy, Shapes, CallShape
<1>2. ASSUME NEW d \in Callers, Request(d) \/ Write(d)
      PROVE  call'[c].got \notin {None, Failed} => call'[c].got = call'[c].line.serial
  BY <1>2, Issue DEF OwnReply
<1> QED
  BY <1>1, <1>2

LEMMA NextChannels ==
  Shapes /\ Issued /\ OnePlace /\ QuietChannels /\ OwnChannel /\ [Next]_vars
    => QuietChannels' /\ OwnChannel'
<1> SUFFICES ASSUME Shapes, Issued, OnePlace, QuietChannels, OwnChannel, [Next]_vars
             PROVE  QuietChannels' /\ OwnChannel'
  OBVIOUS
<1> USE LineTypes
<1>1. reply \in [Ids -> {None, Failed} \cup Ids] /\ \A l \in Known : l.id # 0 => l.id \in Ids
  BY DEF Shapes, TypeOK, Issued, IdsIssued
<1>2. ASSUME NEW c \in Callers, Request(c) \/ Write(c) PROVE QuietChannels' /\ OwnChannel'
  <2> DEFINE l == call'[c].line
  <2>1. /\ \A d \in Callers \ {c} : call'[d] = call[d]
        /\ l \in Lines /\ Sent' = Sent /\ Swept' = Swept
        /\ reply' = IF l.id = 0 THEN reply ELSE [reply EXCEPT ![l.id] = None]
    BY <1>2, Issue
  <2>2. \A i \in Ids : reply'[i] = reply[i] \/ reply'[i] = None
    BY <1>1, <2>1
  <2>3. l.id # 0 => reply'[l.id] = None
    BY <1>1, <2>1
  <2>4. \A d \in Callers : Busy(d) => call[d].line \in Known
    BY DEF Known
  <2>5. Sent \subseteq Known
    BY DEF Known
  <2> HIDE DEF l
  <2>6. QuietChannels'
    BY <1>1, <2>1, <2>2, <2>3, <2>4, <2>5 DEF QuietChannels, Unsent, Busy, l
  <2>7. OwnChannel'
    BY <1>1, <2>1, <2>2, <2>3, <2>4 DEF OwnChannel, Busy, l
  <2> QED
    BY <2>6, <2>7
<1>3. CASE \A c \in Callers : ~Request(c) /\ ~Write(c)
  <2>1. CallsKeep
    BY <1>3, Advance
  <2>2. \A d \in Callers : Busy(d)' => call'[d].line = call[d].line /\ call[d].line \in Known
    BY <2>1 DEF CallsKeep, Known
  <2>3. ASSUME \A i \in Ids : reply'[i] \in {reply[i], None},
               Swept => Swept',
               \A l \in Sent' : l.id # 0 =>
                 l \in Sent \/ \E c \in Callers : Unsent(c) /\ call[c].line = l
        PROVE  QuietChannels' /\ OwnChannel'
    <3>1. \A d \in Callers : Unsent(d)' => Unsent(d) /\ Busy(d)'
      BY <2>1 DEF CallsKeep, Unsent, Busy
    <3>2. Sent \subseteq Known /\ \A d \in Callers : Unsent(d) => call[d].line \in Known
      BY DEF Known, Unsent, Busy
    <3>3. ASSUME NEW l \in Known, l.id # 0, reply[l.id] = None PROVE reply'[l.id] = None
      BY <1>1, <2>3, <3>3
    <3>4. ASSUME ~Swept', NEW l \in Sent', l.id # 0 PROVE reply'[l.id] = None
      BY <2>3, <3>2, <3>3, <3>4 DEF QuietChannels
    <3>5. ASSUME ~Swept', NEW d \in Callers, Unsent(d)', call'[d].line.id # 0
          PROVE  reply'[call'[d].line.id] = None
      <4>1. Unsent(d) /\ call'[d].line = call[d].line /\ call[d].line \in Known
        BY <2>2, <3>1, <3>5
      <4> QED
        BY <2>3, <3>3, <3>5, <4>1 DEF QuietChannels
    <3>6. QuietChannels'
      BY <3>4, <3>5 DEF QuietChannels
    <3>7. OwnChannel'
      BY <1>1, <2>1, <2>2, <2>3 DEF OwnChannel, CallsKeep
    <3> QED
      BY <3>6, <3>7
  <2>4. ASSUME NEW c \in Callers, Written(c) PROVE QuietChannels' /\ OwnChannel'
    <3>1. Unsent(c) /\ Sent' \subseteq Sent \cup {call[c].line} /\ reply' = reply /\ Swept' = Swept
      BY <2>4 DEF Written, Unsent, Sent, Swept
    <3> QED
      BY <2>3, <3>1
  <2>5. ASSUME NEW c \in Callers, TakeWriteMu(c) \/ WriteFails(c) \/ Timeout(c)
        PROVE  QuietChannels' /\ OwnChannel'
    <3>1. Sent' = Sent /\ reply' = reply /\ Swept' = Swept
      BY <2>5 DEF TakeWriteMu, WriteFails, Timeout, Sent, Swept
    <3> QED
      BY <2>3, <3>1
  <2>6. ASSUME NEW c \in Callers, TakeReply(c) PROVE QuietChannels' /\ OwnChannel'
    <3>1. Sent' = Sent /\ Swept' = Swept /\ reply' = [reply EXCEPT ![call[c].line.id] = None]
      BY <2>6 DEF TakeReply, Sent, Swept
    <3>2. \A i \in Ids : reply'[i] \in {reply[i], None}
      BY <1>1, <3>1
    <3> QED
      BY <2>3, <3>1, <3>2
  <2>7. CASE \/ ChildReads \/ ChildAnswers \/ ChildHangs \/ ChildDies \/ Scan
             \/ ScanEnds \/ SignalDone \/ CloseStdinAndKill \/ CloseWaits \/ UNCHANGED vars
    <3>1. reply' = reply
      BY <2>7 DEF ChildReads, ChildAnswers, ChildHangs, ChildDies, Scan, ScanEnds, SignalDone,
         CloseStdinAndKill, CloseWaits, vars
    <3>2. Swept => Swept'
      BY <2>7 DEF ChildReads, ChildAnswers, ChildHangs, ChildDies, Scan, ScanEnds, SignalDone,
         CloseStdinAndKill, CloseWaits, vars, Swept, Shapes, TypeOK
    <3>3. Sent' \subseteq Sent
      <4>1. CASE ChildReads \/ ChildAnswers
        BY <4>1 DEF ChildReads, ChildAnswers, Sent
      <4>2. CASE Scan
        BY <4>2 DEF Scan, Scanning, Sent
      <4>3. CASE SignalDone
        BY <4>3 DEF SignalDone, Sent, Shapes, TypeOK
      <4>4. CASE ScanEnds \/ CloseWaits
        BY <4>4 DEF ScanEnds, CloseWaits, Sent
      <4>5. CASE ChildHangs \/ ChildDies \/ CloseStdinAndKill \/ UNCHANGED vars
        BY <4>5 DEF ChildHangs, ChildDies, CloseStdinAndKill, vars, Sent
      <4> QED
        BY <2>7, <4>1, <4>2, <4>3, <4>4, <4>5
    <3> QED
      BY <2>3, <3>1, <3>2, <3>3
  <2>8. CASE Deliver
    <3> DEFINE l == reader.line
    <3>1. l \in Lines /\ l.id # 0 /\ l \in Sent /\ Sent \subseteq Known /\ l \in Known
      BY <2>8 DEF Deliver, Shapes, ReaderShape, Sent, Known
    <3>2. /\ reply' = [reply EXCEPT ![l.id] = l.serial] /\ call' = call
          /\ Sent' = stdin \cup owed \cup stdout /\ ~Swept
      BY <2>8 DEF Deliver, Scanning, Sent, Swept
    <3>3. \A m \in Sent' : m # l /\ m \in Sent
      BY <3>2 DEF OnePlace, Sent
    <3>4. \A m \in Known : m # l /\ m.id # 0 => m.id # l.id
      BY <3>1 DEF Issued, OneLinePerId
    <3>5. \A d \in Callers : Unsent(d) /\ call[d].line.id # 0 =>
            call[d].line # l /\ call[d].line \in Known
      BY <3>1 DEF OnePlace, Known, Unsent, Busy
    <3>6. \A i \in Ids : reply'[i] = IF i = l.id THEN l.serial ELSE reply[i]
      BY <1>1, <3>1, <3>2
    <3> HIDE DEF l
    <3>7. QuietChannels'
      BY <1>1, <3>1, <3>2, <3>3, <3>4, <3>5, <3>6 DEF QuietChannels, Unsent
    <3>8. OwnChannel'
      BY <1>1, <2>2, <3>1, <3>2, <3>4, <3>6 DEF OwnChannel, Busy
    <3> QED
      BY <3>7, <3>8
  <2>9. CASE FailPending
    <3>1. Swept' /\ \A i \in Ids : reply'[i] \in {reply[i], Failed}
      BY <2>9 DEF FailPending, Swept, Shapes, TypeOK
    <3>2. OwnChannel'
      BY <1>1, <2>1, <2>2, <3>1 DEF OwnChannel, CallsKeep
    <3> QED
      BY <3>1, <3>2 DEF QuietChannels
  <2> QED
    BY <1>3, <2>4, <2>5, <2>6, <2>7, <2>8, <2>9 DEF Next
<1> QED
  BY <1>2, <1>3

(* Deregistering one caller's id leaves those of the others.               *)
LEMMA NextPending ==
  Shapes /\ Issued /\ PendingIsInside /\ [Next]_vars => PendingIsInside'
<1> SUFFICES ASSUME Shapes, Issued, PendingIsInside, [Next]_vars PROVE PendingIsInside'
  OBVIOUS
<1> USE LineTypes
<1> DEFINE Asks(c) == Busy(c) /\ Expects(c)
<1>1. call \in [Callers -> Calls] /\ \A c \in Callers : Busy(c) => call[c].line \in Lines
  BY DEF Shapes, TypeOK, CallShape
<1>2. ASSUME NEW c \in Callers, Request(c) \/ Write(c) PROVE PendingIsInside'
  <2>1. /\ ~Busy(c) /\ call'[c].pc = "toWrite"
        /\ \A d \in Callers \ {c} : call'[d] = call[d]
        /\ call'[c].line \in Lines /\ call'[c].line # None
        /\ pending' = pending \cup ({call'[c].line.id} \ {0})
    BY <1>2, Issue
  <2> QED
    BY <2>1 DEF PendingIsInside, Busy, Expects
<1>3. ASSUME pending' = pending, \A d \in Callers : Asks(d)' <=> Asks(d),
             \A d \in Callers : Asks(d) => call'[d].line = call[d].line
      PROVE  PendingIsInside'
  BY <1>3 DEF PendingIsInside
<1>4. ASSUME NEW c \in Callers, NEW got, NEW ok, Return(c, got, ok), Busy(c)
      PROVE  PendingIsInside'
  <2>1. /\ call'[c].pc = "idle" /\ \A d \in Callers \ {c} : call'[d] = call[d]
        /\ pending' = pending \ {call[c].line.id}
    BY <1>1, <1>4 DEF Return, Deregister
  <2>2. \A d \in Callers \ {c} : Asks(d) => call[d].line.id # call[c].line.id
    BY <1>4 DEF Issued, OneCallerPerId, Expects
  <2>3. Asks(c) \/ call[c].line.id = 0
    BY <1>1, <1>4 DEF Expects
  <2>4. \A d \in Callers : Asks(d) => call[d].line.id # 0
    BY DEF Expects
  <2> QED
    BY <2>1, <2>2, <2>3, <2>4 DEF PendingIsInside, Busy, Expects
<1>5. ASSUME NEW c \in Callers, TakeWriteMu(c) PROVE PendingIsInside'
  <2>1. call' = [call EXCEPT ![c] = [pc |-> "writing", line |-> call[c].line,
                                    late |-> call[c].late, got |-> call[c].got]]
    BY <1>1, <1>5, CallMoves DEF TakeWriteMu
  <2>2. pending' = pending /\ call[c].pc = "toWrite"
    BY <1>5 DEF TakeWriteMu
  <2> QED
    BY <1>1, <1>3, <2>1, <2>2 DEF Busy, Expects
<1>6. ASSUME NEW c \in Callers, Written(c) PROVE PendingIsInside'
  <2>1. call[c].pc = "writing"
    BY <1>6 DEF Written
  <2>2. CASE Expects(c)
    <3>1. call' = [call EXCEPT ![c] = [pc |-> "waiting", line |-> call[c].line,
                                      late |-> call[c].late, got |-> call[c].got]]
      BY <1>1, <1>6, <2>2, CallMoves DEF Written
    <3>2. pending' = pending
      BY <1>6, <2>2 DEF Written
    <3> QED
      BY <1>1, <1>3, <2>1, <3>1, <3>2 DEF Busy, Expects
  <2>3. CASE ~Expects(c)
    BY <1>4, <1>6, <2>1, <2>3 DEF Written, Busy
  <2> QED
    BY <2>2, <2>3
<1>7. ASSUME NEW c \in Callers, WriteFails(c) \/ TakeReply(c) \/ Timeout(c)
      PROVE  PendingIsInside'
  BY <1>4, <1>7 DEF WriteFails, TakeReply, Timeout, Busy
<1>8. CASE \/ ChildReads \/ ChildAnswers \/ ChildHangs \/ ChildDies \/ Scan \/ Deliver
           \/ ScanEnds \/ FailPending \/ SignalDone \/ CloseStdinAndKill \/ CloseWaits
           \/ UNCHANGED vars
  <2>1. call' = call /\ pending' = pending
    BY <1>8 DEF ChildReads, ChildAnswers, ChildHangs, ChildDies, Scan, Deliver, ScanEnds,
       FailPending, SignalDone, CloseStdinAndKill, CloseWaits, vars
  <2> QED
    BY <1>3, <2>1 DEF Busy, Expects
<1> QED
  BY <1>2, <1>5, <1>6, <1>7, <1>8 DEF Next

-----------------------------------------------------------------------------
LEMMA InitIInv == Init => IInv
<1> SUFFICES ASSUME Init PROVE IInv
  OBVIOUS
<1> USE LineTypes
<1>1. \A c \in Callers : ~Busy(c) /\ ~Unsent(c) /\ call[c].got = None
  BY DEF Init, Idle, Busy, Unsent
<1>2. Known = {} /\ Sent = {}
  BY <1>1 DEF Init, Known, Sent, Scanning
<1>3. Issued
  BY <1>1, <1>2 DEF Issued, IdsIssued, OneLinePerId, OneCallerPerId
<1>4. OnePlace
  BY <1>1 DEF Init, OnePlace
<1>5. QuietChannels /\ OwnChannel /\ OwnReply
  BY <1>1, <1>2 DEF QuietChannels, OwnChannel, OwnReply
<1>6. PendingIsInside
  BY <1>1 DEF Init, PendingIsInside
<1> QED
  BY <1>3, <1>4, <1>5, <1>6, InitShapes DEF IInv

LEMMA SpecIInv == Spec => []IInv
<1>1. IInv /\ [Next]_vars => IInv'
  BY NextShapes, NextIssued, NextOnePlace, NextChannels, NextOwnReply, NextPending DEF IInv
<1> QED
  BY <1>1, InitIInv, PTL DEF Spec

(* The types hold, and writeMu has the one caller that writes              *)
(* (CodexClient.write).                                                    *)
THEOREM TypeCorrect == Spec => []TypeOK
<1>1. IInv => TypeOK
  BY DEF IInv, Shapes
<1> QED
  BY <1>1, SpecIInv, PTL

(* No caller takes another request's reply, in particular not one that is  *)
(* late for a request that timed out (Request, readLoop).                  *)
THEOREM RepliesFit == Spec => []OwnReply
<1>1. IInv => OwnReply
  BY DEF IInv
<1> QED
  BY <1>1, SpecIInv, PTL

(* The buffer of one of a reply channel is enough: readLoop never blocks   *)
(* on a delivery.                                                          *)
THEOREM DeliveryFree == Spec => []ReaderNeverBlocks
<1>1. IInv => ReaderNeverBlocks
  BY LineTypes DEF IInv, Shapes, ReaderShape, QuietChannels, ReaderNeverBlocks, CanDeliver,
     Swept, Sent
<1> QED
  BY <1>1, SpecIInv, PTL

(* The pending map holds exactly the requests in progress: the deferred    *)
(* delete of Request removes an id of its own, on every way out.           *)
THEOREM NoneLeftPending == Spec => []PendingIsInside
<1>1. IInv => PendingIsInside
  BY DEF IInv
<1> QED
  BY <1>1, SpecIInv, PTL

-----------------------------------------------------------------------------
(* The way of an answer, from the registration of its request on: a line    *)
(* still to be written counts too, unless the read loop has swept already.  *)
Places == stdin \cup owed \cup stdout \cup {reader.line}
OnItsWay(c) ==
  \/ reply[call[c].line.id] # None
  \/ ~Swept /\ (Unsent(c) \/ call[c].line \in Places \/ phase = "closed")
  \/ reader.pc = "sweep"
  \/ call[c].late
AnswersCome == \A c \in Callers : Busy(c) /\ call[c].line.id # 0 => OnItsWay(c)

(* What of the others must stay for the answer to stay on its way.         *)
LEMMA WayKept ==
  ASSUME NEW c \in Callers, OnItsWay(c), call'[c].line = call[c].line,
         call'[c].late = call[c].late, Swept' = Swept,
         reply[call[c].line.id] # None => reply'[call[c].line.id] # None,
         reader.pc = "sweep" => reader'.pc = "sweep",
         phase = "closed" => phase' = "closed",
         ~Swept /\ Unsent(c) => Unsent(c)' \/ call[c].line \in Places',
         ~Swept /\ call[c].line \in Places =>
           call[c].line \in Places' \/ phase' = "closed" \/ reply'[call[c].line.id] # None
  PROVE  OnItsWay(c)'
BY DEF OnItsWay

LEMMA NextAnswers == IInv /\ AnswersCome /\ [Next]_vars => AnswersCome'
<1> SUFFICES ASSUME IInv, AnswersCome, [Next]_vars, NEW c \in Callers,
                    Busy(c)', call'[c].line.id # 0
             PROVE  OnItsWay(c)'
  BY DEF AnswersCome
<1> USE LineTypes DEF IInv
<1>1. /\ call \in [Callers -> Calls] /\ reply \in [Ids -> {None, Failed} \cup Ids]
      /\ Failed # None
  BY DEF Shapes, TypeOK, Failed
<1>2. ASSUME NEW d \in Callers, Request(d) \/ Write(d) PROVE OnItsWay(c)'
  <2> DEFINE l == call'[d].line
  <2>1. /\ \A e \in Callers \ {d} : call'[e] = call[e]
        /\ call'[d].pc = "toWrite" /\ l \in Lines /\ (l.id = 0 \/ l.id > nextID)
        /\ Swept' = Swept
        /\ reply' = IF l.id = 0 THEN reply ELSE [reply EXCEPT ![l.id] = None]
    BY <1>2, Issue DEF Shapes
  <2>2. UNCHANGED <<reader, stdin, owed, stdout>> /\ (phase = "closed" => phase' = "closed")
    BY <1>2 DEF Request, Write
  <2>3. CASE c = d
    <3>1. call' = [call EXCEPT ![d] = [pc |-> "toWrite",
             line |-> [id |-> NewId, serial |-> written + 1], late |-> Swept, got |-> None]]
      <4>1. CASE Request(d)
        BY <4>1 DEF Request
      <4>2. CASE Write(d)
        BY <1>1, <2>3, <4>2 DEF Write
      <4> QED
        BY <1>2, <4>1, <4>2
    <3>2. call'[c].late = Swept
      BY <1>1, <2>3, <3>1
    <3> QED
      BY <2>1, <2>3, <3>2 DEF OnItsWay, Unsent
  <2>4. CASE c # d
    <3>1. call'[c] = call[c] /\ Busy(c) /\ call[c].line.id # 0
      BY <2>1, <2>4 DEF Busy
    <3>2. OnItsWay(c)
      BY <3>1 DEF AnswersCome
    <3>3. call[c].line.id \in Ids /\ call[c].line.id <= nextID
      BY <3>1 DEF Shapes, CallShape, Issued, IdsIssued, Known
    <3>4. reply'[call[c].line.id] = reply[call[c].line.id]
      <4>1. l.id = 0 \/ (l.id > nextID /\ l.id \in Nat /\ nextID \in Nat)
        BY <2>1 DEF Shapes, TypeOK
      <4>2. l.id # call[c].line.id
        BY <3>1, <3>3, <4>1
      <4> HIDE DEF l
      <4> QED
        BY <1>1, <2>1, <3>3, <4>2
    <3> QED
      BY <2>1, <2>2, <3>1, <3>2, <3>4, WayKept DEF Unsent, Places
  <2> QED
    BY <2>3, <2>4
<1>3. CASE \A d \in Callers : ~Request(d) /\ ~Write(d)
  <2>1. Busy(c) /\ call'[c].line = call[c].line /\ call[c].line.id # 0
    BY <1>3, Advance DEF CallsKeep
  <2>2. OnItsWay(c)
    BY <2>1 DEF AnswersCome
  <2>3. /\ call[c].line \in Lines /\ call[c].line.id \in Ids /\ call[c].line # None
        /\ call[c].line.id \in pending
    <3>1. call[c].line \in Lines
      BY <2>1 DEF Shapes, CallShape
    <3> QED
      BY <2>1, <3>1 DEF PendingIsInside, Expects
  <2>4. ASSUME NEW d \in Callers, TakeWriteMu(d) PROVE OnItsWay(c)'
    <3>1. call' = [call EXCEPT ![d] = [pc |-> "writing", line |-> call[d].line,
                                      late |-> call[d].late, got |-> call[d].got]]
      BY <1>1, <2>4, CallMoves DEF TakeWriteMu
    <3>2. call'[c].late = call[c].late /\ (Unsent(c) => Unsent(c)')
      <4>1. CASE c = d
        BY <1>1, <3>1, <4>1 DEF Unsent
      <4>2. CASE c # d
        BY <1>1, <3>1, <4>2 DEF Unsent
      <4> QED
        BY <4>1, <4>2
    <3>3. UNCHANGED <<reply, reader, phase, stdin, owed, stdout>>
      BY <2>4 DEF TakeWriteMu
    <3> QED
      BY <2>1, <2>2, <3>2, <3>3, WayKept DEF Swept, Places
  <2>5. ASSUME NEW d \in Callers, NEW got, NEW ok, Return(d, got, ok),
               UNCHANGED <<reader, owed, stdout>>, stdin \subseteq stdin',
               reply'[call[c].line.id] = reply[call[c].line.id] \/ c = d
        PROVE  OnItsWay(c)'
    <3>1. c # d /\ call'[c] = call[c]
      <4>1. call'[d].pc = "idle" /\ \A e \in Callers \ {d} : call'[e] = call[e]
        BY <1>1, <2>5 DEF Return
      <4> QED
        BY <4>1 DEF Busy
    <3>2. phase = "closed" => phase' = "closed"
      BY <2>5 DEF Return, MainNext
    <3> QED
      BY <2>1, <2>2, <2>5, <3>1, <3>2, WayKept DEF Swept, Places, Unsent
  <2>6. ASSUME NEW d \in Callers, Written(d) PROVE OnItsWay(c)'
    <3>1. /\ UNCHANGED <<reply, reader, owed, stdout>>
          /\ stdin' = stdin \cup {call[d].line} /\ call[d].pc = "writing"
      BY <2>6 DEF Written
    <3>2. CASE Expects(d)
      <4>1. call' = [call EXCEPT ![d] = [pc |-> "waiting", line |-> call[d].line,
                                        late |-> call[d].late, got |-> call[d].got]]
        BY <1>1, <2>6, <3>2, CallMoves DEF Written
      <4>2. phase' = phase
        BY <2>6, <3>2 DEF Written
      <4>3. call'[c].late = call[c].late /\ (c # d => call'[c] = call[c])
        <5>1. CASE c = d
          BY <1>1, <4>1, <5>1
        <5>2. CASE c # d
          BY <1>1, <4>1, <5>2
        <5> QED
          BY <5>1, <5>2
      <4>4. c = d => call[c].line \in Places'
        BY <3>1 DEF Places
      <4>5. c # d => (Unsent(c) => Unsent(c)')
        BY <4>3 DEF Unsent
      <4>6. Places \subseteq Places' /\ Swept' = Swept
        BY <3>1 DEF Places, Swept
      <4> QED
        BY <2>1, <2>2, <3>1, <4>2, <4>3, <4>4, <4>5, <4>6, WayKept
    <3>3. CASE ~Expects(d)
      BY <2>5, <2>6, <3>1, <3>3 DEF Written
    <3> QED
      BY <3>2, <3>3
  <2>7. ASSUME NEW d \in Callers, WriteFails(d) \/ Timeout(d) PROVE OnItsWay(c)'
    BY <2>5, <2>7 DEF WriteFails, Timeout
  <2>8. ASSUME NEW d \in Callers, TakeReply(d) PROVE OnItsWay(c)'
    <3>1. /\ call[d].pc = "waiting" /\ \E got, ok : Return(d, got, ok)
          /\ reply' = [reply EXCEPT ![call[d].line.id] = None]
          /\ UNCHANGED <<reader, stdin, owed, stdout>>
      BY <2>8 DEF TakeReply
    <3>2. c = d \/ call[d].line.id # call[c].line.id
      BY <2>1, <3>1 DEF Issued, OneCallerPerId, Busy
    <3>3. c = d \/ reply'[call[c].line.id] = reply[call[c].line.id]
      BY <1>1, <2>3, <3>1, <3>2
    <3> QED
      BY <2>5, <3>1, <3>3
  <2>9. ASSUME call' = call, UNCHANGED <<reply, reader>>,
               phase' = phase \/ phase' = "closed" \/ phase # "closed",
               call[c].line \in Places => call[c].line \in Places' \/ phase' = "closed"
        PROVE  OnItsWay(c)'
    BY <2>1, <2>2, <2>9, WayKept DEF Swept, Unsent
  <2>10. CASE ChildReads \/ ChildAnswers
    <3>1. /\ UNCHANGED <<call, reply, reader, phase>>
          /\ call[c].line \in Places => call[c].line \in Places'
      <4>1. CASE ChildReads
        BY <2>1, <4>1 DEF ChildReads, Places
      <4>2. CASE ChildAnswers
        BY <4>2 DEF ChildAnswers, Places
      <4> QED
        BY <2>10, <4>1, <4>2
    <3> QED
      BY <2>9, <3>1
  <2>11. CASE ChildHangs \/ ChildDies \/ CloseStdinAndKill \/ CloseWaits \/ UNCHANGED vars
    <3>1. /\ UNCHANGED <<call, reply, reader, stdin, owed>>
          /\ phase' = phase \/ phase' = "closed" \/ phase # "closed"
          /\ stdout' = stdout \/ phase' = "closed"
      BY <2>11 DEF ChildHangs, ChildDies, CloseStdinAndKill, MayClose, CloseWaits, vars
    <3> QED
      BY <2>9, <3>1 DEF Places
  <2>12. CASE Scan
    <3>1. /\ UNCHANGED <<call, reply, phase, stdin, owed>> /\ reader.pc = "scan"
          /\ ~Swept /\ ~Swept' /\ reader.line = None
      BY <2>12 DEF Scan, Scanning, Swept, Shapes, ReaderShape
    <3>2. call[c].line \in Places => call[c].line \in Places'
      <4>1. PICK l \in stdout : /\ stdout' = stdout \ {l}
                                /\ l.id \in pending => reader'.line = l
        BY <2>12 DEF Scan
      <4> QED
        BY <2>3, <3>1, <4>1 DEF Places
    <3>3. Swept' = Swept
      BY <2>12 DEF Scan, Scanning, Swept
    <3>4. Unsent(c) => Unsent(c)'
      BY <3>1 DEF Unsent
    <3>5. call'[c].late = call[c].late /\ reader.pc # "sweep"
      BY <3>1
    <3>6. reply'[call[c].line.id] = reply[call[c].line.id] /\ phase' = phase
      BY <3>1
    <3> QED
      BY <2>1, <2>2, <3>2, <3>3, <3>4, <3>5, <3>6, WayKept
  <2>13. CASE Deliver
    <3>1. /\ UNCHANGED <<call, phase, stdin, owed, stdout>> /\ reader.pc = "deliver"
          /\ ~Swept /\ ~Swept'
          /\ reply' = [reply EXCEPT ![reader.line.id] = reader.line.serial]
      BY <2>13 DEF Deliver, Scanning, Swept
    <3>2. reader.line \in Lines /\ reader.line.serial # None
      BY <3>1 DEF Shapes, ReaderShape
    <3>3. reply'[call[c].line.id] =
            IF call[c].line.id = reader.line.id THEN reader.line.serial
            ELSE reply[call[c].line.id]
      BY <1>1, <2>3, <3>1
    <3>4. Swept' = Swept /\ reader.pc # "sweep"
      BY <2>13 DEF Deliver, Scanning, Swept
    <3>5. Unsent(c) => Unsent(c)'
      BY <3>1 DEF Unsent
    <3>6. call'[c].late = call[c].late /\ phase' = phase
      BY <3>1
    <3>7. reply[call[c].line.id] # None => reply'[call[c].line.id] # None
      BY <3>2, <3>3
    <3>8. call[c].line \in Places =>
            call[c].line \in Places' \/ reply'[call[c].line.id] # None
      <4>1. CASE call[c].line = reader.line
        BY <3>2, <3>3, <4>1
      <4>2. CASE call[c].line # reader.line
        BY <3>1, <4>2 DEF Places
      <4> QED
        BY <4>1, <4>2
    <3> QED
      BY <2>1, <2>2, <3>4, <3>5, <3>6, <3>7, <3>8, WayKept
  <2>14. CASE ScanEnds
    BY <2>14 DEF ScanEnds, OnItsWay
  <2>15. CASE FailPending
    <3>1. reply'[call[c].line.id] # None /\ call' = call
      BY <1>1, <2>3, <2>15 DEF FailPending
    <3> QED
      BY <3>1 DEF OnItsWay
  <2>16. CASE SignalDone
    <3>1. Swept /\ reader.pc # "sweep" /\ call' = call /\ reply' = reply
      BY <2>16 DEF SignalDone, Swept
    <3> QED
      BY <2>2, <3>1 DEF OnItsWay
  <2> QED
    BY <2>4, <2>6, <2>7, <2>8, <2>10, <2>11, <2>12, <2>13, <2>14, <2>15, <2>16, <1>3 DEF Next
<1> QED
  BY <1>2, <1>3

(* No answer is lost between the child and its caller: until it is in the   *)
(* channel, the question or the answer is somewhere on the way, or the read *)
(* loop will fail the request, or the request came after that (Request,     *)
(* readLoop, failPending).                                                  *)
THEOREM AnswersNotLost == Spec => []AnswerOnItsWay
<1>1. Init => IInv /\ AnswersCome
  <2>1. Init => AnswersCome
    BY DEF Init, AnswersCome, Busy, Idle
  <2> QED
    BY <2>1, InitIInv
<1>2. IInv /\ AnswersCome /\ [Next]_vars => (IInv /\ AnswersCome)'
  BY NextShapes, NextIssued, NextOnePlace, NextChannels, NextOwnReply, NextPending,
     NextAnswers DEF IInv
<1>3. IInv /\ AnswersCome => AnswerOnItsWay
  BY DEF IInv, Shapes, CallShape, AnswersCome, AnswerOnItsWay, OnItsWay, Busy, Unsent, Places
<1> QED
  BY <1>1, <1>2, <1>3, PTL DEF Spec
=============================================================================
