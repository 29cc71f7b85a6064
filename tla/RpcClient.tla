----------------------------- MODULE RpcClient -----------------------------
(* The JSON-RPC client of one app-server child (appserver/client.go): the  *)
(* requests of several goroutines over one stdin, the read loop that hands *)
(* the replies out, and Close.  What travels is a request's number on the  *)
(* wire (id) and which request it really is (serial, known to no one in    *)
(* the code).  Replies are matched by id alone, so pipes are sets of lines *)
(* and the order of lines is left out.                                     *)
EXTENDS Naturals, FiniteSets

CONSTANTS
  Main,         \* the goroutine of runAppServer: connects, refreshes, closes
  Workers,      \* goroutines of HTTP handlers: interrupts and answers
  None,
  MaxLines,     \* bound on the lines written to the child in all
  PipeCap       \* lines a pipe holds before its writer blocks

ASSUME RpcAssumption ==
  /\ Main \notin Workers
  /\ MaxLines \in Nat
  /\ PipeCap \in Nat \ {0}
  /\ None \notin Nat \cup Workers \cup {Main} \cup [id : Nat, serial : Nat]

Callers == Workers \cup {Main}

(* What a reply channel can hold: the reply to request s is s itself.      *)
Failed == 0
Ids == 1..MaxLines
Lines == [id : 0..MaxLines, serial : Ids]    \* id 0: no reply is expected

VARIABLES
  nextID,     \* the last id given out
  written,    \* lines composed so far: the source of serials
  pending,    \* ids with a channel in c.pending
  reply,      \* id -> what waits in its channel: None, Failed or a serial
  writeMu,    \* holder of c.writeMu
  call,       \* caller -> its Request, Respond or Notify in progress
  phase,      \* the life of the client as Main sees it
  stdinOpen, stdin, child, owed, stdout,   \* the child and its pipes
  reader,     \* readLoop
  done        \* c.done holds the end of the stream

sent == <<nextID, written>>
table == <<pending, reply>>
callers == <<writeMu, call, phase>>
pipes == <<stdinOpen, stdin, child, owed, stdout>>
reading == <<reader, done>>
vars == <<nextID, written, pending, reply, writeMu, call, phase, stdinOpen,
          stdin, child, owed, stdout, reader, done>>

-----------------------------------------------------------------------------
Idle == [pc |-> "idle", line |-> None, late |-> FALSE, got |-> None]
Scanning == [pc |-> "scan", line |-> None]

Swept == reader.pc \in {"signal", "ended"}
Expects(c) == call[c].line # None /\ call[c].line.id # 0
Busy(c) == call[c].pc # "idle"

Init ==
  /\ nextID = 0 /\ written = 0
  /\ pending = {} /\ reply = [i \in Ids |-> None]
  /\ writeMu = None
  /\ call = [c \in Callers |-> Idle]
  /\ phase = "starting"
  /\ stdinOpen = TRUE /\ child = "reading"
  /\ stdin = {} /\ owed = {} /\ stdout = {}
  /\ reader = Scanning /\ done = FALSE

(* Which goroutine may ask what: Main initializes, then refreshes; an HTTP *)
(* worker has seen m.client, maybe before it was cleared.                  *)
MayRequest(c) ==
  \/ c = Main /\ phase \in {"starting", "connected"}
  \/ c \in Workers /\ phase \notin {"starting", "initializing", "notifying"}
(* Main sends "initialized"; a worker answers a request the child made.    *)
MayWrite(c) ==
  \/ c = Main /\ phase = "notifying"
  \/ c \in Workers /\ phase # "starting"

(* The bound leaves Main the line that ends its handshake.                 *)
Room(c) ==
  IF c = Main \/ phase \in {"connected", "giveUp", "closing", "closed"}
  THEN written < MaxLines ELSE written + 1 < MaxLines

MutNewId ==               \* reuses the lowest id that is not pending
  CHOOSE i \in Ids : i \notin pending /\ \A j \in Ids \ pending : i <= j
NewId == nextID + 1

(* Request registers its channel before it writes.                         *)
Request(c) ==
  /\ ~Busy(c) /\ MayRequest(c) /\ Room(c)
  /\ written' = written + 1
  /\ nextID' = NewId
  /\ pending' = pending \cup {NewId}
  /\ reply' = [reply EXCEPT ![NewId] = None]
  /\ call' = [call EXCEPT ![c] =
       [pc |-> "toWrite", line |-> [id |-> NewId, serial |-> written + 1],
        late |-> Swept, got |-> None]]
  /\ phase' = IF c = Main /\ phase = "starting" THEN "initializing" ELSE phase
  /\ UNCHANGED <<writeMu, pipes, reading>>

(* Respond and Notify write a line and register nothing.                   *)
Write(c) ==
  /\ ~Busy(c) /\ MayWrite(c) /\ Room(c)
  /\ written' = written + 1
  /\ call' = [call EXCEPT ![c] =
       [pc |-> "toWrite", line |-> [id |-> 0, serial |-> written + 1],
        late |-> FALSE, got |-> None]]
  /\ UNCHANGED <<nextID, table, writeMu, phase, pipes, reading>>

TakeWriteMu(c) ==
  /\ call[c].pc = "toWrite" /\ writeMu = None
  /\ writeMu' = c
  /\ call' = [call EXCEPT ![c].pc = "writing"]
  /\ UNCHANGED <<sent, table, phase, pipes, reading>>

(* The deferred delete of Request.                                         *)
MutDeregister(id) ==      \* only a delivered reply removes the entry
  IF id # 0 /\ reply[id] # None THEN pending \ {id} ELSE pending
MutDeregisterAll(id) == {}   \* starts a new map
Deregister(id) == pending \ {id}

(* How Main goes on after its Request or Notify.                           *)
MainNext(ok) ==
  CASE phase = "initializing" -> IF ok THEN "notifying" ELSE "giveUp"
    [] phase = "notifying" -> IF ok THEN "connected" ELSE "giveUp"
    [] OTHER -> phase

Return(c, got, ok) ==
  /\ call' = [call EXCEPT ![c] =
       [pc |-> "idle", line |-> @.line, late |-> @.late, got |-> got]]
  /\ pending' = Deregister(call[c].line.id)
  /\ phase' = IF c = Main THEN MainNext(ok) ELSE phase

(* write() blocks for ever on a full pipe whose reader is not reading, and *)
(* keeps writeMu meanwhile.                                                *)
Written(c) ==
  /\ call[c].pc = "writing"
  /\ stdinOpen /\ child # "dead" /\ Cardinality(stdin) < PipeCap
  /\ stdin' = stdin \cup {call[c].line}
  /\ writeMu' = None
  /\ IF Expects(c)
     THEN /\ call' = [call EXCEPT ![c].pc = "waiting"]
          /\ UNCHANGED <<pending, phase>>
     ELSE Return(c, None, TRUE)
  /\ UNCHANGED <<sent, reply, stdinOpen, child, owed, stdout, reading>>

MutWriteFails(c) ==       \* returns the error without unlocking
  /\ call[c].pc = "writing" /\ (~stdinOpen \/ child = "dead")
  /\ Return(c, Failed, FALSE)
  /\ UNCHANGED <<sent, reply, writeMu, pipes, reading>>

WriteFails(c) ==
  /\ call[c].pc = "writing"
  /\ ~stdinOpen \/ child = "dead"
  /\ writeMu' = None
  /\ Return(c, Failed, FALSE)
  /\ UNCHANGED <<sent, reply, pipes, reading>>

(* The select of Request: the reply, an error reply being one too, or the  *)
(* end of the context, whichever is taken when both are there.             *)
TakeReply(c) ==
  /\ call[c].pc = "waiting"
  /\ reply[call[c].line.id] # None
  /\ \E ok \in BOOLEAN :
       /\ ok => reply[call[c].line.id] # Failed
       /\ Return(c, reply[call[c].line.id], ok)
  /\ reply' = [reply EXCEPT ![call[c].line.id] = None]
  /\ UNCHANGED <<sent, writeMu, pipes, reading>>

Timeout(c) ==
  /\ call[c].pc = "waiting"
  /\ Return(c, Failed, FALSE)
  /\ UNCHANGED <<sent, reply, writeMu, pipes, reading>>

-----------------------------------------------------------------------------
(* The child reads a line, answers each request at most once and in any    *)
(* order, stops reading for ever, or dies.                                 *)
ChildReads ==
  /\ child = "reading"
  /\ \E l \in stdin :
       /\ stdin' = stdin \ {l}
       /\ owed' = IF l.id = 0 THEN owed ELSE owed \cup {l}
  /\ UNCHANGED <<sent, table, callers, stdinOpen, child, stdout, reading>>

ChildAnswers ==
  /\ child = "reading" /\ Cardinality(stdout) < PipeCap
  /\ \E l \in owed : owed' = owed \ {l} /\ stdout' = stdout \cup {l}
  /\ UNCHANGED <<sent, table, callers, stdinOpen, stdin, child, reading>>

ChildHangs ==
  /\ child = "reading"
  /\ child' = "hung"
  /\ UNCHANGED <<sent, table, callers, stdinOpen, stdin, owed, stdout, reading>>

(* Also how CommandContext and Close kill it.                              *)
ChildDies ==
  /\ child # "dead"
  /\ child' = "dead"
  /\ UNCHANGED <<sent, table, callers, stdinOpen, stdin, owed, stdout, reading>>

-----------------------------------------------------------------------------
(* readLoop: a line and, under pendingMu, the channel of its id.  Unlocked *)
(* again, the channel may belong to a request that is over by now.         *)
Scan ==
  /\ reader.pc = "scan"
  /\ \E l \in stdout :
       /\ stdout' = stdout \ {l}
       /\ reader' = IF l.id \in pending THEN [pc |-> "deliver", line |-> l]
                    ELSE Scanning
  /\ UNCHANGED <<sent, table, callers, stdinOpen, stdin, child, owed, done>>

(* ch <- response does not block: the channel's buffer of one is empty.    *)
MutCanDeliver(id) ==      \* an unbuffered channel
  \E c \in Callers : call[c].pc = "waiting" /\ call[c].line.id = id
CanDeliver(id) == reply[id] = None

Deliver ==
  /\ reader.pc = "deliver" /\ CanDeliver(reader.line.id)
  /\ reply' = [reply EXCEPT ![reader.line.id] = reader.line.serial]
  /\ reader' = Scanning
  /\ UNCHANGED <<sent, pending, callers, pipes, done>>

(* The end of the output, or a line longer than the scanner's 16 MB.       *)
ScanEnds ==
  /\ reader.pc = "scan"
  /\ stdout # {} \/ child = "dead"
  /\ reader' = [pc |-> "sweep", line |-> None]
  /\ UNCHANGED <<sent, table, callers, pipes, done>>

MutFailPending ==         \* ends the loop without failing the callers
  /\ reader.pc = "sweep" /\ reader' = [reader EXCEPT !.pc = "signal"]
  /\ UNCHANGED <<sent, table, callers, pipes, done>>

FailPending ==
  /\ reader.pc = "sweep"
  /\ reply' = [i \in Ids |-> IF i \in pending /\ reply[i] = None THEN Failed
                             ELSE reply[i]]
  /\ reader' = [reader EXCEPT !.pc = "signal"]
  /\ UNCHANGED <<sent, pending, callers, pipes, done>>

SignalDone ==
  /\ reader.pc = "signal"
  /\ done' = TRUE
  /\ reader' = [reader EXCEPT !.pc = "ended"]
  /\ UNCHANGED <<sent, table, callers, pipes>>

-----------------------------------------------------------------------------
(* Close is called by Main only, between its own calls: after a failed     *)
(* initialize, on a failed refresh, on Done and when the agent stops.      *)
MutMayClose == phase = "connected"   \* ConnectStdio leaves a failed client open
MayClose == phase \in {"giveUp", "connected"}

CloseStdinAndKill ==
  /\ MayClose /\ ~Busy(Main)
  /\ phase' = "closing"
  /\ stdinOpen' = FALSE
  /\ UNCHANGED <<sent, table, writeMu, call, stdin, child, owed, stdout, reading>>

(* cmd.Wait returns once the child is dead and closes the read end of its  *)
(* stdout: what the scanner has not buffered yet is lost.                  *)
CloseWaits ==
  /\ phase = "closing" /\ child = "dead"
  /\ phase' = "closed"
  /\ stdout' \in SUBSET stdout
  /\ UNCHANGED <<sent, table, writeMu, call, stdinOpen, stdin, child, owed, reading>>

Next ==
  \/ \E c \in Callers :
       \/ Request(c) \/ Write(c) \/ TakeWriteMu(c) \/ Written(c)
       \/ WriteFails(c) \/ TakeReply(c) \/ Timeout(c)
  \/ ChildReads \/ ChildAnswers \/ ChildHangs \/ ChildDies
  \/ Scan \/ Deliver \/ ScanEnds \/ FailPending \/ SignalDone
  \/ CloseStdinAndKill \/ CloseWaits

Spec == Init /\ [][Next]_vars

-----------------------------------------------------------------------------
(* The locks, the callers and the read loop go on; the child need not.     *)
(* sync.Mutex does not starve a waiter and select picks a ready case at    *)
(* random.  Only Main's requests are assumed to end by their timeout.      *)
Fairness ==
  /\ \A c \in Callers :
       /\ SF_vars(TakeWriteMu(c))
       /\ WF_vars(Written(c)) /\ WF_vars(WriteFails(c)) /\ WF_vars(TakeReply(c))
  /\ WF_vars(phase = "starting" /\ Request(Main)) /\ WF_vars(Write(Main))
  /\ WF_vars(Timeout(Main))
  /\ WF_vars(Scan) /\ WF_vars(Deliver) /\ WF_vars(child = "dead" /\ ScanEnds)
  /\ WF_vars(FailPending) /\ WF_vars(SignalDone)
  /\ SF_vars((done \/ phase = "giveUp") /\ CloseStdinAndKill)
  /\ WF_vars(phase = "closing" /\ ChildDies) /\ WF_vars(CloseWaits)

FairSpec == Spec /\ Fairness

-----------------------------------------------------------------------------
Calls == [pc : {"idle", "toWrite", "writing", "waiting"},
          line : Lines \cup {None}, late : BOOLEAN,
          got : {None, Failed} \cup Ids]

(* Types.  The pipes hold what was written, and writeMu is held by the one *)
(* caller that is writing.                                                 *)
TypeOK ==
  /\ nextID \in 0..MaxLines /\ written \in 0..MaxLines /\ nextID <= written
  /\ pending \subseteq Ids
  /\ reply \in [Ids -> {None, Failed} \cup Ids]
  /\ writeMu \in Callers \cup {None}
  /\ call \in [Callers -> Calls]
  /\ phase \in {"starting", "initializing", "notifying", "connected",
                "giveUp", "closing", "closed"}
  /\ stdinOpen \in BOOLEAN /\ done \in BOOLEAN
  /\ child \in {"reading", "hung", "dead"}
  /\ stdin \subseteq Lines /\ owed \subseteq Lines /\ stdout \subseteq Lines
  /\ reader \in [pc : {"scan", "deliver", "sweep", "signal", "ended"},
                 line : Lines \cup {None}]
  /\ \A c \in Callers : call[c].pc = "writing" <=> writeMu = c

(* A request returns its own reply or fails: a reply that comes after the  *)
(* timeout of its request is never taken for the reply to a later one.     *)
OwnReply ==
  \A c \in Callers : call[c].got \notin {None, Failed} =>
                       call[c].got = call[c].line.serial

(* The read loop, which also carries every notification and server         *)
(* request, is never held up by a caller that has timed out meanwhile.     *)
ReaderNeverBlocks == reader.pc = "deliver" => CanDeliver(reader.line.id)

(* A channel is registered exactly while its request is in progress,       *)
(* whichever way it ends.                                                  *)
PendingIsInside ==
  pending = {call[c].line.id : c \in {d \in Callers : Busy(d) /\ Expects(d)}}

(* No answer gets lost.  A waiting request has it in its channel, or the   *)
(* question or the answer is still on its way, or the read loop is about   *)
(* to fail it; only a request registered after that sweep is left to its   *)
(* timeout.                                                                *)
AnswerOnItsWay ==
  \A c \in Callers : call[c].pc = "waiting" =>
    \/ reply[call[c].line.id] # None
    \/ call[c].line \in stdin \cup owed \cup stdout \cup {reader.line} /\ ~Swept
    \/ reader.pc = "sweep"
    \/ phase = "closed" /\ ~Swept
    \/ call[c].late

(* Close ends every call without help of timeouts, a write that is blocked *)
(* on a full pipe included, except one that came after the sweep.          *)
CloseReleasesAll ==
  \A c \in Callers : phase = "closed" /\ Busy(c) ~> ~Busy(c) \/ call[c].late

(* write has no timeout: the end of the output leads to Close unless a     *)
(* writer is stuck on the full pipe of a child that is still alive.        *)
WriterStuck ==
  /\ \E c \in Callers : call[c].pc = "writing"
  /\ stdinOpen /\ child # "dead" /\ Cardinality(stdin) = PipeCap

DoneLeadsToClose == done ~> phase = "closed" \/ WriterStuck
=============================================================================
