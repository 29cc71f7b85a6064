--------------------------- MODULE MonitorProofs ---------------------------
(* Proofs about Monitor: its types, that attention stays visible, that     *)
(* activity is announced and that a workflow is counted once.  Everything  *)
(* that is published is written by Rebuild, so each property rests on what *)
(* one rebuild does and on the types of the sources it is given.           *)
EXTENDS Monitor, FiniteSetTheorems, WellFoundedInduction, TLAPS

(* What a source may say of the threads it knows.                          *)
Sources ==
  {f \in Partial(Threads, Seen) :
     \A t \in DOMAIN f : f[t].request = 0 /\ f[t].parent \in {None, Parent[t]}}
Hooks == Partial(Threads, Hooked)
Lines == [kind : {"list"}, of : Sources]
           \cup [kind : {"status"}, thread : Threads, status : Statuses]
           \cup [kind : {"turn"}, thread : Threads, status : TurnStatuses]
           \cup [kind : {"request"}, of : Requests]
           \cup [kind : {"resolved"}, id : 1..MaxRequests]
           \cup [kind : {"unclaimed"}]
Refreshes == [at : {"idle", "listing"}] \cup [at : {"holding"}, of : Sources]
Told == [state : States, request : 0..MaxRequests]

SourceTypes ==
  /\ appThreads \in Sources /\ fsThreads \in Sources /\ hookSessions \in Hooks
  /\ refresh \in Refreshes
  /\ inbox \in Seq(Lines)
RequestTypes ==
  /\ asked \subseteq Requests /\ IsFiniteSet(asked)
  /\ pendingRequests \subseteq asked /\ settled \subseteq asked /\ former \subseteq asked
  /\ \A i \in 1..Len(inbox) : inbox[i].kind = "request" => inbox[i].of \in asked
OutsideTypes ==
  /\ changes \in 0..MaxChanges
  /\ served \in Partial(Threads, Statuses)
  /\ DOMAIN files \subseteq Threads
  /\ turns \in [Threads -> 0..changes]

(* What the published threads say; their roots apart.                      *)
IsShown(f) ==
  /\ DOMAIN f \subseteq Threads
  /\ \A t \in DOMAIN f : /\ f[t].state \in States /\ f[t].request \in 0..MaxRequests
                         /\ f[t].parent \in {None, Parent[t]}
PublishedTypes ==
  /\ IsShown(threads)
  /\ eventsReady \in BOOLEAN
  /\ told \in [Threads -> Told]

Types == SourceTypes /\ RequestTypes /\ OutsideTypes /\ PublishedTypes

-----------------------------------------------------------------------------
(* A set of naturals that is not empty has a least one.                    *)
LEMMA LeastNat ==
  ASSUME NEW T, T \subseteq Nat, T # {}
  PROVE  \E n \in T : \A m \in T : n <= m
<1> DEFINE R == {ss \in Nat \X Nat : ss[1] < ss[2]}
<1>1. IsWellFoundedOn(R, Nat)
  BY NatLessThanWellFounded DEF OpToRel
<1>2. PICK n \in T : \A m \in T : ~ (<<m, n>> \in R)
  <2> HIDE DEF R
  <2> QED
    BY <1>1, WFMin
<1>3. ASSUME NEW m \in T PROVE n <= m
  <2>1. <<m, n>> \in Nat \X Nat /\ <<m, n>> \notin R /\ m \in Nat /\ n \in Nat
    BY <1>2
  <2>2. ~(m < n)
    BY <2>1
  <2> QED
    BY <2>1, <2>2
<1> QED
  BY <1>3

(* Partial functions.                                                      *)
LEMMA PartialIs ==
  ASSUME NEW S, NEW T, NEW D \in SUBSET S, NEW f \in [D -> T]
  PROVE  f \in Partial(S, T)
BY DEF Partial

LEMMA PartialHas ==
  ASSUME NEW S, NEW T, NEW f \in Partial(S, T)
  PROVE  DOMAIN f \subseteq S /\ f \in [DOMAIN f -> T] /\ \A t \in DOMAIN f : f[t] \in T
BY DEF Partial

LEMMA WithPartial ==
  ASSUME NEW S, NEW T, NEW f \in Partial(S, T), NEW t \in S, NEW value \in T
  PROVE  With(f, t, value) \in Partial(S, T)
<1>1. With(f, t, value) \in [DOMAIN f \cup {t} -> T]
  BY PartialHas DEF With
<1>2. DOMAIN f \cup {t} \in SUBSET S
  BY PartialHas
<1> QED
  BY <1>1, <1>2, PartialIs

LEMMA SourceIs ==
  ASSUME NEW D \in SUBSET Threads, NEW f \in [D -> Seen],
         \A t \in D : f[t].request = 0 /\ f[t].parent \in {None, Parent[t]}
  PROVE  f \in Sources
BY PartialIs DEF Sources

LEMMA SourceHas ==
  ASSUME NEW f \in Sources
  PROVE  /\ DOMAIN f \subseteq Threads /\ f \in [DOMAIN f -> Seen]
         /\ \A t \in DOMAIN f : /\ f[t] \in Seen /\ f[t].request = 0
                                /\ f[t].parent \in {None, Parent[t]}
BY PartialHas DEF Sources

LEMMA WithSource ==
  ASSUME NEW f \in Sources, NEW t \in Threads, NEW value \in Seen,
         value.request = 0, value.parent \in {None, Parent[t]}
  PROVE  With(f, t, value) \in Sources
<1>1. With(f, t, value) \in [DOMAIN f \cup {t} -> Seen]
  BY SourceHas DEF With
<1>2. DOMAIN f \cup {t} \in SUBSET Threads
  BY SourceHas
<1>3. \A x \in DOMAIN f \cup {t} : /\ With(f, t, value)[x].request = 0
                                   /\ With(f, t, value)[x].parent \in {None, Parent[x]}
  BY SourceHas DEF With
<1> QED
  BY <1>1, <1>2, <1>3, SourceIs

LEMMA OfSource ==
  ASSUME NEW f \in Sources, NEW t \in Threads
  PROVE  Of(f, t) \in Seen /\ Of(f, t).request = 0 /\ Of(f, t).parent \in {None, Parent[t]}
<1>1. NoThread \in Seen /\ NoThread.request = 0 /\ NoThread.parent = None
  BY MonitorAssumption DEF NoThread, Seen, States, TurnStatuses
<1> QED
  BY <1>1, SourceHas DEF Of

LEMMA NothingIs == Nothing \in Sources /\ Nothing \in Hooks /\ DOMAIN Nothing = {}
<1>1. DOMAIN Nothing = {} /\ Nothing \in [{} -> Seen] /\ Nothing \in [{} -> Hooked]
  BY DEF Nothing
<1> QED
  BY <1>1, SourceIs, PartialIs DEF Hooks

(* What a record of the app-server or of a file becomes.                   *)
LEMMA SeenIs ==
  ASSUME NEW state \in States, NEW t \in Threads
  PROVE  LET r == [NoThread EXCEPT !.state = state, !.parent = Parent[t]]
         IN  r \in Seen /\ r.request = 0 /\ r.parent \in {None, Parent[t]}
<1>1. Parent[t] \in {None} \cup Range(Parent)
  BY MonitorAssumption DEF Range
<1>2. NoThread \in Seen /\ NoThread.request = 0
  BY MonitorAssumption DEF NoThread, Seen, States, TurnStatuses
<1>3. ASSUME NEW r \in Seen, NEW parent \in {None} \cup Range(Parent)
      PROVE  LET s == [r EXCEPT !.state = state, !.parent = parent]
             IN  s \in Seen /\ s.request = r.request /\ s.parent = parent
  BY DEF Seen
<1> QED
  BY <1>1, <1>2, <1>3

LEMMA StateChange ==
  ASSUME NEW r \in Seen, NEW state \in States
  PROVE  LET s == [r EXCEPT !.state = state]
         IN  s \in Seen /\ s.request = r.request /\ s.parent = r.parent /\ s.state = state
BY DEF Seen

LEMMA TurnChange ==
  ASSUME NEW r \in Seen, NEW state \in States, NEW status \in TurnStatuses
  PROVE  LET s == [r EXCEPT !.turnStatus = status, !.state = state]
         IN  s \in Seen /\ s.request = r.request /\ s.parent = r.parent
BY DEF Seen

LEMMA StatesMapped ==
  /\ \A status : mapAppServerState(status) \in States
  /\ \A event : mapHookEvent(event) \in States
  /\ \A tail : scanTail(tail) \in States
  /\ {"IDLE", "ERROR", "RUNNING", "UNKNOWN"} \subseteq States
BY DEF mapAppServerState, mapHookEvent, scanTail, States, Active, Waiting

-----------------------------------------------------------------------------
(* What each step of a rebuild makes of its arguments.                     *)
LEMMA MergeSource ==
  ASSUME NEW app \in Sources, NEW fs \in Sources
  PROVE  mergeThreads(app, fs) \in Sources
<1> DEFINE D == DOMAIN app \cup DOMAIN fs
           m == mergeThreads(app, fs)
<1>1. D \in SUBSET Threads
  BY SourceHas
<1>3. ASSUME NEW t \in D
      PROVE  m[t] \in Seen /\ m[t].request = 0 /\ m[t].parent \in {None, Parent[t]}
  <2>1. CASE t \notin DOMAIN app
    <3>1. m[t] = fs[t]
      BY <2>1 DEF mergeThreads
    <3> QED
      BY <2>1, <3>1, SourceHas
  <2>2. CASE t \notin DOMAIN fs
    <3>1. m[t] = app[t]
      BY <2>2 DEF mergeThreads
    <3> QED
      BY <2>2, <3>1, SourceHas
  <2>3. CASE t \in DOMAIN app /\ t \in DOMAIN fs
    <3>1. /\ app[t] \in Seen /\ fs[t] \in Seen /\ app[t].request = 0
          /\ app[t].parent \in {None, Parent[t]} /\ fs[t].parent \in {None, Parent[t]}
      BY <2>3, SourceHas
    <3>2. PICK r \in Seen, s \in Seen : r = app[t] /\ s = fs[t]
      BY <3>1
    <3>3. m[t] = [r EXCEPT !.parent = IF @ = None THEN s.parent ELSE @,
                           !.state = IF @ = "UNKNOWN" THEN s.state ELSE @]
      BY <2>3, <3>2 DEF mergeThreads
    <3>4. PICK parent, state : /\ parent = IF r.parent = None THEN s.parent ELSE r.parent
                               /\ state = IF r.state = "UNKNOWN" THEN s.state ELSE r.state
      OBVIOUS
    <3>5. parent \in {r.parent, s.parent} /\ state \in {r.state, s.state}
      BY <3>4
    <3>6. m[t] = [r EXCEPT !.parent = parent, !.state = state]
      BY <3>3, <3>4
    <3> HIDE DEF m
    <3>7. m[t] \in Seen /\ m[t].request = r.request /\ m[t].parent = parent
      BY <3>5, <3>6 DEF Seen
    <3> QED
      BY <3>1, <3>2, <3>5, <3>7
  <2> QED
    BY <2>1, <2>2, <2>3
<1>4. m \in [D -> Seen]
  <2>1. m = [t \in D |-> m[t]]
    BY DEF mergeThreads
  <2> HIDE DEF m
  <2> QED
    BY <1>3, <2>1
<1> HIDE DEF m, D
<1> QED
  BY <1>1, <1>3, <1>4, SourceIs DEF m

LEMMA HooksSource ==
  ASSUME NEW base \in Sources, NEW hooks \in Hooks
  PROVE  applyHooks(base, hooks) \in Sources
<1> DEFINE D == DOMAIN base \cup DOMAIN hooks
           m == applyHooks(base, hooks)
<1>1. D \in SUBSET Threads /\ \A t \in DOMAIN hooks : hooks[t].state \in States
  <2>1. DOMAIN hooks \subseteq Threads /\ \A t \in DOMAIN hooks : hooks[t] \in Hooked
    BY PartialHas DEF Hooks
  <2> QED
    BY <2>1, SourceHas DEF Hooked
<1>2. ASSUME NEW t \in D
      PROVE  m[t] \in Seen /\ m[t].request = 0 /\ m[t].parent \in {None, Parent[t]}
  <2>1. CASE t \notin DOMAIN hooks
    <3>1. m[t] = base[t]
      BY <2>1 DEF applyHooks
    <3> QED
      BY <2>1, <3>1, SourceHas
  <2>2. CASE t \in DOMAIN hooks
    <3>1. m[t] = [Of(base, t) EXCEPT !.state = hooks[t].state]
      BY <2>2 DEF applyHooks
    <3>2. hooks[t].state \in States /\ t \in Threads
      BY <1>1, <2>2
    <3> HIDE DEF m
    <3> QED
      BY <3>1, <3>2, OfSource, StateChange
  <2> QED
    BY <2>1, <2>2
<1>3. m \in [D -> Seen]
  <2>1. m = [t \in D |-> m[t]]
    BY DEF applyHooks
  <2> HIDE DEF m
  <2> QED
    BY <1>2, <2>1
<1> HIDE DEF m, D
<1> QED
  BY <1>1, <1>2, <1>3, SourceIs DEF m

(* Who waits: exactly the threads of the requests name one.                *)
Attentive(shown, pending) ==
  /\ \A p \in pending : p.thread \in DOMAIN shown /\ shown[p.thread].request # 0
  /\ \A t \in {u \in DOMAIN shown : shown[u].request # 0} :
       \E p \in pending :
         /\ p.id = shown[t].request /\ p.thread = t
         /\ shown[t].state = IF p.type = "approval" THEN "WAITING_APPROVAL"
                             ELSE "WAITING_INPUT"

LEMMA DecorateShows ==
  ASSUME NEW base \in Sources, NEW pending \in SUBSET Requests,
         NEW last \in LastSeen(pending)
  PROVE  LET d == decoratePendingRequests(base, last)
         IN  /\ d \in [DOMAIN d -> Seen]
             /\ IsShown(d) /\ Attentive(d, pending)
<1> DEFINE d == decoratePendingRequests(base, last)
<1>1. /\ DOMAIN last = {p.thread : p \in pending}
      /\ \A t \in DOMAIN last : last[t] \in pending /\ last[t].thread = t
  BY DEF LastSeen
<1>2. DOMAIN d = DOMAIN base \cup DOMAIN last
  BY DEF decoratePendingRequests
<1>3. DOMAIN last \subseteq Threads /\ DOMAIN d \subseteq Threads
  BY <1>1, <1>2, SourceHas DEF Requests
<1>4. ASSUME NEW t \in DOMAIN last
      PROVE  /\ d[t] \in Seen /\ d[t].parent \in {None, Parent[t]}
             /\ d[t].request = last[t].id /\ d[t].request # 0
             /\ d[t].state = IF last[t].type = "approval" THEN "WAITING_APPROVAL"
                             ELSE "WAITING_INPUT"
  <2> DEFINE state == IF last[t].type = "approval" THEN "WAITING_APPROVAL"
                      ELSE "WAITING_INPUT"
  <2>1. d[t] = [Of(base, t) EXCEPT !.request = last[t].id, !.state = state]
    BY DEF decoratePendingRequests
  <2>2. state \in States
    BY DEF States, Active, Waiting
  <2>3. last[t].id \in 1..MaxRequests
    BY <1>1 DEF Requests
  <2>4. last[t].id \in 0..MaxRequests /\ last[t].id # 0
    BY <2>3, MonitorAssumption
  <2>5. Of(base, t) \in Seen /\ Of(base, t).parent \in {None, Parent[t]}
    BY <1>3, OfSource
  <2> HIDE DEF d, state
  <2>6. PICK r \in Seen, id \in 0..MaxRequests : r = Of(base, t) /\ id = last[t].id
    BY <2>4, <2>5
  <2>7. /\ d[t] \in Seen /\ d[t].parent = r.parent
        /\ d[t].request = id /\ d[t].state = state
    <3>1. d[t] = [r EXCEPT !.request = id, !.state = state]
      BY <2>1, <2>6
    <3> QED
      BY <2>2, <3>1 DEF Seen
  <2> QED
    BY <2>4, <2>5, <2>6, <2>7 DEF state
<1>5. ASSUME NEW t \in DOMAIN d, t \notin DOMAIN last
      PROVE  d[t] \in Seen /\ d[t].request = 0 /\ d[t].parent \in {None, Parent[t]}
  <2>1. t \in DOMAIN base /\ d[t] = base[t]
    BY <1>2, <1>5 DEF decoratePendingRequests
  <2> HIDE DEF d
  <2> QED
    BY <2>1, SourceHas
<1>6. d = [t \in DOMAIN d |-> d[t]]
  BY DEF decoratePendingRequests
<1> HIDE DEF d
<1>7. \A t \in DOMAIN d : d[t] \in Seen /\ d[t].parent \in {None, Parent[t]}
  BY <1>4, <1>5
<1>8. IsShown(d)
  BY <1>3, <1>7 DEF IsShown, Seen
<1>9. Attentive(d, pending)
  BY <1>1, <1>2, <1>4, <1>5 DEF Attentive
<1> QED
  BY <1>6, <1>7, <1>8, <1>9 DEF d

LEMMA HierarchyKeeps ==
  ASSUME NEW seen, seen \in [DOMAIN seen -> Seen]
  PROVE  LET h == assignThreadHierarchy(seen)
         IN  /\ DOMAIN h = DOMAIN seen
             /\ \A t \in DOMAIN seen :
                  /\ h[t].state = seen[t].state /\ h[t].request = seen[t].request
                  /\ h[t].parent = seen[t].parent
                  /\ h[t].root = IF seen[t].parent = None THEN t ELSE RootOf(seen, t)
<1> DEFINE h == assignThreadHierarchy(seen)
<1>1. ASSUME NEW t \in DOMAIN seen
      PROVE  /\ h[t].state = seen[t].state /\ h[t].request = seen[t].request
             /\ h[t].parent = seen[t].parent
             /\ h[t].root = IF seen[t].parent = None THEN t ELSE RootOf(seen, t)
  <2>1. PICK r, root : /\ r \in Seen /\ r = seen[t]
                       /\ root = IF seen[t].parent = None THEN t ELSE RootOf(seen, t)
    OBVIOUS
  <2>2. h[t] = [r EXCEPT !.root = root]
    BY <2>1 DEF assignThreadHierarchy
  <2> HIDE DEF h
  <2>3. /\ h[t].state = r.state /\ h[t].request = r.request
        /\ h[t].parent = r.parent /\ h[t].root = root
    BY <2>2 DEF Seen
  <2> QED
    BY <2>1, <2>3
<1>2. DOMAIN h = DOMAIN seen
  BY DEF assignThreadHierarchy
<1> HIDE DEF h
<1> QED
  BY <1>1, <1>2 DEF h

(* The threads before their roots are assigned.                            *)
Unrooted(app, fs, hooks, last) ==
  decoratePendingRequests(applyHooks(mergeThreads(app, fs), hooks), last)

LEMMA ComposeShows ==
  ASSUME NEW app \in Sources, NEW fs \in Sources, NEW hooks \in Hooks,
         NEW pending \in SUBSET Requests, NEW last \in LastSeen(pending)
  PROVE  /\ LET d == Unrooted(app, fs, hooks, last) IN d \in [DOMAIN d -> Seen] /\ IsShown(d)
         /\ IsShown(Compose(app, fs, hooks, last))
         /\ Attentive(Compose(app, fs, hooks, last), pending)
<1> DEFINE d == Unrooted(app, fs, hooks, last)
           h == assignThreadHierarchy(d)
<1>1. applyHooks(mergeThreads(app, fs), hooks) \in Sources
  BY MergeSource, HooksSource
<1>2. d \in [DOMAIN d -> Seen] /\ IsShown(d) /\ Attentive(d, pending)
  BY <1>1, DecorateShows DEF Unrooted
<1>3. Compose(app, fs, hooks, last) = h
  BY DEF Compose, Unrooted
<1> HIDE DEF d
<1>4. /\ DOMAIN h = DOMAIN d
      /\ \A t \in DOMAIN d : /\ h[t].state = d[t].state /\ h[t].request = d[t].request
                             /\ h[t].parent = d[t].parent
  BY <1>2, HierarchyKeeps
<1> HIDE DEF h
<1>5. IsShown(h)
  BY <1>2, <1>4 DEF IsShown
<1>6. Attentive(h, pending)
  BY <1>2, <1>4 DEF Attentive
<1> QED
  BY <1>2, <1>3, <1>5, <1>6 DEF d

-----------------------------------------------------------------------------
(* Every step leaves what is published alone or ends in one rebuild.       *)
Calm == UNCHANGED <<pendingRequests, published>>
Rebuilt(app, fs, hooks, pending, live) ==
  /\ app \in Sources /\ fs \in Sources /\ hooks \in Hooks /\ pending \subseteq asked
  /\ Rebuild(app, fs, hooks, pending, live)

LEMMA RebuildTypes ==
  ASSUME NEW app, NEW fs, NEW hooks, NEW pending, NEW live \in BOOLEAN,
         Rebuilt(app, fs, hooks, pending, live), asked \subseteq Requests, PublishedTypes
  PROVE  /\ appThreads' \in Sources /\ fsThreads' \in Sources /\ hookSessions' \in Hooks
         /\ pendingRequests' = pending /\ eventsReady' = TRUE /\ lastThreads' = threads'
         /\ Attentive(threads', pendingRequests')
         /\ PublishedTypes'
<1> USE DEF Rebuilt, Rebuild
<1>1. /\ appThreads' \in Sources /\ fsThreads' \in Sources
      /\ pendingRequests' = pending /\ pending \in SUBSET Requests
      /\ eventsReady' = TRUE /\ lastThreads' = threads'
  OBVIOUS
<1>2. hookSessions' \in Hooks
  <2> DEFINE D == {t \in DOMAIN hooks : ~hooks[t].old}
  <2>1. hookSessions' = Restrict(hooks, D)
    OBVIOUS
  <2>2. /\ DOMAIN hooks \subseteq Threads /\ \A t \in DOMAIN hooks : hooks[t] \in Hooked
    BY PartialHas DEF Hooks
  <2>3. D \in SUBSET Threads /\ D \subseteq DOMAIN hooks
    BY <2>2
  <2> HIDE DEF D
  <2>4. hookSessions' \in [D -> Hooked]
    BY <2>1, <2>2, <2>3 DEF Restrict
  <2> QED
    BY <2>3, <2>4, PartialIs DEF Hooks
<1>3. PICK last \in LastSeen(pending) :
        threads' = Compose(appThreads', fsThreads', hookSessions', last)
  OBVIOUS
<1>4. IsShown(threads') /\ Attentive(threads', pendingRequests')
  BY <1>1, <1>2, <1>3, ComposeShows
<1>5. told' \in [Threads -> Told]
  <2>1. PICK announced :
          /\ announced \subseteq DOMAIN threads'
          /\ told' = [t \in Threads |->
               IF t \in announced
               THEN [state |-> threads'[t].state, request |-> threads'[t].request]
               ELSE told[t]]
    <3> DEFINE announced == IF eventsReady \/ live THEN Transitions(Baseline, threads')
                            ELSE DOMAIN threads'
    <3>1. announced \subseteq DOMAIN threads'
      BY DEF Transitions
    <3>2. told' = [t \in Threads |->
             IF t \in announced
             THEN [state |-> threads'[t].state, request |-> threads'[t].request]
             ELSE told[t]]
      OBVIOUS
    <3> HIDE DEF announced
    <3> QED
      BY <3>1, <3>2
  <2>2. \A t \in announced : [state |-> threads'[t].state, request |-> threads'[t].request] \in Told
    BY <1>4, <2>1 DEF IsShown, Told
  <2>3. told \in [Threads -> Told]
    BY DEF PublishedTypes
  <2> QED
    BY <2>1, <2>2, <2>3
<1> QED
  BY <1>1, <1>2, <1>4, <1>5 DEF PublishedTypes

(* Lines as they are put into the inbox and taken from it.                 *)
LEMMA InboxGrows ==
  ASSUME Types, NEW line \in Lines, inbox' = Append(inbox, line),
         line.kind = "request" => line.of \in asked', asked \subseteq asked'
  PROVE  /\ inbox' \in Seq(Lines)
         /\ \A i \in 1..Len(inbox') : inbox'[i].kind = "request" => inbox'[i].of \in asked'
<1>1. inbox \in Seq(Lines)
  BY DEF Types, SourceTypes
<1>2. /\ inbox' \in Seq(Lines) /\ Len(inbox') = Len(inbox) + 1
      /\ \A i \in 1..Len(inbox) : inbox'[i] = inbox[i]
      /\ inbox'[Len(inbox) + 1] = line
  BY <1>1
<1>3. ASSUME NEW i \in 1..Len(inbox'), inbox'[i].kind = "request"
      PROVE  inbox'[i].of \in asked'
  <2>1. CASE i = Len(inbox) + 1
    BY <1>2, <1>3, <2>1
  <2>2. CASE i # Len(inbox) + 1
    <3>1. i \in 1..Len(inbox)
      BY <1>1, <1>2, <2>2
    <3>2. inbox[i].of \in asked
      BY <1>2, <1>3, <3>1 DEF Types, RequestTypes
    <3> QED
      BY <1>2, <3>1, <3>2
  <2> QED
    BY <2>1, <2>2
<1> QED
  BY <1>2, <1>3

LEMMA InboxShrinks ==
  ASSUME Types, inbox # <<>>, inbox' = Tail(inbox), asked' = asked
  PROVE  /\ Head(inbox) \in Lines
         /\ Head(inbox).kind = "request" => Head(inbox).of \in asked
         /\ inbox' \in Seq(Lines)
         /\ \A i \in 1..Len(inbox') : inbox'[i].kind = "request" => inbox'[i].of \in asked'
<1>1. inbox \in Seq(Lines)
  BY DEF Types, SourceTypes
<1>2. /\ inbox' \in Seq(Lines) /\ Len(inbox') = Len(inbox) - 1 /\ Len(inbox) \in Nat \ {0}
      /\ \A i \in 1..Len(inbox') : inbox'[i] = inbox[i + 1] /\ i + 1 \in 1..Len(inbox)
      /\ Head(inbox) = inbox[1] /\ 1 \in 1..Len(inbox) /\ Head(inbox) \in Lines
  BY <1>1
<1> QED
  BY <1>2 DEF Types, RequestTypes

(* The kinds of lines have their own fields.                               *)
LEMMA LineOf ==
  ASSUME NEW l \in Lines
  PROVE  /\ l.kind = "list" => l.of \in Sources
         /\ l.kind \in {"status", "turn"} => l.thread \in Threads
         /\ l.kind = "turn" => l.status \in TurnStatuses
BY DEF Lines

-----------------------------------------------------------------------------
(* What holds of the outside and of the lines after a step, and what the   *)
(* step did to what is published.                                          *)
Kept ==
  /\ OutsideTypes' /\ refresh' \in Refreshes /\ inbox' \in Seq(Lines)
  /\ \A i \in 1..Len(inbox') : inbox'[i].kind = "request" => inbox'[i].of \in asked'
  /\ asked' \subseteq Requests /\ IsFiniteSet(asked') /\ settled' \subseteq asked'
  /\ former' \subseteq asked' /\ asked \subseteq asked'
Stepped ==
  \/ Calm /\ UNCHANGED <<appThreads, fsThreads>> /\ hookSessions' \in Hooks
  \/ \E app, fs, hooks, pending : \E live \in BOOLEAN : Rebuilt(app, fs, hooks, pending, live)

LEMMA KeptByStill ==
  ASSUME Types, UNCHANGED outside, refresh' \in Refreshes, inbox' = inbox
  PROVE  Kept
BY DEF Types, SourceTypes, RequestTypes, OutsideTypes, outside, Kept

LEMMA KeptByTail ==
  ASSUME Types, UNCHANGED outside, refresh' \in Refreshes, inbox # <<>>, inbox' = Tail(inbox)
  PROVE  Kept
BY InboxShrinks DEF Types, SourceTypes, RequestTypes, OutsideTypes, outside, Kept

LEMMA SteppedCalmly ==
  ASSUME Types, UNCHANGED <<sources, published>>
  PROVE  Stepped
BY DEF Types, SourceTypes, Stepped, Calm, sources, published

LEMMA SteppedBy ==
  ASSUME Types, NEW app \in Sources, NEW fs \in Sources, NEW hooks \in Hooks, NEW pending,
         pending \subseteq asked, NEW live \in BOOLEAN, Rebuild(app, fs, hooks, pending, live)
  PROVE  Stepped
BY DEF Stepped, Rebuilt

(* The agent.                                                              *)
LEMMA AgentSteps ==
  ASSUME Types,
         \/ collectFilesystem \/ setConnection \/ BeginRefresh \/ FinishRefresh
         \/ \E p \in pendingRequests : finishPending(p)
         \/ \E of \in interrupting : Interrupt(of)
  PROVE  Kept /\ Stepped
<1>0. /\ appThreads \in Sources /\ fsThreads \in Sources /\ hookSessions \in Hooks
      /\ pendingRequests \subseteq asked /\ refresh \in Refreshes
  BY DEF Types, SourceTypes, RequestTypes
<1>1. CASE collectFilesystem
  <2>1. Collected \in Sources
    <3>1. DOMAIN files \in SUBSET Threads
      BY DEF Types, OutsideTypes
    <3>2. \A t \in DOMAIN files : /\ Collected[t] \in Seen /\ Collected[t].request = 0
                                  /\ Collected[t].parent \in {None, Parent[t]}
      BY <3>1, SeenIs, StatesMapped DEF Collected
    <3>3. Collected \in [DOMAIN files -> Seen]
      <4>1. Collected = [t \in DOMAIN files |-> Collected[t]]
        BY DEF Collected
      <4> QED
        BY <3>2, <4>1
    <3> QED
      BY <3>1, <3>2, <3>3, SourceIs
  <2> QED
    BY <1>0, <1>1, <2>1, KeptByStill, SteppedBy DEF collectFilesystem
<1>2. CASE setConnection
  BY <1>0, <1>2, KeptByStill, SteppedBy DEF setConnection
<1>3. CASE BeginRefresh
  <2> DEFINE list == [t \in DOMAIN served |->
                        [NoThread EXCEPT !.state = mapAppServerState(served[t]),
                                         !.parent = Parent[t]]]
             line == [kind |-> "list", of |-> list]
  <2>1. list \in Sources
    <3>1. DOMAIN served \in SUBSET Threads
      BY PartialHas DEF Types, OutsideTypes
    <3>2. \A t \in DOMAIN served : /\ list[t] \in Seen /\ list[t].request = 0
                                   /\ list[t].parent \in {None, Parent[t]}
      BY <3>1, SeenIs, StatesMapped
    <3>3. list \in [DOMAIN served -> Seen]
      <4>1. list = [t \in DOMAIN served |-> list[t]]
        OBVIOUS
      <4> HIDE DEF list
      <4> QED
        BY <3>2, <4>1
    <3> HIDE DEF list
    <3> QED
      BY <3>1, <3>2, <3>3, SourceIs
  <2>2. inbox' = Append(inbox, line) /\ UNCHANGED outside /\ refresh' = [at |-> "listing"]
        /\ UNCHANGED <<sources, published>>
    BY <1>3 DEF BeginRefresh
  <2> HIDE DEF list
  <2>3. line \in Lines /\ line.kind # "request"
    BY <2>1 DEF Lines
  <2>4. refresh' \in Refreshes
    BY <2>2 DEF Refreshes
  <2>5. UNCHANGED <<asked, settled>>
    BY <2>2 DEF outside
  <2> HIDE DEF line
  <2>6. Kept
    BY <2>2, <2>3, <2>4, <2>5, InboxGrows
       DEF Kept, Types, OutsideTypes, RequestTypes, outside
  <2> QED
    BY <2>2, <2>6, SteppedCalmly
<1>4. CASE FinishRefresh
  <2>1. refresh.of \in Sources /\ refresh' \in Refreshes
    BY <1>0, <1>4 DEF FinishRefresh, Refreshes
  <2> QED
    BY <1>0, <1>4, <2>1, KeptByStill, SteppedBy DEF FinishRefresh
<1>5. ASSUME NEW p \in pendingRequests, finishPending(p) PROVE Kept /\ Stepped
  BY <1>0, <1>5, KeptByStill, SteppedBy DEF finishPending
<1>6. ASSUME NEW of \in interrupting, Interrupt(of) PROVE Kept /\ Stepped
  <2> DEFINE t == of.thread
             thread == [appThreads[t] EXCEPT !.state = "IDLE", !.turnStatus = "interrupted"]
             app == IF t \notin DOMAIN appThreads THEN appThreads
                    ELSE With(appThreads, t, thread)
  <2>1. app \in Sources
    <3>1. CASE t \notin DOMAIN appThreads
      BY <1>0, <3>1
    <3>2. CASE t \in DOMAIN appThreads
      <4>1. /\ t \in Threads /\ appThreads[t] \in Seen /\ appThreads[t].request = 0
            /\ appThreads[t].parent \in {None, Parent[t]}
        BY <1>0, <3>2, SourceHas
      <4>2. PICK r : r \in Seen /\ r = appThreads[t]
        BY <4>1
      <4>3. thread = [r EXCEPT !.state = "IDLE", !.turnStatus = "interrupted"]
        BY <4>2
      <4>4. "IDLE" \in States /\ "interrupted" \in TurnStatuses
        BY StatesMapped DEF TurnStatuses
      <4> HIDE DEF thread
      <4>5. thread \in Seen /\ thread.request = r.request /\ thread.parent = r.parent
        BY <4>2, <4>3, <4>4 DEF Seen
      <4> QED
        BY <1>0, <3>2, <4>1, <4>2, <4>5, WithSource
    <3> QED
      BY <3>1, <3>2
  <2>2. Rebuild(app, fsThreads, hookSessions,
                {p \in pendingRequests : p.thread # of.thread \/ p.turn # of.turn}, FALSE)
        /\ UNCHANGED <<refresh, outside, inbox>>
    BY <1>6 DEF Interrupt
  <2> HIDE DEF app
  <2> QED
    BY <1>0, <2>1, <2>2, KeptByStill, SteppedBy
<1> QED
  BY <1>1, <1>2, <1>3, <1>4, <1>5, <1>6

(* The lines of the app-server.                                            *)
LEMMA LineSteps == ASSUME Types, HandleLine PROVE Kept /\ Stepped
<1>0. /\ appThreads \in Sources /\ fsThreads \in Sources /\ hookSessions \in Hooks
      /\ pendingRequests \subseteq asked /\ refresh \in Refreshes
  BY DEF Types, SourceTypes, RequestTypes
<1> DEFINE line == Head(inbox)
<1>1. inbox # <<>> /\ inbox' = Tail(inbox) /\ UNCHANGED outside
  BY DEF HandleLine, HandleList, HandleStatusChanged, HandleTurn, recordServerRequest,
         HandleResolved, HandleUnclaimed
<1>2. line \in Lines /\ (line.kind = "request" => line.of \in asked)
  BY <1>1, InboxShrinks DEF outside
<1>3. CASE HandleList
  <2>1. /\ refresh' = [at |-> "holding", of |-> line.of] /\ line.kind = "list"
        /\ UNCHANGED <<sources, published>>
    BY <1>3 DEF HandleList
  <2> HIDE DEF line
  <2>2. refresh' \in Refreshes
    BY <1>2, <2>1, LineOf DEF Refreshes
  <2> QED
    BY <1>1, <2>1, <2>2, KeptByTail, SteppedCalmly
<1>4. CASE HandleStatusChanged
  <2> DEFINE t == line.thread
             thread == [appThreads[t] EXCEPT !.state = mapAppServerState(line.status)]
             app == IF t \notin DOMAIN appThreads THEN appThreads
                    ELSE With(appThreads, t, thread)
  <2>1. app \in Sources
    <3>1. CASE t \notin DOMAIN appThreads
      BY <1>0, <3>1
    <3>2. CASE t \in DOMAIN appThreads
      <4>1. /\ t \in Threads /\ appThreads[t] \in Seen /\ appThreads[t].request = 0
            /\ appThreads[t].parent \in {None, Parent[t]}
        BY <1>0, <3>2, SourceHas
      <4>2. /\ thread \in Seen /\ thread.request = appThreads[t].request
            /\ thread.parent = appThreads[t].parent
        BY <4>1, StateChange, StatesMapped
      <4> HIDE DEF thread
      <4> QED
        BY <1>0, <3>2, <4>1, <4>2, WithSource
    <3> QED
      BY <3>1, <3>2
  <2>2. Rebuild(app, fsThreads, hookSessions, pendingRequests, TRUE) /\ refresh' = refresh
    BY <1>4 DEF HandleStatusChanged
  <2> HIDE DEF app
  <2> QED
    BY <1>0, <1>1, <2>1, <2>2, KeptByTail, SteppedBy
<1>5. CASE HandleTurn
  <2> DEFINE t == line.thread
             state == CASE line.status = "inProgress" -> "RUNNING"
                        [] line.status = "failed" -> "ERROR"
                        [] OTHER -> "IDLE"
             thread == [Of(appThreads, t) EXCEPT !.turnStatus = line.status, !.state = state]
             app == With(appThreads, t, thread)
  <2>1. line.kind = "turn" /\ refresh' = refresh
        /\ Rebuild(app, fsThreads, hookSessions, pendingRequests, TRUE)
    BY <1>5 DEF HandleTurn
  <2>2. state \in States
    BY StatesMapped
  <2>3. t \in Threads /\ line.status \in TurnStatuses
    BY <1>2, <2>1, LineOf
  <2>4. app \in Sources
    <3> HIDE DEF state
    <3>1. /\ Of(appThreads, t) \in Seen /\ Of(appThreads, t).request = 0
          /\ Of(appThreads, t).parent \in {None, Parent[t]}
      BY <1>0, <2>3, OfSource
    <3>2. /\ thread \in Seen /\ thread.request = Of(appThreads, t).request
          /\ thread.parent = Of(appThreads, t).parent
      BY <2>2, <2>3, <3>1, TurnChange
    <3> HIDE DEF thread
    <3> QED
      BY <1>0, <2>3, <3>1, <3>2, WithSource
  <2> HIDE DEF app
  <2> QED
    BY <1>0, <1>1, <2>1, <2>4, KeptByTail, SteppedBy
<1>6. CASE recordServerRequest
  <2>1. /\ line.kind = "request" /\ refresh' = refresh
        /\ Rebuild(appThreads, fsThreads, hookSessions, pendingRequests \cup {line.of}, TRUE)
    BY <1>6 DEF recordServerRequest
  <2>2. pendingRequests \cup {line.of} \subseteq asked
    BY <1>0, <1>2, <2>1
  <2> QED
    BY <1>0, <1>1, <2>1, <2>2, KeptByTail, SteppedBy
<1>7. CASE HandleResolved
  <2>1. /\ refresh' = refresh
        /\ Rebuild(appThreads, fsThreads, hookSessions,
                   {p \in pendingRequests : p.id # line.id}, FALSE)
    BY <1>7 DEF HandleResolved
  <2> QED
    BY <1>0, <1>1, <2>1, KeptByTail, SteppedBy
<1>8. CASE HandleUnclaimed
  BY <1>0, <1>1, <1>8, KeptByTail, SteppedCalmly DEF HandleUnclaimed
<1> QED
  BY <1>3, <1>4, <1>5, <1>6, <1>7, <1>8 DEF HandleLine

(* A bounded change of the outside.                                        *)
LEMMA OneMoreChange ==
  ASSUME Types, changes < MaxChanges, changes' = changes + 1
  PROVE  /\ changes' \in 0..MaxChanges
         /\ turns \in [Threads -> 0..changes'] /\ turns \in [Threads -> 0..MaxChanges]
         /\ \A t \in Threads : [turns EXCEPT ![t] = @ + 1] \in [Threads -> 0..changes']
<1>1. changes \in 0..MaxChanges /\ turns \in [Threads -> 0..changes] /\ MaxChanges \in Nat
  BY MonitorAssumption DEF Types, OutsideTypes
<1>2. /\ changes' \in 0..MaxChanges /\ 0..changes \subseteq 0..changes'
      /\ 0..changes \subseteq 0..MaxChanges
  BY <1>1
<1>3. \A n \in 0..changes : n + 1 \in 0..changes'
  BY <1>1
<1>4. ASSUME NEW t \in Threads PROVE [turns EXCEPT ![t] = @ + 1] \in [Threads -> 0..changes']
  <2>1. turns[t] + 1 \in 0..changes'
    BY <1>1, <1>3
  <2>2. turns \in [Threads -> 0..changes']
    BY <1>1, <1>2
  <2> QED
    BY <2>1, <2>2
<1> QED
  BY <1>1, <1>2, <1>4

(* The end of a connection leaves lines that are replies to nobody or what *)
(* they were.                                                              *)
LEMMA ClearSteps == ASSUME Types, clearClient PROVE Kept /\ Stepped
<1>0. /\ appThreads \in Sources /\ fsThreads \in Sources /\ hookSessions \in Hooks
      /\ pendingRequests \subseteq asked /\ asked \subseteq Requests /\ IsFiniteSet(asked)
      /\ settled \subseteq asked /\ inbox \in Seq(Lines)
      /\ served \in Partial(Threads, Statuses) /\ DOMAIN files \subseteq Threads
  BY DEF Types, SourceTypes, RequestTypes, OutsideTypes
<1>1. /\ changes < MaxChanges /\ changes' = changes + 1
      /\ Rebuild(appThreads, fsThreads, hookSessions, pendingRequests \cap former, FALSE)
      /\ former' = asked /\ refresh' = [at |-> "idle"]
      /\ served' = [t \in DOMAIN served |-> "notLoaded"]
      /\ UNCHANGED <<interrupting, turns, files, asked, settled>>
  BY DEF clearClient
<1>2. PICK n \in 0..Len(inbox) : inbox' = Leftover(n)
  BY DEF clearClient
<1>3. /\ n \in Nat /\ inbox' = [i \in 1..n |-> inbox'[i]]
      /\ \A i \in 1..n : /\ i \in 1..Len(inbox) /\ inbox[i] \in Lines
                         /\ inbox'[i] = IF inbox[i].kind = "list"
                                         THEN [kind |-> "unclaimed"] ELSE inbox[i]
  BY <1>0, <1>2 DEF Leftover
<1>4. \A i \in 1..n : /\ inbox'[i] \in Lines
                      /\ inbox'[i].kind = "request" => inbox'[i] = inbox[i]
  <2>1. [kind |-> "unclaimed"] \in Lines /\ [kind |-> "unclaimed"].kind # "request"
    BY DEF Lines
  <2> QED
    BY <1>3, <2>1
<1>5. inbox' \in Seq(Lines) /\ Len(inbox') = n
  <2>1. inbox' \in [1..n -> Lines]
    BY <1>3, <1>4
  <2> HIDE DEF Lines
  <2> QED
    BY <1>3, <2>1
<1>6. \A i \in 1..Len(inbox') : inbox'[i].kind = "request" => inbox'[i].of \in asked'
  BY <1>1, <1>3, <1>4, <1>5 DEF Types, RequestTypes
<1>7. served' \in Partial(Threads, Statuses)
  <2>1. DOMAIN served \in SUBSET Threads
    BY <1>0, PartialHas
  <2>2. served' \in [DOMAIN served -> Statuses]
    BY <1>1, MonitorAssumption
  <2> QED
    BY <2>1, <2>2, PartialIs
<1>8. refresh' \in Refreshes
  BY <1>1 DEF Refreshes
<1>9. Kept
  BY <1>0, <1>1, <1>5, <1>6, <1>7, <1>8, OneMoreChange DEF Kept, OutsideTypes
<1>10. pendingRequests \cap former \subseteq asked
  BY <1>0
<1> QED
  BY <1>0, <1>1, <1>9, <1>10, SteppedBy

(* The outside: it adds a line or changes a file; a hook speaks or ages.   *)
LEMMA OutsideSteps ==
  ASSUME Types, Outside \/ \E t \in Threads : SendInterrupt(t) \/ \E e \in HookEvents : RecordHook(t, e)
  PROVE  Kept /\ Stepped
<1>0. /\ appThreads \in Sources /\ fsThreads \in Sources /\ hookSessions \in Hooks
      /\ pendingRequests \subseteq asked /\ refresh \in Refreshes
      /\ asked \subseteq Requests /\ IsFiniteSet(asked) /\ settled \subseteq asked
      /\ former \subseteq asked /\ served \in Partial(Threads, Statuses) /\ DOMAIN files \subseteq Threads
  BY DEF Types, SourceTypes, RequestTypes, OutsideTypes
<1>1. "active" \in Statuses /\ "idle" \in Statuses
  BY MonitorAssumption
<1>2. ASSUME NEW t \in Threads, t \in DOMAIN served,
             served' = [served EXCEPT ![t] = "idle"]
      PROVE  served' \in Partial(Threads, Statuses)
  <2>1. DOMAIN served \in SUBSET Threads /\ served \in [DOMAIN served -> Statuses]
    BY <1>0, PartialHas
  <2>2. served' \in [DOMAIN served -> Statuses]
    BY <1>1, <1>2, <2>1
  <2> QED
    BY <2>1, <2>2, PartialIs
<1>3. ASSUME NEW line \in Lines, line.kind # "request", inbox' = Append(inbox, line),
             UNCHANGED <<sources, published, refresh, files, asked, settled, former>>,
             changes' \in 0..MaxChanges, turns' \in [Threads -> 0..changes'],
             served' \in Partial(Threads, Statuses)
      PROVE  Kept /\ Stepped
  BY <1>0, <1>3, InboxGrows, SteppedCalmly DEF Kept, OutsideTypes, sources, published
<1>4. ASSUME NEW t \in Threads, NEW status \in TurnStatuses
      PROVE  [kind |-> "turn", thread |-> t, status |-> status] \in Lines
  BY DEF Lines
<1>5. ASSUME NEW t \in Threads, NEW status \in Statuses, StatusChanges(t, status)
      PROVE  Kept /\ Stepped
  <2> DEFINE line == [kind |-> "status", thread |-> t, status |-> status]
  <2>1. /\ changes < MaxChanges /\ changes' = changes + 1 /\ served' = With(served, t, status)
        /\ inbox' = Append(inbox, line) /\ turns' = turns
        /\ UNCHANGED <<sources, published, refresh, files, asked, settled, former>>
    BY <1>5 DEF StatusChanges
  <2>2. line \in Lines /\ line.kind # "request"
    BY DEF Lines
  <2>3. served' \in Partial(Threads, Statuses)
    BY <1>0, <2>1, WithPartial
  <2> HIDE DEF line
  <2> QED
    BY <1>3, <2>1, <2>2, <2>3, OneMoreChange
<1>6. ASSUME NEW t \in Threads, TurnStarts(t) PROVE Kept /\ Stepped
  <2> DEFINE line == [kind |-> "turn", thread |-> t, status |-> "inProgress"]
  <2>1. /\ changes < MaxChanges /\ changes' = changes + 1 /\ served' = With(served, t, "active")
        /\ inbox' = Append(inbox, line) /\ turns' = [turns EXCEPT ![t] = @ + 1]
        /\ UNCHANGED <<sources, published, refresh, files, asked, settled, former>>
    BY <1>6 DEF TurnStarts
  <2>2. line \in Lines /\ line.kind # "request"
    BY <1>4 DEF TurnStatuses
  <2>3. served' \in Partial(Threads, Statuses)
    BY <1>0, <1>1, <2>1, WithPartial
  <2> HIDE DEF line
  <2> QED
    BY <1>3, <2>1, <2>2, <2>3, OneMoreChange
<1>7. ASSUME NEW t \in Threads, NEW status \in {"completed", "failed", "interrupted"},
             TurnEnds(t, status) \/ (status = "interrupted" /\ SendInterrupt(t))
      PROVE  Kept /\ Stepped
  <2> DEFINE line == [kind |-> "turn", thread |-> t, status |-> status]
  <2>1. /\ changes < MaxChanges /\ changes' = changes + 1
        /\ t \in DOMAIN served /\ served' = [served EXCEPT ![t] = "idle"]
        /\ inbox' = Append(inbox, line) /\ turns' = turns
        /\ UNCHANGED <<sources, published, refresh, files, asked, settled, former>>
    BY <1>7 DEF TurnEnds, SendInterrupt
  <2>2. line \in Lines /\ line.kind # "request"
    BY <1>4 DEF TurnStatuses
  <2>3. served' \in Partial(Threads, Statuses)
    BY <1>2, <2>1
  <2> HIDE DEF line
  <2> QED
    BY <1>3, <2>1, <2>2, <2>3, OneMoreChange
<1>8. ASSUME NEW t \in Threads, NEW type \in {"approval", "input"}, ServerAsks(t, type)
      PROVE  Kept /\ Stepped
  <2> DEFINE r == [id |-> Cardinality(asked) + 1, thread |-> t, turn |-> turns[t],
                   type |-> type]
             line == [kind |-> "request", of |-> r]
  <2>1. /\ changes < MaxChanges /\ changes' = changes + 1
        /\ Cardinality(asked) < MaxRequests /\ asked' = asked \cup {r}
        /\ inbox' = Append(inbox, line) /\ turns' = turns
        /\ UNCHANGED <<sources, published, refresh, served, files, settled, former>>
    BY <1>8 DEF ServerAsks
  <2>2. r \in Requests
    <3>1. Cardinality(asked) + 1 \in 1..MaxRequests
      <4>1. Cardinality(asked) \in Nat
        BY <1>0, FS_CardinalityType
      <4> QED
        BY <2>1, <4>1, MonitorAssumption
    <3>2. turns[t] \in 0..MaxChanges
      BY <2>1, OneMoreChange
    <3> QED
      BY <3>1, <3>2 DEF Requests
  <2>3. line.kind = "request" /\ line.of = r
    OBVIOUS
  <2>4. line \in Lines
    BY <2>2 DEF Lines
  <2> HIDE DEF line, r
  <2>5. IsFiniteSet(asked')
    BY <1>0, <2>1, FS_AddElement
  <2> QED
    BY <1>0, <2>1, <2>2, <2>3, <2>4, <2>5, InboxGrows, OneMoreChange, SteppedCalmly
       DEF Kept, OutsideTypes, sources, published
<1>9. ASSUME NEW r \in asked, ServerSettles(r) PROVE Kept /\ Stepped
  <2> DEFINE line == [kind |-> "resolved", id |-> r.id]
  <2>1. /\ settled' = settled \cup {r} /\ inbox' = Append(inbox, line)
        /\ UNCHANGED <<sources, published, refresh, served, turns, files, asked, former, changes>>
    BY <1>9 DEF ServerSettles
  <2>2. line \in Lines /\ line.kind # "request"
    BY <1>0 DEF Lines, Requests
  <2> HIDE DEF line
  <2>3. changes \in 0..MaxChanges /\ turns \in [Threads -> 0..changes]
    BY DEF Types, OutsideTypes
  <2> QED
    BY <1>0, <2>1, <2>2, <2>3, InboxGrows, SteppedCalmly
       DEF Kept, OutsideTypes, sources, published
<1>10. ASSUME NEW t \in Threads, NEW tail, FileChanges(t, tail) PROVE Kept /\ Stepped
  <2>1. /\ changes < MaxChanges /\ changes' = changes + 1 /\ files' = With(files, t, tail)
        /\ UNCHANGED <<sources, published, refresh, served, turns, asked, settled, former, inbox>>
    BY <1>10 DEF FileChanges
  <2>2. DOMAIN files' \subseteq Threads
    BY <1>0, <2>1 DEF With
  <2>3. /\ inbox \in Seq(Lines)
        /\ \A i \in 1..Len(inbox) : inbox[i].kind = "request" => inbox[i].of \in asked
    BY DEF Types, SourceTypes, RequestTypes
  <2> QED
    BY <1>0, <2>1, <2>2, <2>3, OneMoreChange, SteppedCalmly
       DEF Kept, OutsideTypes, sources, published
<1>11. ASSUME NEW t \in Threads, HookAges(t) PROVE Kept /\ Stepped
  <2>1. /\ t \in DOMAIN hookSessions
        /\ hookSessions' = With(hookSessions, t, [hookSessions[t] EXCEPT !.old = TRUE])
        /\ UNCHANGED <<appThreads, fsThreads, pendingRequests, published, refresh, outside, inbox>>
    BY <1>11 DEF HookAges
  <2>2. hookSessions[t] \in Hooked
    BY <1>0, <2>1, PartialHas DEF Hooks
  <2>3. [hookSessions[t] EXCEPT !.old = TRUE] \in Hooked
    BY <2>2 DEF Hooked
  <2>4. hookSessions' \in Hooks
    BY <1>0, <2>1, <2>3, WithPartial DEF Hooks
  <2> QED
    BY <1>0, <2>1, <2>4, KeptByStill DEF Stepped, Calm
<1>12. ASSUME NEW t \in Threads, NEW e, RecordHook(t, e) PROVE Kept /\ Stepped
  <2> DEFINE state == mapHookEvent(e)
             said == [state |-> state, old |-> FALSE]
             hooks == IF state = "UNKNOWN" THEN hookSessions ELSE With(hookSessions, t, said)
  <2>1. /\ changes < MaxChanges /\ changes' = changes + 1
        /\ Rebuild(appThreads, fsThreads, hooks, pendingRequests, TRUE)
        /\ UNCHANGED <<refresh, served, turns, files, asked, settled, former, inbox>>
    BY <1>12 DEF RecordHook
  <2>2. said \in Hooked
    BY StatesMapped DEF Hooked
  <2> HIDE DEF said
  <2>3. hooks \in Hooks
    BY <1>0, <2>2, WithPartial DEF Hooks
  <2> HIDE DEF hooks
  <2>4. /\ inbox \in Seq(Lines)
        /\ \A i \in 1..Len(inbox) : inbox[i].kind = "request" => inbox[i].of \in asked
    BY DEF Types, SourceTypes, RequestTypes
  <2>5. Kept
    BY <1>0, <2>1, <2>4, OneMoreChange DEF Kept, OutsideTypes
  <2> QED
    BY <1>0, <2>1, <2>3, <2>5, SteppedBy
<1> QED
  BY <1>5, <1>6, <1>7, <1>8, <1>9, <1>10, <1>11, <1>12 DEF Outside

LEMMA StepShape == Types /\ [Next]_vars => Kept /\ Stepped
<1> SUFFICES ASSUME Types, [Next]_vars PROVE Kept /\ Stepped
  OBVIOUS
<1>1. CASE UNCHANGED vars
  BY <1>1, KeptByStill, SteppedCalmly DEF vars, Types, SourceTypes
<1>2. CASE Next
  BY <1>2, AgentSteps, LineSteps, ClearSteps, OutsideSteps DEF Next
<1> QED
  BY <1>1, <1>2

LEMMA NextTypes == Types /\ [Next]_vars => Types'
<1> SUFFICES ASSUME Types, Kept, Stepped PROVE Types'
  BY StepShape
<1>1. CASE Calm /\ UNCHANGED <<appThreads, fsThreads>> /\ hookSessions' \in Hooks
  BY <1>1 DEF Calm, published, Kept, Types, SourceTypes, RequestTypes, PublishedTypes, IsShown
<1>2. ASSUME NEW app, NEW fs, NEW hooks, NEW pending, NEW live \in BOOLEAN,
             Rebuilt(app, fs, hooks, pending, live)
      PROVE  Types'
  <2>1. /\ appThreads' \in Sources /\ fsThreads' \in Sources /\ hookSessions' \in Hooks
        /\ pendingRequests' = pending /\ PublishedTypes'
    BY <1>2, RebuildTypes DEF Types, RequestTypes
  <2>2. pendingRequests' \subseteq asked'
    BY <1>2, <2>1 DEF Rebuilt, Kept
  <2> QED
    BY <2>1, <2>2 DEF Kept, Types, SourceTypes, RequestTypes
<1> QED
  BY <1>1, <1>2 DEF Stepped

LEMMA InitTypes == Init => Types
<1> SUFFICES ASSUME Init PROVE Types
  OBVIOUS
<1>1. SourceTypes
  BY NothingIs DEF Init, SourceTypes, Refreshes
<1>2. RequestTypes
  BY FS_EmptySet DEF Init, RequestTypes
<1>3. OutsideTypes
  <2>1. served \in Partial(Threads, Statuses)
    <3>1. DOMAIN served \in SUBSET Threads /\ served \in [DOMAIN served -> {"active"}]
      BY PartialHas DEF Init
    <3>2. served \in [DOMAIN served -> Statuses]
      BY <3>1, MonitorAssumption
    <3> QED
      BY <3>1, <3>2, PartialIs
  <2>2. 0 \in 0..MaxChanges /\ turns \in [Threads -> 0..0]
    BY MonitorAssumption DEF Init
  <2> QED
    BY <2>1, <2>2, NothingIs DEF Init, OutsideTypes
<1>4. PublishedTypes
  <2>1. "UNKNOWN" \in States /\ 0 \in 0..MaxRequests
    BY StatesMapped, MonitorAssumption
  <2> QED
    BY <2>1, NothingIs DEF Init, PublishedTypes, IsShown, Told
<1> QED
  BY <1>1, <1>2, <1>3, <1>4 DEF Types

LEMMA SpecTypes == Spec => []Types
  BY InitTypes, NextTypes, PTL DEF Spec

(* The variables keep their types: no source, list, hook or request brings *)
(* in a thread, a state or a request that the agent does not know how to   *)
(* show, in whatever order they are merged.                                *)
THEOREM TypeCorrect == Spec => []TypeOK
<1>1. Types => TypeOK
  <2> SUFFICES ASSUME Types PROVE TypeOK
    OBVIOUS
  <2>1. IsPartial(appThreads, Threads, Seen) /\ IsPartial(fsThreads, Threads, Seen)
    BY SourceHas DEF Types, SourceTypes, IsPartial
  <2>2. IsPartial(hookSessions, Threads, Hooked) /\ IsPartial(served, Threads, Statuses)
    BY PartialHas DEF Types, SourceTypes, OutsideTypes, Hooks, IsPartial
  <2>3. refresh.at \in {"idle", "listing", "holding"}
    BY DEF Types, SourceTypes, Refreshes
  <2> QED
    BY <2>1, <2>2, <2>3
       DEF Types, RequestTypes, OutsideTypes, PublishedTypes, Told, TypeOK
<1> QED
  BY <1>1, SpecTypes, PTL

-----------------------------------------------------------------------------
(* Attention.  A rebuild shows the pending requests it was given, and no   *)
(* other step changes either side.                                         *)
Summarized == summary = Summarize(threads)

(* The workload is the highest state that tells anything, if there is one. *)
LEMMA HighestTells ==
  ASSUME NEW shown, IsShown(shown)
  PROVE  LET shows == {shown[t].state : t \in DOMAIN shown}
             telling == shows \cap (Active \cup {"ERROR"})
             workload == Summarize(shown).workload
         IN  /\ telling = {} => workload = "UNKNOWN"
             /\ telling # {} => /\ workload \in telling
                               /\ \A s \in telling : Rank[s] <= Rank[workload]
<1> DEFINE Telling == {u \in DOMAIN shown : shown[u].state \in Active \cup {"ERROR"}}
           R(u) == Rank[shown[u].state]
           Highest(b) == \A u \in Telling : R(u) <= R(b)
           best == CHOOSE b \in Telling : Highest(b)
           Below == {6 - R(u) : u \in Telling}
<1>1. \A s \in States : Rank[s] \in 1..6
  BY DEF Rank, States, Active, Waiting
<1>2. \A u \in Telling : R(u) \in 1..6
  BY <1>1 DEF IsShown
<1>3. Telling # {} => \E b \in Telling : Highest(b)
  <2> SUFFICES ASSUME Telling # {} PROVE \E b \in Telling : Highest(b)
    OBVIOUS
  <2>1. Below \subseteq Nat /\ Below # {}
    BY <1>2
  <2>2. PICK k \in Below : \A m \in Below : k <= m
    <3> HIDE DEF Below
    <3> QED
      BY <2>1, LeastNat
  <2>3. PICK b \in Telling : k = 6 - R(b)
    BY <2>2
  <2>4. ASSUME NEW u \in Telling PROVE R(u) <= R(b)
    <3>1. 6 - R(b) <= 6 - R(u) /\ R(b) \in 1..6 /\ R(u) \in 1..6
      BY <1>2, <2>2, <2>3
    <3> HIDE DEF R
    <3> QED
      BY <3>1
  <2> QED
    BY <2>4
<1>4. Telling # {} => best \in Telling /\ Highest(best)
  <2> HIDE DEF Highest
  <2> QED
    BY <1>3
<1>5. Summarize(shown).workload = IF Telling = {} THEN "UNKNOWN" ELSE shown[best].state
  BY DEF Summarize
<1> HIDE DEF best
<1> QED
  BY <1>4, <1>5

(* What that means of each state a thread can show.                        *)
LEMMA PriorityHolds ==
  ASSUME NEW shown, IsShown(shown)
  PROVE  LET shows == {shown[t].state : t \in DOMAIN shown}
             workload == Summarize(shown).workload
         IN  /\ workload \in shows \cup {"UNKNOWN"}
             /\ "WAITING_APPROVAL" \in shows => workload = "WAITING_APPROVAL"
             /\ "WAITING_INPUT" \in shows => workload \in Waiting
             /\ "ERROR" \in shows => workload \in Waiting \cup {"ERROR"}
             /\ "RUNNING" \in shows => workload \in Active \cup {"ERROR"}
<1> DEFINE shows == {shown[t].state : t \in DOMAIN shown}
           telling == shows \cap (Active \cup {"ERROR"})
           workload == Summarize(shown).workload
<1>1. /\ telling = {} => workload = "UNKNOWN"
      /\ telling # {} => /\ workload \in telling
                        /\ \A s \in telling : Rank[s] <= Rank[workload]
  BY HighestTells
<1> HIDE DEF shows, workload
<1>2. \A s, w \in Active \cup {"ERROR"} : Rank[s] <= Rank[w] =>
        /\ s = "WAITING_APPROVAL" => w = "WAITING_APPROVAL"
        /\ s = "WAITING_INPUT" => w \in Waiting
        /\ s = "ERROR" => w \in Waiting \cup {"ERROR"}
  BY DEF Rank, Active, Waiting
<1>3. {"WAITING_APPROVAL", "WAITING_INPUT", "ERROR", "RUNNING"} = Active \cup {"ERROR"}
  BY DEF Active, Waiting
<1>4. ASSUME NEW s \in shows, s \in Active \cup {"ERROR"}
      PROVE  workload \in Active \cup {"ERROR"} /\ Rank[s] <= Rank[workload]
  BY <1>1, <1>4
<1>5. workload \in shows \cup {"UNKNOWN"}
  BY <1>1
<1>6. /\ "WAITING_APPROVAL" \in shows => workload = "WAITING_APPROVAL"
      /\ "WAITING_INPUT" \in shows => workload \in Waiting
      /\ "ERROR" \in shows => workload \in Waiting \cup {"ERROR"}
      /\ "RUNNING" \in shows => workload \in Active \cup {"ERROR"}
  BY <1>2, <1>3, <1>4
<1> QED
  BY <1>5, <1>6 DEF shows, workload

LEMMA NextAttentive ==
  Types /\ Attentive(threads, pendingRequests) /\ Summarized /\ [Next]_vars =>
    (Attentive(threads, pendingRequests) /\ Summarized)'
<1> SUFFICES ASSUME Types, Attentive(threads, pendingRequests), Summarized, Stepped
             PROVE  Attentive(threads, pendingRequests)' /\ Summarized'
  BY StepShape
<1>1. CASE Calm
  BY <1>1 DEF Calm, published, Attentive, Summarized
<1>2. ASSUME NEW app, NEW fs, NEW hooks, NEW pending, NEW live \in BOOLEAN,
             Rebuilt(app, fs, hooks, pending, live)
      PROVE  Attentive(threads, pendingRequests)' /\ Summarized'
  BY <1>2, RebuildTypes DEF Types, RequestTypes, Rebuilt, Rebuild, Summarized
<1> QED
  BY <1>1, <1>2 DEF Stepped

(* Attention stays visible: decoratePendingRequestsLocked runs in every    *)
(* rebuild after hooks and lists have had their say, every handler that    *)
(* removes a request ends in a rebuild, also the end of a connection, and  *)
(* Summarize picks the highest rank of what is shown.                      *)
THEOREM AttentionStaysVisible == Spec => []AttentionVisible
<1> DEFINE Inv == Types /\ Attentive(threads, pendingRequests) /\ Summarized
<1>1. Init => Inv
  <2>1. Init => Attentive(threads, pendingRequests) /\ Summarized
    BY NothingIs DEF Init, Attentive, Summarized
  <2> QED
    BY <2>1, InitTypes
<1>2. Inv /\ [Next]_vars => Inv'
  BY NextTypes, NextAttentive
<1>3. Inv => AttentionVisible
  <2> SUFFICES ASSUME Inv PROVE AttentionVisible
    OBVIOUS
  <2>1. IsShown(threads)
    BY DEF Types, PublishedTypes
  <2> QED
    BY <2>1, PriorityHolds DEF AttentionVisible, Attentive, Summarized
<1> QED
  BY <1>1, <1>2, <1>3, PTL DEF Spec

-----------------------------------------------------------------------------
(* Announcements.  What events are told against is always what was         *)
(* published last.                                                         *)
BaselineIsShown ==
  /\ eventsReady => lastThreads = threads
  /\ ~eventsReady => DOMAIN threads = {}

LEMMA NextAnnounced ==
  Types /\ BaselineIsShown /\ ActivityAnnounced /\ [Next]_vars =>
    (BaselineIsShown /\ ActivityAnnounced)'
<1> SUFFICES ASSUME Types, BaselineIsShown, ActivityAnnounced, Stepped
             PROVE  BaselineIsShown' /\ ActivityAnnounced'
  BY StepShape
<1>1. CASE Calm
  BY <1>1 DEF Calm, published, BaselineIsShown, ActivityAnnounced
<1>2. ASSUME NEW app, NEW fs, NEW hooks, NEW pending, NEW live \in BOOLEAN,
             Rebuilt(app, fs, hooks, pending, live)
      PROVE  BaselineIsShown' /\ ActivityAnnounced'
  <2>1. eventsReady' = TRUE /\ lastThreads' = threads' /\ IsShown(threads')
    BY <1>2, RebuildTypes DEF Types, RequestTypes, PublishedTypes
  <2>2. BaselineIsShown'
    BY <2>1 DEF BaselineIsShown
  <2>3. PICK announced :
          /\ announced = IF eventsReady \/ live THEN Transitions(threads, threads')
                         ELSE DOMAIN threads'
          /\ told' = [t \in Threads |->
               IF t \in announced
               THEN [state |-> threads'[t].state, request |-> threads'[t].request]
               ELSE told[t]]
    <3>1. Baseline = threads
      BY DEF Baseline, BaselineIsShown
    <3> QED
      BY <1>2, <3>1 DEF Rebuilt, Rebuild
  <2>4. ASSUME NEW t \in DOMAIN threads', threads'[t].state \in Active \cup {"ERROR"},
               t \notin announced
        PROVE  told[t] = [state |-> threads'[t].state, request |-> threads'[t].request]
    <3>1. t \notin Transitions(threads, threads')
      BY <2>3, <2>4
    <3>2. transitionEventType(Of(threads, t), threads'[t], t \in DOMAIN threads) # ""
      BY <2>4 DEF transitionEventType, Active, Waiting
    <3>3. /\ t \in DOMAIN threads /\ threads[t].state = threads'[t].state
          /\ threads[t].request = threads'[t].request
      BY <2>4, <3>1, <3>2 DEF Transitions
    <3> QED
      BY <2>4, <3>3 DEF ActivityAnnounced
  <2>5. ActivityAnnounced'
    BY <2>1, <2>3, <2>4 DEF ActivityAnnounced, IsShown
  <2> QED
    BY <2>2, <2>5
<1> QED
  BY <1>1, <1>2 DEF Stepped

(* The events announce all activity: emitTransitionEventsLocked compares   *)
(* with what the last rebuild published, whoever it was for, and an active *)
(* or failed state always stands for an event.                             *)
THEOREM ActivityIsAnnounced == Spec => []ActivityAnnounced
<1> DEFINE Inv == Types /\ BaselineIsShown /\ ActivityAnnounced
<1>1. Init => Inv
  <2>1. Init => BaselineIsShown /\ ActivityAnnounced
    BY NothingIs DEF Init, BaselineIsShown, ActivityAnnounced
  <2> QED
    BY <2>1, InitTypes
<1>2. Inv /\ [Next]_vars => Inv'
  BY NextTypes, NextAnnounced
<1>3. Inv => ActivityAnnounced
  OBVIOUS
<1> QED
  BY <1>1, <1>2, <1>3, PTL DEF Spec

-----------------------------------------------------------------------------
(* Roots.  The climb of RootOf is a function on the naturals: first that   *)
(* it exists, by the least number for which it would not.                  *)
LEMMA Iterate ==
  ASSUME NEW S, NEW a \in S, NEW s \in [S -> S]
  PROVE  \E f \in [Nat -> S] : f[0] = a /\ \A k \in Nat : f[k + 1] = s[f[k]]
<1> DEFINE Path(n, g) == /\ g \in [0..n -> S] /\ g[0] = a
                         /\ \A k \in Nat : k + 1 \in 0..n => g[k + 1] = s[g[k]]
           T == {n \in Nat : \A g : ~Path(n, g)}
<1>1. T = {}
  <2> SUFFICES ASSUME T # {} PROVE FALSE
    OBVIOUS
  <2>1. PICK n \in T : \A m \in T : n <= m
    BY LeastNat
  <2>2. CASE n = 0
    <3>1. Path(0, [k \in 0..0 |-> a])
      OBVIOUS
    <3> QED
      BY <2>1, <2>2, <3>1
  <2>3. CASE n # 0
    <3>1. n \in Nat /\ n - 1 \in Nat /\ n - 1 \notin T
      BY <2>1, <2>3
    <3>2. PICK g : Path(n - 1, g)
      BY <3>1
    <3> DEFINE h == [k \in 0..n |-> IF k = n THEN s[g[n - 1]] ELSE g[k]]
    <3>3. /\ \A k \in 0..n : k = n \/ k \in 0..(n - 1)
          /\ n - 1 \in 0..(n - 1) /\ 0 \in 0..(n - 1) /\ 0 # n /\ 0 \in 0..n
      BY <2>3, <3>1
    <3>4. g[n - 1] \in S /\ s[g[n - 1]] \in S /\ \A k \in 0..(n - 1) : g[k] \in S
      BY <3>2, <3>3
    <3>5. h \in [0..n -> S] /\ h[0] = a
      BY <3>2, <3>3, <3>4
    <3>6. ASSUME NEW k \in Nat, k + 1 \in 0..n PROVE h[k + 1] = s[h[k]]
      <4>1. k \in 0..n /\ k # n /\ k \in 0..(n - 1)
        BY <3>1, <3>6
      <4>2. h[k] = g[k]
        BY <4>1
      <4>3. CASE k + 1 = n
        <5>1. k = n - 1
          BY <3>1, <4>3
        <5> QED
          BY <3>6, <4>2, <4>3, <5>1
      <4>4. CASE k + 1 # n
        <5>1. k + 1 \in 0..(n - 1)
          BY <3>3, <3>6, <4>4
        <5>2. g[k + 1] = s[g[k]]
          BY <3>2, <5>1
        <5> QED
          BY <3>6, <4>2, <4>4, <5>2
      <4> QED
        BY <4>3, <4>4
    <3>7. Path(n, h)
      BY <3>5, <3>6
    <3> QED
      BY <2>1, <3>7
  <2> QED
    BY <2>2, <2>3
<1>2. ASSUME NEW n \in Nat, NEW g, NEW h, Path(n, g), Path(n + 1, h)
      PROVE  g[n] = h[n]
  <2> DEFINE U == {k \in 0..n : g[k] # h[k]}
  <2> SUFFICES ASSUME U # {} PROVE FALSE
    OBVIOUS
  <2>1. PICK k \in U : \A m \in U : k <= m
    <3>1. U \subseteq Nat
      OBVIOUS
    <3> HIDE DEF U
    <3> QED
      BY <3>1, LeastNat
  <2>2. k \in 0..n /\ g[k] # h[k] /\ k # 0
    BY <1>2, <2>1
  <2>3. PICK j \in Nat : k = j + 1 /\ j \in 0..n
    BY <2>2
  <2>4. j \notin U
    BY <2>1, <2>3
  <2>5. g[j] = h[j]
    BY <2>3, <2>4
  <2>6. k \in 0..n /\ k \in 0..(n + 1)
    BY <2>2
  <2>7. g[j + 1] = s[g[j]] /\ h[j + 1] = s[h[j]]
    BY <1>2, <2>3, <2>6
  <2> QED
    BY <2>2, <2>3, <2>5, <2>7
<1> DEFINE path(n) == CHOOSE g : Path(n, g)
           f == [n \in Nat |-> path(n)[n]]
<1>3. ASSUME NEW n \in Nat PROVE Path(n, path(n))
  <2>1. \E g : Path(n, g)
    BY <1>1
  <2> HIDE DEF Path
  <2> QED
    BY <2>1
<1> HIDE DEF path
<1>4. f \in [Nat -> S] /\ f[0] = a
  <2>1. \A n \in Nat : path(n)[n] \in S
    BY <1>3
  <2>2. path(0)[0] = a
    BY <1>3
  <2> QED
    BY <2>1, <2>2
<1>5. ASSUME NEW n \in Nat PROVE f[n + 1] = s[f[n]]
  <2>1. Path(n, path(n)) /\ Path(n + 1, path(n + 1)) /\ n + 1 \in Nat
    BY <1>3
  <2>2. path(n)[n] = path(n + 1)[n]
    BY <1>2, <2>1
  <2>3. path(n + 1)[n + 1] = s[path(n + 1)[n]]
    <3>1. n + 1 \in 0..(n + 1)
      OBVIOUS
    <3> QED
      BY <2>1, <3>1
  <2> QED
    BY <2>1, <2>2, <2>3
<1> HIDE DEF f
<1> QED
  BY <1>4, <1>5

(* A climb over threads as they are shown: where it is, whom it met.       *)
Climbs == [id : {None} \cup Range(Parent), met : SUBSET Threads]
IsSeen(seen) == seen \in [DOMAIN seen -> Seen] /\ IsShown(seen)
IsClimb(seen, t, f) ==
  /\ f \in [Nat -> Climbs]
  /\ f[0] = [id |-> seen[t].parent, met |-> {t}]
  /\ \A k \in Nat : f[k + 1] = StepUp(seen, f[k])

LEMMA ParentIsSomeone ==
  ASSUME NEW seen, IsSeen(seen), NEW t \in DOMAIN seen
  PROVE  t \in Threads /\ seen[t].parent \in {None} \cup Range(Parent)
BY MonitorAssumption DEF IsSeen, IsShown, Range

LEMMA StepClimbs ==
  ASSUME NEW seen, IsSeen(seen), NEW at \in Climbs
  PROVE  StepUp(seen, at) \in Climbs
<1>1. CASE at.id \in at.met \/ at.id \notin DOMAIN seen \/ seen[at.id].parent = None
  BY <1>1 DEF StepUp
<1>2. CASE ~(at.id \in at.met \/ at.id \notin DOMAIN seen \/ seen[at.id].parent = None)
  <2>1. StepUp(seen, at) = [id |-> seen[at.id].parent, met |-> at.met \cup {at.id}]
    BY <1>2 DEF StepUp
  <2>2. at.id \in Threads /\ seen[at.id].parent \in {None} \cup Range(Parent)
    BY <1>2, ParentIsSomeone
  <2>3. at.met \subseteq Threads
    BY DEF Climbs
  <2> QED
    BY <2>1, <2>2, <2>3 DEF Climbs
<1> QED
  BY <1>1, <1>2

LEMMA RootIsClimbed ==
  ASSUME NEW seen, IsSeen(seen), NEW t \in DOMAIN seen
  PROVE  \E f : IsClimb(seen, t, f) /\ RootOf(seen, t) = f[Cardinality(DOMAIN seen)].id
<1> DEFINE a == [id |-> seen[t].parent, met |-> {t}]
           s == [at \in Climbs |-> StepUp(seen, at)]
           Defines(f) == f = [k \in Nat |-> IF k = 0 THEN a ELSE StepUp(seen, f[k - 1])]
           climb == CHOOSE f : Defines(f)
<1>1. a \in Climbs
  BY ParentIsSomeone DEF Climbs
<1>2. s \in [Climbs -> Climbs]
  BY StepClimbs
<1>3. PICK f \in [Nat -> Climbs] : f[0] = a /\ \A k \in Nat : f[k + 1] = s[f[k]]
  <2>1. \A x \in Climbs, g \in [Climbs -> Climbs] :
          \E f \in [Nat -> Climbs] : f[0] = x /\ \A k \in Nat : f[k + 1] = g[f[k]]
    BY Iterate, Z3
  <2> HIDE DEF a, s
  <2> QED
    BY <1>1, <1>2, <2>1
<1>4. Defines(f)
  <2>1. ASSUME NEW k \in Nat PROVE f[k] = IF k = 0 THEN a ELSE StepUp(seen, f[k - 1])
    <3>1. CASE k = 0
      BY <1>3, <3>1
    <3>2. CASE k # 0
      <4>1. PICK j \in Nat : k = j + 1 /\ j = k - 1
        BY <3>2
      <4>2. f[j] \in Climbs /\ f[j + 1] = s[f[j]]
        BY <1>3
      <4> QED
        BY <3>2, <4>1, <4>2
    <3> QED
      BY <3>1, <3>2
  <2>2. f = [k \in Nat |-> f[k]]
    BY <1>3
  <2> HIDE DEF a, s
  <2> QED
    BY <2>1, <2>2
<1>5. Defines(climb)
  <2> HIDE DEF Defines
  <2> QED
    BY <1>4
<1>6. RootOf(seen, t) = climb[Cardinality(DOMAIN seen)].id
  BY DEF RootOf
<1> HIDE DEF climb
<1>7. climb[0] = a /\ \A k \in Nat : climb[k + 1] = StepUp(seen, climb[k])
  <2>1. climb[0] = a
    BY <1>5
  <2>2. ASSUME NEW k \in Nat PROVE climb[k + 1] = StepUp(seen, climb[k])
    <3>1. k + 1 \in Nat /\ k + 1 # 0 /\ (k + 1) - 1 = k
      OBVIOUS
    <3>2. climb[k + 1] = StepUp(seen, climb[(k + 1) - 1])
      BY <1>5, <3>1
    <3> QED
      BY <3>1, <3>2
  <2> QED
    BY <2>1, <2>2
<1>8. climb \in [Nat -> Climbs]
  <2> DEFINE T == {k \in Nat : climb[k] \notin Climbs}
  <2>1. T = {}
    <3> SUFFICES ASSUME T # {} PROVE FALSE
      OBVIOUS
    <3>1. PICK k \in T : \A m \in T : k <= m
      BY LeastNat
    <3>2. k # 0
      BY <1>1, <1>7, <3>1
    <3>3. PICK j \in Nat : k = j + 1
      BY <3>1, <3>2
    <3>4. climb[j] \in Climbs
      BY <3>1, <3>3
    <3> QED
      BY <1>7, <3>1, <3>3, <3>4, StepClimbs
  <2>2. climb = [k \in Nat |-> climb[k]]
    BY <1>5
  <2> QED
    BY <2>1, <2>2
<1> HIDE DEF Defines
<1> QED
  BY <1>6, <1>7, <1>8 DEF IsClimb

(* The climb has ended when it could have met every thread.                *)
LEMMA ClimbEnds ==
  ASSUME NEW seen, IsSeen(seen), NEW t \in DOMAIN seen, NEW f, IsClimb(seen, t, f)
  PROVE  LET n == Cardinality(DOMAIN seen) IN n \in Nat /\ f[n + 1] = f[n]
<1> DEFINE n == Cardinality(DOMAIN seen)
           Ended(k) == f[k + 1] = f[k]
           Meets(k) == /\ IsFiniteSet(f[k].met) /\ Cardinality(f[k].met) = k + 1
                       /\ f[k].met \subseteq DOMAIN seen
           T == {k \in Nat : ~Ended(k) /\ ~Meets(k)}
<1>1. IsFiniteSet(DOMAIN seen) /\ n \in Nat
  BY MonitorAssumption, FS_Subset, FS_CardinalityType DEF IsSeen, IsShown
<1>2. \A k \in Nat : f[k] \in Climbs /\ f[k + 1] = StepUp(seen, f[k])
  BY DEF IsClimb
<1>3. Meets(0)
  <2>1. f[0].met = {t}
    BY DEF IsClimb
  <2>2. IsFiniteSet({t}) /\ Cardinality({t}) = 1
    BY FS_Singleton
  <2> QED
    BY <2>1, <2>2
<1>4. ASSUME NEW k \in Nat, Ended(k) PROVE Ended(k + 1)
  BY <1>2, <1>4
<1>5. ASSUME NEW k \in Nat, Meets(k), ~Ended(k) PROVE Meets(k + 1)
  <2>1. /\ f[k].id \notin f[k].met /\ f[k].id \in DOMAIN seen
        /\ f[k + 1] = [id |-> seen[f[k].id].parent, met |-> f[k].met \cup {f[k].id}]
    BY <1>2, <1>5 DEF StepUp
  <2>2. f[k + 1].met = f[k].met \cup {f[k].id}
    BY <2>1
  <2>3. /\ IsFiniteSet(f[k + 1].met)
        /\ Cardinality(f[k + 1].met) = Cardinality(f[k].met) + 1
    BY <1>5, <2>1, <2>2, FS_AddElement
  <2> QED
    BY <1>5, <2>1, <2>2, <2>3
<1> HIDE DEF Ended, Meets
<1>6. T = {}
  <2> SUFFICES ASSUME T # {} PROVE FALSE
    OBVIOUS
  <2>1. PICK k \in T : \A m \in T : k <= m
    BY LeastNat
  <2>2. k # 0
    BY <1>3, <2>1
  <2>3. PICK j \in Nat : k = j + 1
    BY <2>1, <2>2
  <2>4. j \notin T
    BY <2>1, <2>3
  <2> QED
    BY <1>4, <1>5, <2>1, <2>3, <2>4
<1>7. ~Meets(n)
  <2> SUFFICES ASSUME Meets(n) PROVE FALSE
    OBVIOUS
  <2>1. Cardinality(f[n].met) <= n
    BY <1>1, FS_Subset DEF Meets
  <2>2. Cardinality(f[n].met) = n + 1
    BY DEF Meets
  <2> QED
    BY <1>1, <2>1, <2>2
<1> QED
  BY <1>1, <1>6, <1>7 DEF Ended

(* A child climbs where its parent does, one step later.                   *)
LEMMA ClimbFollows ==
  ASSUME NEW seen, IsSeen(seen), NEW t \in DOMAIN seen, seen[t].parent \in DOMAIN seen,
         NEW f, IsClimb(seen, t, f), NEW g, IsClimb(seen, seen[t].parent, g),
         seen[seen[t].parent].parent # None
  PROVE  \A k \in Nat : f[k + 1].id = g[k].id
<1> DEFINE p == seen[t].parent
<1>1. PICK age \in [Threads -> 1..Cardinality(Threads)] :
        \A x \in Threads : Parent[x] \in Threads => age[Parent[x]] < age[x]
  BY ParentAssumption
<1>2. Cardinality(Threads) \in Nat
  BY MonitorAssumption, FS_CardinalityType
<1>3. DOMAIN seen \subseteq Threads /\ \A x \in DOMAIN seen : age[x] \in Int
  BY <1>1, <1>2 DEF IsSeen, IsShown
<1>4. \A x \in DOMAIN seen : seen[x].parent \in DOMAIN seen => age[seen[x].parent] < age[x]
  <2> SUFFICES ASSUME NEW x \in DOMAIN seen, seen[x].parent \in DOMAIN seen
               PROVE  age[seen[x].parent] < age[x]
    OBVIOUS
  <2>1. seen[x].parent = Parent[x]
    BY <1>3, MonitorAssumption DEF IsSeen, IsShown
  <2> QED
    BY <1>1, <1>3, <2>1
<1> DEFINE Follows(k) ==
      /\ f[k + 1].id = g[k].id /\ f[k + 1].met = g[k].met \cup {t}
      /\ g[k].id \in DOMAIN seen => age[g[k].id] < age[t]
    T == {k \in Nat : ~Follows(k)}
<1>5. \A k \in Nat : f[k + 1] = StepUp(seen, f[k]) /\ g[k + 1] = StepUp(seen, g[k])
  BY DEF IsClimb
<1>6. Follows(0)
  <2>1. f[0] = [id |-> p, met |-> {t}] /\ g[0] = [id |-> seen[p].parent, met |-> {p}]
    BY DEF IsClimb
  <2>2. p # t
    BY <1>3, <1>4
  <2>3. f[0 + 1] = StepUp(seen, f[0])
    BY <1>5
  <2>4. f[0 + 1] = [id |-> seen[p].parent, met |-> {t} \cup {p}]
    BY <2>1, <2>2, <2>3 DEF StepUp
  <2>5. f[0 + 1].id = g[0].id /\ f[0 + 1].met = g[0].met \cup {t}
    BY <2>1, <2>4
  <2>6. seen[p].parent \in DOMAIN seen => age[seen[p].parent] < age[t]
    BY <1>3, <1>4
  <2> QED
    BY <2>1, <2>5, <2>6
<1>7. ASSUME NEW k \in Nat, Follows(k) PROVE Follows(k + 1)
  <2> DEFINE x == g[k].id
  <2>1. /\ f[(k + 1) + 1] = StepUp(seen, f[k + 1]) /\ g[k + 1] = StepUp(seen, g[k])
        /\ f[k + 1].id = x /\ f[k + 1].met = g[k].met \cup {t}
    BY <1>5, <1>7
  <2>2. x \in DOMAIN seen => x # t
    BY <1>3, <1>7
  <2>3. CASE x \in g[k].met \/ x \notin DOMAIN seen \/ seen[x].parent = None
    <3>1. f[(k + 1) + 1] = f[k + 1] /\ g[k + 1] = g[k]
      BY <2>1, <2>3 DEF StepUp
    <3> QED
      BY <1>7, <3>1
  <2>4. CASE ~(x \in g[k].met \/ x \notin DOMAIN seen \/ seen[x].parent = None)
    <3>1. x \notin f[k + 1].met
      BY <2>1, <2>2, <2>4
    <3>2. f[(k + 1) + 1] = [id |-> seen[x].parent, met |-> (g[k].met \cup {t}) \cup {x}]
      BY <2>1, <2>4, <3>1 DEF StepUp
    <3>3. g[k + 1] = [id |-> seen[x].parent, met |-> g[k].met \cup {x}]
      BY <2>1, <2>4 DEF StepUp
    <3>4. age[x] < age[t]
      BY <1>7, <2>4
    <3>5. seen[x].parent \in DOMAIN seen => age[seen[x].parent] < age[t]
      BY <1>3, <1>4, <2>4, <3>4
    <3>6. /\ f[(k + 1) + 1].id = g[k + 1].id
          /\ f[(k + 1) + 1].met = g[k + 1].met \cup {t}
      BY <3>2, <3>3
    <3> QED
      BY <3>3, <3>5, <3>6
  <2> QED
    BY <2>3, <2>4
<1> HIDE DEF Follows
<1>8. T = {}
  <2> SUFFICES ASSUME T # {} PROVE FALSE
    OBVIOUS
  <2>1. PICK k \in T : \A m \in T : k <= m
    BY LeastNat
  <2>2. k # 0
    BY <1>6, <2>1
  <2>3. PICK j \in Nat : k = j + 1
    BY <2>1, <2>2
  <2>4. j \notin T
    BY <2>1, <2>3
  <2> QED
    BY <1>7, <2>1, <2>3, <2>4
<1> QED
  BY <1>8 DEF Follows

LEMMA RootsShared ==
  ASSUME NEW seen, IsSeen(seen)
  PROVE  LET h == assignThreadHierarchy(seen)
         IN  \A t \in DOMAIN h : h[t].parent \in DOMAIN h => h[t].root = h[h[t].parent].root
<1> DEFINE h == assignThreadHierarchy(seen)
           n == Cardinality(DOMAIN seen)
<1>1. /\ DOMAIN h = DOMAIN seen
      /\ \A t \in DOMAIN seen :
           /\ h[t].parent = seen[t].parent
           /\ h[t].root = IF seen[t].parent = None THEN t ELSE RootOf(seen, t)
  BY HierarchyKeeps DEF IsSeen
<1> SUFFICES ASSUME NEW t \in DOMAIN seen, seen[t].parent \in DOMAIN seen
             PROVE  h[t].root = h[seen[t].parent].root
  BY <1>1
<1> DEFINE p == seen[t].parent
<1> HIDE DEF h
<1>2. p # None
  BY MonitorAssumption DEF IsSeen, IsShown
<1>3. PICK f : IsClimb(seen, t, f) /\ RootOf(seen, t) = f[n].id
  BY RootIsClimbed
<1>4. n \in Nat /\ f[n + 1] = f[n]
  BY <1>3, ClimbEnds
<1>5. CASE seen[p].parent = None
  <2> DEFINE T == {k \in Nat : f[k] # f[0]}
  <2>1. /\ f[0] = [id |-> p, met |-> {t}]
        /\ \A k \in Nat : f[k + 1] = StepUp(seen, f[k])
    BY <1>3 DEF IsClimb
  <2>2. StepUp(seen, f[0]) = f[0]
    BY <1>5, <2>1 DEF StepUp
  <2>3. T = {}
    <3> SUFFICES ASSUME T # {} PROVE FALSE
      OBVIOUS
    <3>1. PICK k \in T : \A m \in T : k <= m
      BY LeastNat
    <3>2. k # 0
      BY <3>1
    <3>3. PICK j \in Nat : k = j + 1
      BY <3>1, <3>2
    <3>4. f[j] = f[0]
      BY <3>1, <3>3
    <3> QED
      BY <2>1, <2>2, <3>1, <3>3, <3>4
  <2>4. f[n].id = p
    BY <1>4, <2>1, <2>3
  <2> QED
    BY <1>1, <1>2, <1>3, <1>5, <2>4
<1>6. CASE seen[p].parent # None
  <2>1. PICK g : IsClimb(seen, p, g) /\ RootOf(seen, p) = g[n].id
    BY RootIsClimbed
  <2>2. f[n + 1].id = g[n].id
    BY <1>3, <1>4, <1>6, <2>1, ClimbFollows
  <2> QED
    BY <1>1, <1>2, <1>3, <1>4, <1>6, <2>1, <2>2
<1> QED
  BY <1>5, <1>6

(* The published threads are what assignThreadHierarchy makes.             *)
Rooted == \E seen : IsSeen(seen) /\ threads = assignThreadHierarchy(seen)

LEMMA NextRooted ==
  Types /\ Rooted /\ Summarized /\ [Next]_vars => (Rooted /\ Summarized)'
<1> SUFFICES ASSUME Types, Rooted, Summarized, Stepped PROVE Rooted' /\ Summarized'
  BY StepShape
<1>1. CASE Calm
  BY <1>1 DEF Calm, published, Rooted, Summarized
<1>2. ASSUME NEW app, NEW fs, NEW hooks, NEW pending, NEW live \in BOOLEAN,
             Rebuilt(app, fs, hooks, pending, live)
      PROVE  Rooted' /\ Summarized'
  <2>1. /\ appThreads' \in Sources /\ fsThreads' \in Sources /\ hookSessions' \in Hooks
        /\ pending \in SUBSET Requests
    BY <1>2, RebuildTypes DEF Types, RequestTypes, Rebuilt
  <2>2. PICK last \in LastSeen(pending) :
          threads' = Compose(appThreads', fsThreads', hookSessions', last)
    BY <1>2 DEF Rebuilt, Rebuild
  <2> DEFINE seen == Unrooted(appThreads', fsThreads', hookSessions', last)
  <2>3. IsSeen(seen)
    BY <2>1, ComposeShows DEF IsSeen
  <2>4. threads' = assignThreadHierarchy(seen)
    BY <2>2 DEF Compose, Unrooted
  <2> HIDE DEF seen
  <2>5. Rooted'
    BY <2>3, <2>4 DEF Rooted
  <2>6. Summarized'
    BY <1>2 DEF Rebuilt, Rebuild, Summarized
  <2> QED
    BY <2>5, <2>6
<1> QED
  BY <1>1, <1>2 DEF Stepped

LEMMA InitRooted == Init => Rooted /\ Summarized
<1> SUFFICES ASSUME Init PROVE Rooted /\ Summarized
  OBVIOUS
<1>1. threads = assignThreadHierarchy(Nothing)
  BY DEF Init, Nothing, assignThreadHierarchy
<1>2. IsSeen(Nothing)
  BY NothingIs, SourceHas DEF IsSeen, IsShown
<1>3. Rooted
  BY <1>1, <1>2 DEF Rooted
<1>4. Summarized
  BY DEF Init, Summarized
<1> QED
  BY <1>3, <1>4

(* No more roots than active threads, and a root for each of them.         *)
LEMMA WorkflowsCounted ==
  ASSUME NEW shown, IsShown(shown)
  PROVE  LET s == Summarize(shown)
         IN  s.workflows <= s.workers /\ (s.workers > 0 => s.workflows > 0)
<1> DEFINE active == {t \in DOMAIN shown : shown[t].state \in Active}
           roots == {shown[t].root : t \in active}
           f == [t \in active |-> shown[t].root]
<1>1. IsFiniteSet(active)
  BY MonitorAssumption, FS_Subset DEF IsShown
<1>2. f \in Surjection(active, roots)
  BY DEF Surjection
<1>3. /\ Summarize(shown).workers = Cardinality(active)
      /\ Summarize(shown).workflows = Cardinality(roots)
  BY DEF Summarize
<1>4. active # {} => roots # {}
  OBVIOUS
<1> HIDE DEF active, roots, f
<1>5. IsFiniteSet(roots) /\ Cardinality(roots) <= Cardinality(active)
  BY <1>1, <1>2, FS_Surjection
<1>6. Cardinality(active) \in Nat /\ Cardinality(roots) \in Nat
  BY <1>1, <1>5, FS_CardinalityType
<1>7. Cardinality(active) > 0 => Cardinality(roots) > 0
  BY <1>1, <1>4, <1>5, <1>6, FS_EmptySet
<1> QED
  BY <1>3, <1>5, <1>7

(* One workflow is counted once: assignThreadHierarchy gives a subagent    *)
(* the root of its parent, in whatever order the map is walked and however *)
(* long the line of parents, because a parent is older than its child.     *)
THEOREM WorkflowsAreShared == Spec => []WorkflowsShareRoots
<1> DEFINE Inv == Types /\ Rooted /\ Summarized
<1>1. Init => Inv
  BY InitTypes, InitRooted
<1>2. Inv /\ [Next]_vars => Inv'
  BY NextTypes, NextRooted
<1>3. Inv => WorkflowsShareRoots
  <2> SUFFICES ASSUME Types, Rooted, Summarized PROVE WorkflowsShareRoots
    OBVIOUS
  <2>1. \A t \in DOMAIN threads : threads[t].parent \in DOMAIN threads =>
          threads[t].root = threads[threads[t].parent].root
    BY RootsShared DEF Rooted
  <2>2. summary.workflows <= summary.workers /\ (summary.workers > 0 => summary.workflows > 0)
    BY WorkflowsCounted DEF Types, PublishedTypes, Summarized
  <2> QED
    BY <2>1, <2>2 DEF WorkflowsShareRoots
<1> QED
  BY <1>1, <1>2, <1>3, PTL DEF Spec
=============================================================================
