--------------------------- MODULE EventTail_proofs ---------------------------
(***************************************************************************)
(* What holds of the event log and its readers for every number of threads, *)
(* readers, writers, rows and lost connections, proved from EventTail.       *)
(***************************************************************************)
EXTENDS EventTail, SequenceTheorems, TLAPS

-----------------------------------------------------------------------------
(* Types *)

\* A transaction's id is that of a row it has flushed.
TypeInv == TypeOK /\ \A w \in Writers : open[w] <= Len(log)

\* The fields of a request, and what each change of it leaves well typed.
LEMMA RequestFields ==
    ASSUME NEW q \in Request
    PROVE  /\ q.pc \in PC /\ q.sent \in 0..MaxId /\ q.batch \subseteq Ids
           /\ q.phase \in {"replay", "sweep", "tail"} /\ q.mark \in 0..MaxId
  BY DEF Request

LEMMA OwnType == ASSUME TypeInv, NEW r \in Readers PROVE reader[r] \in Request
  BY DEF TypeInv, TypeOK

LEMMA AwayType == Away \in Request
  BY BoundAssumption DEF Away, Request, PC, Ids

LEMMA RowsType ==
    ASSUME TypeInv, NEW t
    PROVE  Rows(t) \subseteq Ids /\ Rows(t) \subseteq committed /\ Len(log) \in Nat
  BY BoundAssumption, LenProperties DEF TypeInv, TypeOK, Rows, Ids

LEMMA BecomesType ==
    ASSUME TypeInv, NEW r \in Readers, NEW q \in Request, Becomes(r, q)
    PROVE  reader' \in [Readers -> Request]
  BY DEF TypeInv, TypeOK, Becomes

LEMMA GotoType ==
    ASSUME TypeInv, NEW r \in Readers, NEW s \in PC, Goto(r, s)
    PROVE  reader' \in [Readers -> Request]
  <1>1. [reader[r] EXCEPT !.pc = s] \in Request
    BY DEF TypeInv, TypeOK, Request
  <1> QED
    BY <1>1, BecomesType DEF Goto

LEMMA LeavesType ==
    ASSUME TypeInv, NEW r \in Readers, Leaves(r)
    PROVE  reader' \in [Readers -> Request]
  BY AwayType, BecomesType DEF Leaves

LEMMA DeliverType ==
    ASSUME TypeInv, NEW r \in Readers, NEW S, Deliver(r, S)
    PROVE  got' \in [Readers -> [Ids -> Nat]]
  BY DEF TypeInv, TypeOK, Deliver

LEMMA TypeInit == Init => TypeInv
  <1> SUFFICES ASSUME Init PROVE TypeInv
    OBVIOUS
  <1>1. log \in Seq([thread : Threads, kind : Kinds]) /\ Len(log) = 0
    BY EmptySeq DEF Init
  <1>2. reader \in [Readers -> Request]
    BY AwayType DEF Init
  <1>3. drops \in 0..MaxDrops /\ MaxId \in Nat
    BY BoundAssumption DEF Init
  <1>4. got \in [Readers -> [Ids -> Nat]] /\ cursor \in [Readers -> 0..MaxId]
    BY <1>3 DEF Init
  <1>5. open \in [Writers -> 0..MaxId] /\ \A w \in Writers : open[w] <= Len(log)
    BY <1>1, <1>3 DEF Init
  <1>6. subs \in [Threads -> SUBSET Readers] /\ thread \in [Readers -> Threads]
    BY DEF Init
  <1>7. Len(log) <= MaxId /\ committed \subseteq DOMAIN log
    BY <1>1, <1>3 DEF Init
  <1>8. conn = "none" /\ lost = FALSE /\ listening = {} /\ wire = {} /\ woken = {}
        /\ guard = Nobody /\ todo = {} /\ relisten = FALSE
    BY DEF Init
  <1> QED
    BY <1>1, <1>2, <1>3, <1>4, <1>5, <1>6, <1>7, <1>8 DEF TypeInv, TypeOK

\* The writers.
LEMMA TypeFlush ==
    ASSUME TypeInv, NEW w \in Writers, NEW t \in Threads, NEW k \in Kinds, Flush(w, t, k)
    PROVE  TypeInv'
  <1>1. Len(log) \in Nat /\ MaxId \in Nat
    BY BoundAssumption, LenProperties DEF TypeInv, TypeOK
  <1>2. log' \in Seq([thread : Threads, kind : Kinds]) /\ Len(log') = Len(log) + 1
    BY AppendProperties DEF Flush, TypeInv, TypeOK
  <1>3. DOMAIN log \subseteq DOMAIN log'
    BY <1>1, <1>2, LenProperties DEF TypeInv, TypeOK
  <1>4. open' \in [Writers -> 0..MaxId] /\ \A v \in Writers : open'[v] <= Len(log')
    BY <1>1, <1>2 DEF Flush, TypeInv, TypeOK
  <1> QED
    BY <1>1, <1>2, <1>3, <1>4 DEF Flush, TypeInv, TypeOK, readVars, hubVars

LEMMA TypeCommit == ASSUME TypeInv, NEW w \in Writers, Commit(w) PROVE TypeInv'
  <1>1. Len(log) \in Nat /\ MaxId \in Nat /\ DOMAIN log = 1..Len(log)
    BY BoundAssumption, LenProperties DEF TypeInv, TypeOK
  <1>2. open[w] \in DOMAIN log
    BY <1>1 DEF TypeInv, TypeOK, Commit
  <1>3. log[open[w]].thread \in Threads
    <2>1. log[open[w]] \in [thread : Threads, kind : Kinds]
      BY <1>1, <1>2, ElementOfSeq DEF TypeInv, TypeOK
    <2> QED
      BY <2>1
  <1>4. open' \in [Writers -> 0..MaxId] /\ \A v \in Writers : open'[v] <= Len(log)
    BY <1>1 DEF Commit, TypeInv, TypeOK
  <1> QED
    BY <1>2, <1>3, <1>4 DEF Commit, TypeInv, TypeOK, readVars, hubVars

LEMMA TypeRollback == ASSUME TypeInv, NEW w \in Writers, Rollback(w) PROVE TypeInv'
  <1>1. Len(log) \in Nat /\ MaxId \in Nat /\ MaxDrops \in Nat
    BY BoundAssumption, LenProperties DEF TypeInv, TypeOK
  <1>2. drops' \in 0..MaxDrops
    BY <1>1 DEF Rollback, TypeInv, TypeOK
  <1>3. open' \in [Writers -> 0..MaxId] /\ \A v \in Writers : open'[v] <= Len(log)
    BY <1>1 DEF Rollback, TypeInv, TypeOK
  <1> QED
    BY <1>2, <1>3 DEF Rollback, TypeInv, TypeOK, readVars

\* The requests.
LEMMA TypeFindDone == ASSUME TypeInv, NEW r \in Readers, FindDone(r) PROVE TypeInv'
  <1>1. Boundaries(thread[r]) \subseteq 0..MaxId
    BY RowsType, BoundAssumption DEF Boundaries, Ids
  <1>2. PICK last \in 0..MaxId : Becomes(r, [reader[r] EXCEPT !.pc = "prompt", !.mark = last])
    BY <1>1 DEF FindDone
  <1>3. [reader[r] EXCEPT !.pc = "prompt", !.mark = last] \in Request
    BY OwnType DEF Request, PC
  <1>4. reader' \in [Readers -> Request]
    BY <1>2, <1>3, BecomesType
  <1> QED
    BY <1>4 DEF FindDone, TypeInv, TypeOK, logVars, hubVars

LEMMA TypeFindPrompt == ASSUME TypeInv, NEW r \in Readers, FindPrompt(r) PROVE TypeInv'
  <1>1. Prompts(r) \subseteq 0..MaxId
    BY RowsType, BoundAssumption DEF Prompts, Ids
  <1>2. \/ Goto(r, "rows")
        \/ \E first \in 0..MaxId : Becomes(r, [reader[r] EXCEPT !.pc = "rows", !.mark = first])
    BY <1>1 DEF FindPrompt
  <1>3. \A first \in 0..MaxId : [reader[r] EXCEPT !.pc = "rows", !.mark = first] \in Request
    BY OwnType DEF Request, PC
  <1>4. reader' \in [Readers -> Request]
    BY <1>2, <1>3, BecomesType, GotoType DEF PC
  <1> QED
    BY <1>4 DEF FindPrompt, TypeInv, TypeOK, logVars, hubVars

LEMMA TypeReadSnapshot == ASSUME TypeInv, NEW r \in Readers, ReadSnapshot(r) PROVE TypeInv'
  <1>1. reader[r].mark \in 0..MaxId
    BY RequestFields DEF TypeInv, TypeOK
  <1>2. got' \in [Readers -> [Ids -> Nat]]
    BY DeliverType DEF ReadSnapshot
  <1>3. reader' \in [Readers -> Request]
    BY LeavesType DEF ReadSnapshot
  <1> QED
    BY <1>1, <1>2, <1>3 DEF ReadSnapshot, TypeInv, TypeOK, logVars, hubVars

LEMMA TypeConnect == ASSUME TypeInv, NEW r \in Readers, Connect(r) PROVE TypeInv'
  <1>1. [Away EXCEPT !.pc = "fetch", !.sent = cursor[r]] \in Request
    BY AwayType DEF Request, PC, TypeInv, TypeOK
  <1>2. reader' \in [Readers -> Request]
    BY <1>1, BecomesType DEF Connect
  <1> QED
    BY <1>2 DEF Connect, TypeInv, TypeOK, logVars, hubVars

LEMMA TypeFetch == ASSUME TypeInv, NEW r \in Readers, Fetch(r) PROVE TypeInv'
  <1> DEFINE fresh == {i \in Rows(thread[r]) : i > reader[r].sent}
  <1>1. fresh \subseteq Ids /\ "yield" \in PC
    BY RowsType DEF PC
  <1>2. Becomes(r, [reader[r] EXCEPT !.pc = "yield", !.batch = fresh])
    BY DEF Fetch
  <1> HIDE DEF fresh
  <1>3. reader[r] \in Request
    BY DEF TypeInv, TypeOK
  <1>4. [reader[r] EXCEPT !.pc = "yield", !.batch = fresh] \in Request
    BY <1>1, <1>3 DEF Request
  <1>5. reader' \in [Readers -> Request]
    BY <1>2, <1>4, BecomesType
  <1> QED
    BY <1>5 DEF Fetch, TypeInv, TypeOK, logVars, hubVars

LEMMA TypeYield == ASSUME TypeInv, NEW r \in Readers, Yield(r) PROVE TypeInv'
  <1>1. PICK i \in reader[r].batch :
          /\ IF log[i].kind = "prompt" THEN UNCHANGED <<cursor, got>>
             ELSE Deliver(r, {i}) /\ cursor' = [cursor EXCEPT ![r] = i]
          /\ IF log[i].kind # "done"
             THEN Becomes(r, [reader[r] EXCEPT !.sent = i, !.batch = @ \ {i}])
             ELSE IF reader[r].phase = "replay" THEN Leaves(r) ELSE Goto(r, "closing")
    BY DEF Yield
  <1>2. reader[r] \in Request /\ reader[r].batch \subseteq Ids
    BY RequestFields DEF TypeInv, TypeOK
  <1>3. i \in 0..MaxId
    BY <1>2, BoundAssumption DEF Ids
  <1>4. got' \in [Readers -> [Ids -> Nat]]
    BY <1>1, DeliverType DEF TypeInv, TypeOK
  <1>5. cursor' \in [Readers -> 0..MaxId]
    BY <1>1, <1>3 DEF TypeInv, TypeOK
  <1>6. CASE log[i].kind # "done"
    <2>0. [reader[r] EXCEPT !.sent = i, !.batch = @ \ {i}] \in Request
      BY <1>2, <1>3 DEF Request
    <2>1. reader' \in [Readers -> Request]
      BY <1>1, <1>6, <2>0, BecomesType
    <2> QED
      BY <1>4, <1>5, <2>1 DEF Yield, TypeInv, TypeOK, logVars, hubVars
  <1>7. CASE log[i].kind = "done"
    <2>1. reader' \in [Readers -> Request]
      BY <1>1, <1>7, LeavesType, GotoType DEF PC
    <2> QED
      BY <1>4, <1>5, <2>1 DEF Yield, TypeInv, TypeOK, logVars, hubVars
  <1> QED
    BY <1>6, <1>7

LEMMA TypeSent == ASSUME TypeInv, NEW r \in Readers, Sent(r) PROVE TypeInv'
  <1>1. reader' \in [Readers -> Request]
    BY GotoType DEF Sent, PC
  <1> QED
    BY <1>1 DEF Sent, TypeInv, TypeOK, logVars, hubVars

LEMMA TypeDrain == ASSUME TypeInv, NEW r \in Readers, Drain(r) PROVE TypeInv'
  <1>1. [reader[r] EXCEPT !.pc = "fetch", !.phase = "tail"] \in Request
    BY OwnType DEF Request, PC
  <1>2. reader' \in [Readers -> Request]
    BY <1>1, BecomesType DEF Drain
  <1> QED
    BY <1>2 DEF Drain, TypeInv, TypeOK, logVars, hubVars

LEMMA TypeHangup == ASSUME TypeInv, NEW r \in Readers, Hangup(r) PROVE TypeInv'
  <1>0. Leaves(r) \/ Goto(r, "closing")
    BY DEF Hangup
  <1>1. reader' \in [Readers -> Request]
    BY <1>0, LeavesType, GotoType DEF PC
  <1> QED
    BY <1>1 DEF Hangup, TypeInv, TypeOK, logVars, hubVars

\* The hub.
Openers == Readers \cup {Hub}

LEMMA OpenedType ==
    ASSUME TypeInv, NEW p \in Openers, OpenedBy(p)
    PROVE  /\ reader' \in [Readers -> Request] /\ woken' \subseteq Readers
           /\ relisten' \in BOOLEAN /\ guard' \in Readers \cup {Hub, Nobody}
  <1>1. CASE p = Hub
    <2>1. UNION {subs[t] : t \in Threads} \subseteq Readers
      BY DEF TypeInv, TypeOK
    <2> QED
      BY <1>1, <2>1 DEF OpenedBy, TypeInv, TypeOK
  <1>2. CASE p # Hub
    <2>1. Goto(p, "arm") /\ UNCHANGED <<woken, relisten, guard>> /\ p \in Readers
      BY <1>2 DEF OpenedBy, Openers
    <2>2. reader' \in [Readers -> Request]
      BY <2>1, GotoType DEF PC
    <2> QED
      BY <2>1, <2>2 DEF TypeInv, TypeOK
  <1> QED
    BY <1>1, <1>2

LEMMA ChannelsType == Channels \subseteq Threads
  BY DEF Channels

LEMMA TypeOpens ==
    ASSUME TypeInv, NEW p \in Openers, Opens(p)
    PROVE  TypeInv'
  <1>1. CASE Dial(p)
    <2>1. /\ reader' \in [Readers -> Request] /\ woken' \subseteq Readers
          /\ relisten' \in BOOLEAN /\ guard' \in Readers \cup {Hub, Nobody}
      <3>1. OpenedBy(p) \/ UNCHANGED <<woken, relisten, guard, reader>>
        BY <1>1 DEF Dial
      <3> QED
        BY <3>1, OpenedType DEF TypeInv, TypeOK
    <2> QED
      BY <1>1, <2>1, ChannelsType DEF Dial, TypeInv, TypeOK, logVars
  <1>2. ASSUME NEW t \in Threads, ListenTo(p, t) PROVE TypeInv'
    <2>1. /\ reader' \in [Readers -> Request] /\ woken' \subseteq Readers
          /\ relisten' \in BOOLEAN /\ guard' \in Readers \cup {Hub, Nobody}
      <3>1. OpenedBy(p) \/ UNCHANGED <<woken, relisten, guard, reader>>
        BY <1>2 DEF ListenTo
      <3> QED
        BY <3>1, OpenedType DEF TypeInv, TypeOK
    <2> QED
      BY <1>2, <2>1 DEF ListenTo, TypeInv, TypeOK, logVars
  <1>3. CASE OpenFails(p)
    <2>1. (Leaves(p) /\ p \in Readers) \/ UNCHANGED reader
      BY <1>3 DEF OpenFails, Openers
    <2>2. reader' \in [Readers -> Request]
      BY <2>1, LeavesType DEF TypeInv, TypeOK
    <2>3. drops' \in 0..MaxDrops
      BY <1>3, BoundAssumption DEF OpenFails, TypeInv, TypeOK
    <2> QED
      BY <1>3, <2>2, <2>3 DEF OpenFails, TypeInv, TypeOK, logVars
  <1> QED
    BY <1>1, <1>2, <1>3 DEF Opens

LEMMA TypeLocks ==
    ASSUME TypeInv, NEW r \in Readers, Locks(r)
    PROVE  TypeInv'
  <1>1. CASE OpenFound(r)
    <2>1. reader' \in [Readers -> Request]
      BY <1>1, GotoType DEF OpenFound, PC
    <2> QED
      BY <1>1, <2>1 DEF OpenFound, TakeGuard, TypeInv, TypeOK, logVars
  <1>2. CASE OpenNeeded(r)
    <2>1. reader' \in [Readers -> Request]
      BY <1>2, GotoType DEF OpenNeeded, PC
    <2> QED
      BY <1>2, <2>1 DEF OpenNeeded, TakeGuard, TypeInv, TypeOK, logVars
  <1>3. CASE Unsubscribe(r)
    <2>1. Goto(r, "unlisten") \/ Leaves(r)
      BY <1>3 DEF Unsubscribe
    <2>2. reader' \in [Readers -> Request]
      BY <2>1, LeavesType, GotoType DEF PC
    <2> QED
      BY <1>3, <2>2 DEF Unsubscribe, TypeInv, TypeOK, logVars
  <1> QED
    BY <1>1, <1>2, <1>3 DEF Locks

LEMMA TypeArm == ASSUME TypeInv, NEW r \in Readers, Arm(r) PROVE TypeInv'
  <1>1. [reader[r] EXCEPT !.pc = "fetch", !.phase = "sweep"] \in Request
    BY OwnType DEF Request, PC
  <1>2. reader' \in [Readers -> Request]
    BY <1>1, BecomesType DEF Arm
  <1> QED
    BY <1>2 DEF Arm, TypeInv, TypeOK, logVars

LEMMA TypeLeaving ==
    ASSUME TypeInv, NEW r \in Readers, ArmFails(r) \/ Unlisten(r) \/ GiveUp(r)
    PROVE  TypeInv'
  <1>1. reader' \in [Readers -> Request]
    BY LeavesType DEF ArmFails, Unlisten, GiveUp
  <1> QED
    BY <1>1 DEF ArmFails, Unlisten, GiveUp, TypeInv, TypeOK, logVars

LEMMA TypeHub ==
    ASSUME TypeInv,
           Drop \/ Lost \/ RelistenTakes \/ RelistenFinds \/ \E t \in Threads : Notified(t)
    PROVE  TypeInv'
  <1>1. CASE Drop
    <2>1. drops' \in 0..MaxDrops
      BY <1>1, BoundAssumption DEF Drop, TypeInv, TypeOK
    <2> QED
      BY <1>1, <2>1 DEF Drop, TypeInv, TypeOK, logVars, readVars
  <1>2. CASE Lost
    BY <1>2 DEF Lost, TypeInv, TypeOK, logVars, readVars
  <1>3. CASE RelistenTakes
    BY <1>3 DEF RelistenTakes, TakeGuard, TypeInv, TypeOK, logVars, readVars
  <1>4. CASE RelistenFinds
    <2>1. OpenedBy(Hub) /\ Hub \in Openers
      BY <1>4 DEF RelistenFinds, Openers
    <2>2. /\ reader' \in [Readers -> Request] /\ woken' \subseteq Readers
          /\ relisten' \in BOOLEAN /\ guard' \in Readers \cup {Hub, Nobody}
      BY <2>1, OpenedType
    <2> QED
      BY <1>4, <2>2 DEF RelistenFinds, TypeInv, TypeOK, logVars
  <1>5. ASSUME NEW t \in Threads, Notified(t) PROVE TypeInv'
    BY <1>5 DEF Notified, TypeInv, TypeOK, logVars, readVars, hubVars
  <1> QED
    BY <1>1, <1>2, <1>3, <1>4, <1>5

LEMMA TypeStep == TypeInv /\ [Next]_vars => TypeInv'
  <1> SUFFICES ASSUME TypeInv, [Next]_vars PROVE TypeInv'
    OBVIOUS
  <1>1. ASSUME NEW w \in Writers, Write(w) PROVE TypeInv'
    BY <1>1, TypeFlush, TypeCommit, TypeRollback DEF Write
  <1>2. ASSUME NEW r \in Readers, Client(r) PROVE TypeInv'
    BY <1>2, TypeFindDone, TypeConnect, TypeHangup, TypeLeaving DEF Client
  <1>3. ASSUME NEW r \in Readers, Serves(r) PROVE TypeInv'
    BY <1>3, TypeFindPrompt, TypeReadSnapshot, TypeFetch, TypeYield, TypeSent, TypeDrain,
       TypeArm, TypeLeaving DEF Serves
  <1>4. ASSUME NEW p \in Openers, Opens(p) PROVE TypeInv'
    BY <1>4, TypeOpens
  <1>5. CASE UNCHANGED vars
    BY <1>5 DEF vars, logVars, readVars, hubVars, TypeInv, TypeOK
  <1> QED
    BY <1>1, <1>2, <1>3, <1>4, <1>5, TypeLocks, TypeHub DEF Next, Openers

LEMMA TypeAlways == Spec => []TypeInv
  BY TypeInit, TypeStep, PTL DEF Spec

\* Every variable has its type, in every behaviour of the log and its readers.
THEOREM TypeCorrect == Spec => []TypeOK
  <1>1. TypeInv => TypeOK
    BY DEF TypeInv
  <1> QED
    BY <1>1, TypeAlways, PTL

-----------------------------------------------------------------------------
(* The hub's lock, its connection and its subscribers *)

\* Only the holder of the lock is between acquiring and releasing it.
GuardInv ==
    /\ \A r \in Readers : guard = r <=> reader[r].pc \in {"open", "arm", "unlisten"}
    /\ guard = Hub => relisten

\* A connection that is opening has an opener that holds the lock; one that is
\* open is listening to every channel with a reader, or its loss is being dealt with.
ConnInv ==
    /\ conn \in {"opening", "broken"} =>
          guard = Hub \/ (guard \in Readers /\ reader[guard].pc = "open")
    /\ conn = "opening" => Channels \subseteq listening \cup todo
    /\ conn = "up" => Channels \subseteq listening
    /\ conn # "up" /\ Channels # {} => Recovering

\* The states in which a request has its queue in the hub.
Subscribed(r) ==
    \/ reader[r].pc \in {"wait", "closing"}
    \/ reader[r].pc \in {"fetch", "yield"} /\ reader[r].phase # "replay"

SubsInv ==
    \A r \in Readers :
        /\ \A t \in Threads : r \in subs[t] <=> t = thread[r] /\ Subscribed(r)
        /\ reader[r].pc = "wait" => reader[r].phase # "replay"
        /\ reader[r].pc = "unlisten" => subs[thread[r]] = {}

HubInv == TypeInv /\ GuardInv /\ ConnInv /\ SubsInv

LEMMA BecomesFacts ==
    ASSUME TypeInv, NEW r \in Readers, NEW q, Becomes(r, q)
    PROVE  reader'[r] = q /\ \A p \in Readers \ {r} : reader'[p] = reader[p]
  BY DEF TypeInv, TypeOK, Becomes

LEMMA GotoFacts ==
    ASSUME TypeInv, NEW r \in Readers, NEW s, Goto(r, s)
    PROVE  /\ reader'[r].pc = s /\ reader'[r].phase = reader[r].phase
           /\ reader'[r].sent = reader[r].sent /\ reader'[r].batch = reader[r].batch
           /\ \A p \in Readers \ {r} : reader'[p] = reader[p]
  <1>1. reader'[r] = [reader[r] EXCEPT !.pc = s] /\ \A p \in Readers \ {r} : reader'[p] = reader[p]
    BY BecomesFacts DEF Goto
  <1> QED
    BY <1>1, OwnType DEF Request

LEMMA LeavesFacts ==
    ASSUME TypeInv, NEW r \in Readers, Leaves(r)
    PROVE  /\ reader'[r] = Away /\ Away.pc = "away"
           /\ \A p \in Readers \ {r} : reader'[p] = reader[p]
  BY BecomesFacts DEF Leaves, Away

\* What each step of a request does to it.
Others(r) == \A p \in Readers \ {r} : reader'[p] = reader[p]

LEMMA FindDoneFacts ==
    ASSUME TypeInv, NEW r \in Readers, FindDone(r)
    PROVE  /\ reader'[r].pc = "prompt" /\ reader'[r].mark \in Boundaries(thread[r])
           /\ reader'[r].sent = reader[r].sent /\ reader'[r].batch = reader[r].batch
           /\ Others(r)
  <1>1. PICK last \in Boundaries(thread[r]) :
          Becomes(r, [reader[r] EXCEPT !.pc = "prompt", !.mark = last])
    BY Zenon DEF FindDone
  <1>2. reader'[r] = [reader[r] EXCEPT !.pc = "prompt", !.mark = last]
    BY <1>1, BecomesFacts
  <1> QED
    BY <1>1, <1>2, BecomesFacts, OwnType DEF Request, Others

LEMMA FindPromptFacts ==
    ASSUME TypeInv, NEW r \in Readers, FindPrompt(r)
    PROVE  /\ reader'[r].pc = "rows" /\ reader'[r].mark \in Prompts(r) \cup {reader[r].mark}
           /\ reader'[r].sent = reader[r].sent /\ reader'[r].batch = reader[r].batch
           /\ Others(r)
  <1>1. CASE Goto(r, "rows")
    <2>1. reader'[r] = [reader[r] EXCEPT !.pc = "rows"]
      BY <1>1, BecomesFacts DEF Goto
    <2> QED
      BY <1>1, <2>1, BecomesFacts, OwnType DEF Goto, Request, Others
  <1>2. ASSUME NEW first \in Prompts(r),
               Becomes(r, [reader[r] EXCEPT !.pc = "rows", !.mark = first])
        PROVE  /\ reader'[r].pc = "rows" /\ reader'[r].mark = first
               /\ reader'[r].sent = reader[r].sent /\ reader'[r].batch = reader[r].batch
               /\ Others(r)
    <2>1. reader'[r] = [reader[r] EXCEPT !.pc = "rows", !.mark = first]
      BY <1>2, BecomesFacts
    <2> QED
      BY <1>2, <2>1, BecomesFacts, OwnType DEF Request, Others
  <1>3. \/ Goto(r, "rows")
        \/ \E first \in Prompts(r) : Becomes(r, [reader[r] EXCEPT !.pc = "rows", !.mark = first])
    BY Zenon DEF FindPrompt
  <1> QED
    BY <1>1, <1>2, <1>3

LEMMA ConnectFacts ==
    ASSUME TypeInv, NEW r \in Readers, Connect(r)
    PROVE  /\ reader'[r].pc = "fetch" /\ reader'[r].phase = "replay"
           /\ reader'[r].sent = cursor[r] /\ reader'[r].batch = {}
           /\ Others(r)
  <1>1. reader'[r] = [Away EXCEPT !.pc = "fetch", !.sent = cursor[r]]
    BY BecomesFacts DEF Connect
  <1> QED
    BY <1>1, BecomesFacts DEF Connect, Away, Others

LEMMA FetchFacts ==
    ASSUME TypeInv, NEW r \in Readers, Fetch(r)
    PROVE  /\ reader'[r].pc = "yield" /\ reader'[r].phase = reader[r].phase
           /\ reader'[r].sent = reader[r].sent
           /\ reader'[r].batch = {i \in Rows(thread[r]) : i > reader[r].sent}
           /\ Others(r)
  <1> DEFINE fresh == {i \in Rows(thread[r]) : i > reader[r].sent}
  <1>1. Becomes(r, [reader[r] EXCEPT !.pc = "yield", !.batch = fresh])
    BY DEF Fetch
  <1> HIDE DEF fresh
  <1>2. reader'[r] = [reader[r] EXCEPT !.pc = "yield", !.batch = fresh]
    BY <1>1, BecomesFacts
  <1>3. /\ reader'[r].pc = "yield" /\ reader'[r].phase = reader[r].phase
        /\ reader'[r].sent = reader[r].sent /\ reader'[r].batch = fresh
        /\ Others(r)
    BY <1>1, <1>2, BecomesFacts, OwnType DEF Request, Others
  <1> QED
    BY <1>3 DEF fresh

LEMMA DrainFacts ==
    ASSUME TypeInv, NEW r \in Readers, Drain(r)
    PROVE  /\ reader'[r].pc = "fetch" /\ reader'[r].phase = "tail"
           /\ reader'[r].sent = reader[r].sent /\ reader'[r].batch = reader[r].batch
           /\ Others(r)
  <1>1. reader'[r] = [reader[r] EXCEPT !.pc = "fetch", !.phase = "tail"]
    BY BecomesFacts DEF Drain
  <1> QED
    BY <1>1, BecomesFacts, OwnType DEF Drain, Request, Others

LEMMA ArmFacts ==
    ASSUME TypeInv, NEW r \in Readers, Arm(r)
    PROVE  /\ reader'[r].pc = "fetch" /\ reader'[r].phase = "sweep"
           /\ reader'[r].sent = reader[r].sent /\ reader'[r].batch = reader[r].batch
           /\ Others(r)
  <1>1. reader'[r] = [reader[r] EXCEPT !.pc = "fetch", !.phase = "sweep"]
    BY BecomesFacts DEF Arm
  <1> QED
    BY <1>1, BecomesFacts, OwnType DEF Arm, Request, Others

\* A row is yielded: it is the first of the batch, and unless it ends the turn
\* the request goes on with the rest.
LEMMA YieldFacts ==
    ASSUME TypeInv, NEW r \in Readers, Yield(r)
    PROVE  \E i \in reader[r].batch :
             /\ \A j \in reader[r].batch : i <= j
             /\ IF log[i].kind = "prompt" THEN UNCHANGED <<cursor, got>>
                ELSE Deliver(r, {i}) /\ cursor' = [cursor EXCEPT ![r] = i]
             /\ Others(r)
             /\ \/ /\ log[i].kind # "done"
                   /\ reader'[r].pc = reader[r].pc /\ reader'[r].phase = reader[r].phase
                   /\ reader'[r].sent = i /\ reader'[r].batch = reader[r].batch \ {i}
                \/ log[i].kind = "done" /\ reader[r].phase = "replay" /\ reader'[r] = Away
                \/ /\ log[i].kind = "done" /\ reader[r].phase # "replay"
                   /\ reader'[r].pc = "closing" /\ reader'[r].phase = reader[r].phase
                   /\ reader'[r].sent = reader[r].sent /\ reader'[r].batch = reader[r].batch
  <1>1. PICK i \in reader[r].batch :
          /\ \A j \in reader[r].batch : i <= j
          /\ IF log[i].kind = "prompt" THEN UNCHANGED <<cursor, got>>
             ELSE Deliver(r, {i}) /\ cursor' = [cursor EXCEPT ![r] = i]
          /\ IF log[i].kind # "done"
             THEN Becomes(r, [reader[r] EXCEPT !.sent = i, !.batch = @ \ {i}])
             ELSE IF reader[r].phase = "replay" THEN Leaves(r) ELSE Goto(r, "closing")
    BY DEF Yield
  <1>2. CASE log[i].kind # "done"
    <2>1. Becomes(r, [reader[r] EXCEPT !.sent = i, !.batch = @ \ {i}])
      BY <1>1, <1>2
    <2>2. reader'[r] = [reader[r] EXCEPT !.sent = i, !.batch = @ \ {i}]
      BY <2>1, BecomesFacts
    <2>3. /\ reader'[r].pc = reader[r].pc /\ reader'[r].phase = reader[r].phase
          /\ reader'[r].sent = i /\ reader'[r].batch = reader[r].batch \ {i}
          /\ Others(r)
      BY <2>1, <2>2, BecomesFacts, OwnType DEF Request, Others
    <2> QED
      BY <1>1, <1>2, <2>3
  <1>3. CASE log[i].kind = "done" /\ reader[r].phase = "replay"
    BY <1>1, <1>3, LeavesFacts DEF Others
  <1>4. CASE log[i].kind = "done" /\ reader[r].phase # "replay"
    <2>1. Goto(r, "closing")
      BY <1>1, <1>4
    <2> QED
      BY <1>1, <1>4, <2>1, GotoFacts DEF Others
  <1> QED
    BY <1>2, <1>3, <1>4

LEMMA HubInit == Init => HubInv
  <1> SUFFICES ASSUME Init PROVE HubInv
    OBVIOUS
  <1>1. \A r \in Readers : reader[r].pc = "away"
    BY DEF Init, Away
  <1>2. \A t \in Threads : subs[t] = {}
    BY DEF Init
  <1>3. GuardInv
    BY <1>1, HolderAssumption DEF Init, GuardInv
  <1>4. ConnInv
    BY <1>2 DEF Init, ConnInv, Channels
  <1>5. SubsInv
    BY <1>1, <1>2 DEF SubsInv, Subscribed
  <1> QED
    BY <1>3, <1>4, <1>5, TypeInit DEF HubInv

\* A request that neither holds the lock nor enters or leaves a queue.
LEMMA QuietStep ==
    ASSUME HubInv, NEW r \in Readers, UNCHANGED hubVars, UNCHANGED thread,
           \A p \in Readers \ {r} : reader'[p] = reader[p],
           reader[r].pc \notin {"open", "arm", "unlisten"},
           reader'[r].pc \notin {"open", "arm", "unlisten"},
           Subscribed(r)' <=> Subscribed(r),
           reader'[r].pc = "wait" => reader'[r].phase # "replay"
    PROVE  GuardInv' /\ ConnInv' /\ SubsInv'
  <1>1. GuardInv'
    BY DEF HubInv, GuardInv, hubVars
  <1>2. Channels' = Channels /\ Recovering' = Recovering
    BY DEF Channels, Recovering, hubVars
  <1>3. ConnInv'
    BY <1>2 DEF HubInv, GuardInv, ConnInv, hubVars
  <1>4. \A p \in Readers : Subscribed(p)' <=> Subscribed(p)
    BY DEF Subscribed
  <1>5. SubsInv'
    BY <1>4 DEF HubInv, SubsInv, hubVars
  <1> QED
    BY <1>1, <1>3, <1>5

LEMMA HubSnapshot ==
    ASSUME HubInv, NEW r \in Readers,
           FindDone(r) \/ FindPrompt(r) \/ ReadSnapshot(r) \/ Connect(r)
    PROVE  GuardInv' /\ ConnInv' /\ SubsInv'
  <1>0. TypeInv /\ reader[r] \in Request
    BY OwnType DEF HubInv
  <1>1. UNCHANGED hubVars /\ UNCHANGED thread
    BY DEF FindDone, FindPrompt, ReadSnapshot, Connect
  <1>2. reader[r].pc \in {"away", "prompt", "rows"}
    BY DEF FindDone, FindPrompt, ReadSnapshot, Connect, At
  <1>3. Others(r) /\ reader'[r].pc \in {"away", "prompt", "rows", "fetch"}
        /\ (reader'[r].pc = "fetch" => reader'[r].phase = "replay")
    <2>1. CASE FindDone(r)
      BY <1>0, <2>1, FindDoneFacts
    <2>2. CASE FindPrompt(r)
      BY <1>0, <2>2, FindPromptFacts
    <2>3. CASE ReadSnapshot(r)
      BY <1>0, <2>3, LeavesFacts DEF ReadSnapshot, Others
    <2>4. CASE Connect(r)
      BY <1>0, <2>4, ConnectFacts
    <2> QED
      BY <2>1, <2>2, <2>3, <2>4
  <1>4. ~Subscribed(r) /\ ~Subscribed(r)'
    BY <1>2, <1>3 DEF Subscribed
  <1> QED
    BY <1>1, <1>2, <1>3, <1>4, QuietStep DEF Others

LEMMA HubReads ==
    ASSUME HubInv, NEW r \in Readers,
           Fetch(r) \/ Yield(r) \/ Sent(r) \/ Drain(r) \/ Hangup(r)
    PROVE  GuardInv' /\ ConnInv' /\ SubsInv'
  <1>0. TypeInv /\ reader[r] \in Request
    BY OwnType DEF HubInv
  <1>1. UNCHANGED hubVars /\ UNCHANGED thread
    BY DEF Fetch, Yield, Sent, Drain, Hangup
  <1>2. reader[r].pc \in {"fetch", "yield", "wait"}
    BY DEF Fetch, Yield, Sent, Drain, Hangup, At
  <1>3. reader[r].pc = "wait" => reader[r].phase # "replay"
    BY DEF HubInv, SubsInv
  <1>4. /\ Others(r) /\ reader'[r].pc \notin {"open", "arm", "unlisten"}
        /\ Subscribed(r)' <=> Subscribed(r)
        /\ reader'[r].pc = "wait" => reader'[r].phase # "replay"
    <2>1. CASE Fetch(r)
      BY <1>0, <2>1, FetchFacts DEF Fetch, At, Subscribed
    <2>2. CASE Yield(r)
      <3>1. reader[r].pc = "yield"
        BY <2>2 DEF Yield, At
      <3>2. /\ Others(r)
            /\ \/ reader'[r].pc = "yield" /\ reader'[r].phase = reader[r].phase
               \/ reader[r].phase = "replay" /\ reader'[r].pc = "away"
               \/ reader[r].phase # "replay" /\ reader'[r].pc = "closing"
        <4>1. PICK i :
                /\ Others(r)
                /\ \/ reader'[r].pc = reader[r].pc /\ reader'[r].phase = reader[r].phase
                   \/ reader[r].phase = "replay" /\ reader'[r] = Away
                   \/ reader[r].phase # "replay" /\ reader'[r].pc = "closing"
          BY <1>0, <2>2, YieldFacts, Zenon
        <4> QED
          BY <3>1, <4>1 DEF Away
      <3> QED
        BY <3>1, <3>2 DEF Subscribed
    <2>3. CASE Sent(r)
      <3>1. Goto(r, IF reader[r].phase = "replay" THEN "subscribe" ELSE "wait")
            /\ reader[r].pc = "yield"
        BY <2>3 DEF Sent, At
      <3> QED
        BY <1>0, <3>1, GotoFacts DEF Subscribed, Others
    <2>4. CASE Drain(r)
      BY <1>0, <2>4, DrainFacts DEF Drain, At, Subscribed
    <2>5. CASE Hangup(r)
      <3>1. CASE reader[r].phase = "replay"
        BY <1>0, <1>2, <1>3, <2>5, <3>1, LeavesFacts DEF Hangup, Subscribed, Others
      <3>2. CASE reader[r].phase # "replay"
        BY <1>0, <1>2, <2>5, <3>2, GotoFacts DEF Hangup, Subscribed, Others
      <3> QED
        BY <3>1, <3>2
    <2> QED
      BY <2>1, <2>2, <2>3, <2>4, <2>5
  <1> QED
    BY <1>1, <1>2, <1>4, QuietStep DEF Others

\* The actions that leave subs alone keep the subscribers, if they keep who is one.
LEMMA SubsKept ==
    ASSUME HubInv, UNCHANGED <<subs, thread>>,
           \A p \in Readers :
              /\ Subscribed(p)' <=> Subscribed(p)
              /\ reader'[p].pc = "wait" => reader'[p].phase # "replay"
              /\ reader'[p].pc = "unlisten" => reader[p].pc = "unlisten"
    PROVE  SubsInv'
  BY DEF HubInv, SubsInv

\* A request that moves between the states outside the hub's queues.
LEMMA SubsOutside ==
    ASSUME HubInv, NEW r \in Readers, UNCHANGED <<subs, thread>>, Others(r),
           reader[r].pc \notin {"wait", "closing", "fetch", "yield"},
           reader'[r].pc \notin {"wait", "closing", "fetch", "yield", "unlisten"}
    PROVE  SubsInv'
  <1>1. \A p \in Readers :
              /\ Subscribed(p)' <=> Subscribed(p)
              /\ reader'[p].pc = "wait" => reader'[p].phase # "replay"
              /\ reader'[p].pc = "unlisten" => reader[p].pc = "unlisten"
    BY DEF Subscribed, Others, HubInv, SubsInv
  <1> QED
    BY <1>1, SubsKept

LEMMA SameReaders ==
    ASSUME HubInv, UNCHANGED <<subs, reader, thread>>
    PROVE  SubsInv'
  BY SubsKept DEF HubInv, SubsInv, Subscribed

\* The opener goes on with the lock, or the relisten task gives it back.
LEMMA OpenedFacts ==
    ASSUME HubInv, NEW p \in Openers, Opening(p), OpenedBy(p), UNCHANGED <<subs, thread>>
    PROVE  /\ GuardInv' /\ SubsInv'
           /\ p = Hub => ~relisten' /\ (\A t \in Threads : subs[t] \subseteq woken')
           /\ p # Hub => UNCHANGED <<relisten, woken>>
  <1>0. TypeInv
    BY DEF HubInv
  <1>1. CASE p = Hub
    <2>1. /\ guard = Hub /\ guard' = Nobody /\ ~relisten' /\ reader' = reader
          /\ \A t \in Threads : subs[t] \subseteq woken'
      BY <1>1 DEF Opening, OpenedBy
    <2>2. GuardInv'
      BY <2>1, HolderAssumption DEF HubInv, GuardInv
    <2> QED
      BY <1>1, <2>1, <2>2, SameReaders
  <1>2. CASE p # Hub
    <2>1. /\ p \in Readers /\ guard = p /\ reader[p].pc = "open" /\ Goto(p, "arm")
          /\ UNCHANGED <<woken, relisten, guard>>
      BY <1>2 DEF Openers, Opening, OpenedBy, At
    <2>2. reader'[p].pc = "arm" /\ Others(p)
      BY <1>0, <2>1, GotoFacts DEF Others
    <2>3. GuardInv'
      BY <2>1, <2>2, HolderAssumption DEF HubInv, GuardInv, Others
    <2>4. SubsInv'
      BY <2>1, <2>2, SubsOutside
    <2> QED
      BY <1>2, <2>1, <2>3, <2>4
  <1> QED
    BY <1>1, <1>2

LEMMA HubDial ==
    ASSUME HubInv, NEW p \in Openers, Dial(p)
    PROVE  GuardInv' /\ ConnInv' /\ SubsInv'
  <1>1. Opening(p) /\ UNCHANGED <<subs, thread, lost>> /\ Channels' = Channels
    BY DEF Dial, Channels
  <1>2. CASE Channels = {}
    <2>1. conn' = "up" /\ OpenedBy(p)
      BY <1>2 DEF Dial
    <2> QED
      BY <1>1, <1>2, <2>1, OpenedFacts DEF ConnInv
  <1>3. CASE Channels # {}
    <2>1. conn' = "opening" /\ todo' = Channels /\ UNCHANGED <<relisten, guard, reader>>
      BY <1>3 DEF Dial
    <2>2. GuardInv' /\ SubsInv'
      BY <1>1, <2>1, SameReaders DEF HubInv, GuardInv
    <2>3. Recovering' = Recovering /\ Recovering
      BY <1>1, <1>3, <2>1 DEF Recovering, HubInv, ConnInv, Dial
    <2>4. guard = Hub \/ (guard \in Readers /\ reader[guard].pc = "open")
      BY <1>1 DEF Opening, Openers, At
    <2> QED
      BY <1>1, <2>1, <2>2, <2>3, <2>4 DEF ConnInv
  <1> QED
    BY <1>2, <1>3

LEMMA HubListenTo ==
    ASSUME HubInv, NEW p \in Openers, NEW t \in Threads, ListenTo(p, t)
    PROVE  GuardInv' /\ ConnInv' /\ SubsInv'
  <1>1. /\ Opening(p) /\ UNCHANGED <<subs, thread, lost>> /\ Channels' = Channels
        /\ listening' = listening \cup {t} /\ todo' = todo \ {t}
        /\ Channels \subseteq listening \cup todo
    BY DEF ListenTo, Channels, HubInv, ConnInv
  <1>2. CASE todo = {t}
    <2>1. conn' = "up" /\ OpenedBy(p)
      BY <1>2 DEF ListenTo
    <2> QED
      BY <1>1, <1>2, <2>1, OpenedFacts DEF ConnInv
  <1>3. CASE todo # {t}
    <2>1. conn = "opening" /\ UNCHANGED <<conn, relisten, guard, reader>>
      BY <1>3 DEF ListenTo
    <2>2. GuardInv' /\ SubsInv'
      BY <1>1, <2>1, SameReaders DEF HubInv, GuardInv
    <2>3. Recovering' = Recovering
      BY <1>1, <2>1 DEF Recovering
    <2> QED
      BY <1>1, <2>1, <2>2, <2>3 DEF HubInv, ConnInv
  <1> QED
    BY <1>2, <1>3

LEMMA HubOpenFails ==
    ASSUME HubInv, NEW p \in Openers, OpenFails(p)
    PROVE  GuardInv' /\ ConnInv' /\ SubsInv'
  <1>0. TypeInv
    BY DEF HubInv
  <1>1. /\ Opening(p) /\ UNCHANGED <<subs, thread, lost, relisten, listening>>
        /\ guard' = Nobody /\ conn' \in {"none", "dead"} /\ conn # "up"
        /\ Channels' = Channels /\ Recovering' = Recovering
    BY DEF OpenFails, Channels, Recovering
  <1>2. ConnInv'
    BY <1>1 DEF HubInv, ConnInv
  <1>3. CASE p = Hub
    <2>1. guard = Hub /\ UNCHANGED reader
      BY <1>3 DEF OpenFails, Opening
    <2>2. GuardInv'
      BY <1>1, <2>1, HolderAssumption DEF HubInv, GuardInv
    <2> QED
      BY <1>1, <1>2, <2>1, <2>2, SameReaders
  <1>4. CASE p # Hub
    <2>1. p \in Readers /\ guard = p /\ reader[p].pc = "open" /\ Leaves(p)
      BY <1>4 DEF OpenFails, Openers, Opening, At
    <2>2. reader'[p].pc = "away" /\ Others(p)
      BY <1>0, <2>1, LeavesFacts DEF Others
    <2>3. GuardInv'
      BY <1>1, <2>1, <2>2, HolderAssumption DEF HubInv, GuardInv, Others
    <2> QED
      BY <1>1, <1>2, <2>1, <2>2, <2>3, SubsOutside
  <1> QED
    BY <1>3, <1>4

\* Nothing the invariant speaks of changes.
LEMMA HubSame ==
    ASSUME HubInv, UNCHANGED <<reader, thread, conn, lost, listening, subs, guard, todo, relisten>>
    PROVE  GuardInv' /\ ConnInv' /\ SubsInv'
  <1>1. Channels' = Channels /\ Recovering' = Recovering
    BY DEF Channels, Recovering
  <1> QED
    BY <1>1, SameReaders DEF HubInv, GuardInv, ConnInv

LEMMA HubOpen ==
    ASSUME HubInv, NEW r \in Readers, OpenFound(r) \/ OpenNeeded(r)
    PROVE  GuardInv' /\ ConnInv' /\ SubsInv'
  <1>0. TypeInv
    BY DEF HubInv
  <1>1. /\ reader[r].pc = "subscribe" /\ guard = Nobody /\ guard' = r
        /\ UNCHANGED <<thread, conn, lost, listening, subs, todo, relisten>>
    BY DEF OpenFound, OpenNeeded, At, TakeGuard
  <1>2. Others(r) /\ reader'[r].pc \in {"open", "arm"}
    BY <1>0, GotoFacts DEF OpenFound, OpenNeeded, Others
  <1>3. GuardInv'
    BY <1>1, <1>2, HolderAssumption DEF HubInv, GuardInv, Others
  <1>4. Channels' = Channels /\ Recovering' = Recovering /\ conn \notin {"opening", "broken"}
    BY <1>1, HolderAssumption DEF Channels, Recovering, HubInv, ConnInv
  <1>5. ConnInv'
    BY <1>1, <1>4 DEF HubInv, ConnInv
  <1> QED
    BY <1>1, <1>2, <1>3, <1>5, SubsOutside

LEMMA HubArm ==
    ASSUME HubInv, NEW r \in Readers, Arm(r)
    PROVE  GuardInv' /\ ConnInv' /\ SubsInv'
  <1>0. TypeInv /\ thread[r] \in Threads /\ subs \in [Threads -> SUBSET Readers]
    BY DEF HubInv, TypeInv, TypeOK
  <1>1. /\ reader[r].pc = "arm" /\ guard = r /\ guard' = Nobody
        /\ conn = "up" \/ subs[thread[r]] # {}
        /\ listening' = IF subs[thread[r]] = {} THEN listening \cup {thread[r]} ELSE listening
        /\ subs' = [subs EXCEPT ![thread[r]] = @ \cup {r}]
        /\ UNCHANGED <<thread, conn, lost, todo, relisten>>
    BY DEF Arm, At, HubInv, GuardInv
  <1>2. Others(r) /\ reader'[r].pc = "fetch" /\ reader'[r].phase = "sweep"
    BY <1>0, ArmFacts
  <1>3. GuardInv'
    BY <1>1, <1>2, HolderAssumption DEF HubInv, GuardInv, Others
  <1>4. Channels' = Channels \cup {thread[r]} /\ Recovering' = Recovering
    BY <1>0, <1>1 DEF Channels, Recovering
  <1>5. conn \notin {"opening", "broken"}
    BY <1>1, HolderAssumption DEF HubInv, ConnInv
  <1>6. ConnInv'
    <2>1. CASE subs[thread[r]] = {}
      BY <1>1, <1>4, <1>5, <2>1 DEF HubInv, ConnInv
    <2>2. CASE subs[thread[r]] # {}
      <3>1. thread[r] \in Channels
        BY <1>0, <2>2 DEF Channels
      <3> QED
        BY <1>1, <1>4, <1>5, <2>2, <3>1 DEF HubInv, ConnInv
    <2> QED
      BY <2>1, <2>2
  <1>7. SubsInv'
    <2> SUFFICES ASSUME NEW p \in Readers
                 PROVE  /\ \A t \in Threads : p \in subs'[t] <=> t = thread[p] /\ Subscribed(p)'
                        /\ reader'[p].pc = "wait" => reader'[p].phase # "replay"
                        /\ reader'[p].pc = "unlisten" => subs'[thread[p]] = {}
      BY <1>1 DEF SubsInv
    <2>1. CASE p = r
      BY <1>0, <1>1, <1>2, <2>1 DEF HubInv, SubsInv, Subscribed
    <2>2. CASE p # r
      <3>1. reader'[p] = reader[p] /\ reader[p].pc # "unlisten"
        BY <1>1, <1>2, <2>2 DEF Others, HubInv, GuardInv
      <3> QED
        BY <1>0, <1>1, <2>2, <3>1 DEF HubInv, SubsInv, Subscribed
    <2> QED
      BY <2>1, <2>2
  <1> QED
    BY <1>3, <1>6, <1>7

LEMMA HubArmFails ==
    ASSUME HubInv, NEW r \in Readers, ArmFails(r)
    PROVE  GuardInv' /\ ConnInv' /\ SubsInv'
  <1>0. TypeInv
    BY DEF HubInv
  <1>1. /\ reader[r].pc = "arm" /\ guard = r /\ guard' = Nobody
        /\ UNCHANGED <<thread, conn, lost, listening, subs, todo, relisten>>
    BY DEF ArmFails, At, HubInv, GuardInv
  <1>2. Others(r) /\ reader'[r].pc = "away"
    BY <1>0, LeavesFacts DEF ArmFails, Others
  <1>3. GuardInv'
    BY <1>1, <1>2, HolderAssumption DEF HubInv, GuardInv, Others
  <1>4. /\ Channels' = Channels /\ Recovering' = Recovering
        /\ conn \notin {"opening", "broken"}
    BY <1>1, HolderAssumption DEF Channels, Recovering, HubInv, ConnInv
  <1> QED
    BY <1>1, <1>2, <1>3, <1>4, SubsOutside DEF HubInv, ConnInv

LEMMA HubGiveUp ==
    ASSUME HubInv, NEW r \in Readers, GiveUp(r)
    PROVE  GuardInv' /\ ConnInv' /\ SubsInv'
  <1>0. TypeInv
    BY DEF HubInv
  <1>1. /\ reader[r].pc \in {"subscribe", "open", "arm"}
        /\ UNCHANGED <<thread, lost, subs, relisten>>
        /\ Channels' = Channels /\ Recovering' = Recovering
    BY DEF GiveUp, Channels, Recovering
  <1>2. Others(r) /\ reader'[r].pc = "away"
    BY <1>0, LeavesFacts DEF GiveUp, Others
  <1>3. SubsInv'
    BY <1>1, <1>2, SubsOutside
  <1>4. CASE guard = r
    <2>1. guard' = Nobody
      BY <1>4 DEF GiveUp
    <2>2. GuardInv'
      BY <1>1, <1>2, <1>4, <2>1, HolderAssumption DEF HubInv, GuardInv, Others
    <2>3. /\ conn' \notin {"opening", "broken"} /\ (conn' = "up" <=> conn = "up")
          /\ conn = "up" => listening' = listening
      BY <1>4 DEF GiveUp
    <2>5. ConnInv'
      BY <1>1, <2>1, <2>3 DEF HubInv, ConnInv
    <2> QED
      BY <1>3, <2>2, <2>5
  <1>5. CASE guard # r
    <2>1. UNCHANGED <<guard, conn, listening, todo>>
      BY <1>5 DEF GiveUp
    <2>2. GuardInv'
      BY <1>1, <1>2, <1>5, <2>1 DEF HubInv, GuardInv, Others
    <2>3. guard \in Readers /\ reader[guard].pc = "open" =>
            guard \in Readers /\ reader'[guard].pc = "open"
      BY <1>2, <1>5 DEF Others
    <2>4. ConnInv'
      BY <1>1, <2>1, <2>3 DEF HubInv, ConnInv
    <2> QED
      BY <1>3, <2>2, <2>4
  <1> QED
    BY <1>4, <1>5

LEMMA HubUnsubscribe ==
    ASSUME HubInv, NEW r \in Readers, Unsubscribe(r)
    PROVE  GuardInv' /\ ConnInv' /\ SubsInv'
  <1>0. TypeInv /\ thread[r] \in Threads /\ subs \in [Threads -> SUBSET Readers]
    BY DEF HubInv, TypeInv, TypeOK
  <1>1. /\ reader[r].pc = "closing" /\ guard = Nobody
        /\ subs' = [subs EXCEPT ![thread[r]] = @ \ {r}]
        /\ UNCHANGED <<thread, conn, lost, listening, todo, relisten>>
    BY DEF Unsubscribe, At
  <1>2. Others(r) /\ (\/ /\ guard' = r /\ reader'[r].pc = "unlisten"
                         /\ subs[thread[r]] = {r}
                      \/ guard' = Nobody /\ reader'[r].pc = "away")
    BY <1>0, <1>1, GotoFacts, LeavesFacts DEF Unsubscribe, Others
  <1>3. GuardInv'
    BY <1>1, <1>2, HolderAssumption DEF HubInv, GuardInv, Others
  <1>4. Channels' \subseteq Channels /\ Recovering' = Recovering
    BY <1>0, <1>1 DEF Channels, Recovering
  <1>5. conn \notin {"opening", "broken"}
    BY <1>1, HolderAssumption DEF HubInv, ConnInv
  <1>6. ConnInv'
    BY <1>1, <1>4, <1>5 DEF HubInv, ConnInv
  <1>7. SubsInv'
    <2> SUFFICES ASSUME NEW p \in Readers
                 PROVE  /\ \A t \in Threads : p \in subs'[t] <=> t = thread[p] /\ Subscribed(p)'
                        /\ reader'[p].pc = "wait" => reader'[p].phase # "replay"
                        /\ reader'[p].pc = "unlisten" => subs'[thread[p]] = {}
      BY <1>1 DEF SubsInv
    <2>1. CASE p = r
      BY <1>0, <1>1, <1>2, <2>1 DEF HubInv, SubsInv, Subscribed
    <2>2. CASE p # r
      <3>1. reader'[p] = reader[p] /\ reader[p].pc # "unlisten" /\ (Subscribed(p)' <=> Subscribed(p))
        BY <1>1, <1>2, <2>2, HolderAssumption DEF Others, HubInv, GuardInv, Subscribed
      <3>2. \A t \in Threads : p \in subs'[t] <=> p \in subs[t]
        BY <1>0, <1>1, <2>2
      <3> QED
        BY <3>1, <3>2 DEF HubInv, SubsInv
    <2> QED
      BY <2>1, <2>2
  <1> QED
    BY <1>3, <1>6, <1>7

LEMMA HubUnlisten ==
    ASSUME HubInv, NEW r \in Readers, Unlisten(r)
    PROVE  GuardInv' /\ ConnInv' /\ SubsInv'
  <1>0. TypeInv /\ thread[r] \in Threads
    BY DEF HubInv, TypeInv, TypeOK
  <1>1. /\ reader[r].pc = "unlisten" /\ guard = r /\ guard' = Nobody
        /\ listening' = IF conn = "up" THEN listening \ {thread[r]} ELSE listening
        /\ UNCHANGED <<thread, conn, lost, subs, todo, relisten>>
    BY DEF Unlisten, At, HubInv, GuardInv
  <1>2. Others(r) /\ reader'[r].pc = "away"
    BY <1>0, LeavesFacts DEF Unlisten, Others
  <1>3. GuardInv'
    BY <1>1, <1>2, HolderAssumption DEF HubInv, GuardInv, Others
  <1>4. /\ Channels' = Channels /\ Recovering' = Recovering /\ thread[r] \notin Channels
        /\ conn \notin {"opening", "broken"}
    BY <1>0, <1>1, HolderAssumption DEF Channels, Recovering, HubInv, SubsInv, ConnInv
  <1>5. ConnInv'
    BY <1>1, <1>4 DEF HubInv, ConnInv
  <1> QED
    BY <1>1, <1>2, <1>3, <1>5, SubsOutside

LEMMA HubConnection ==
    ASSUME HubInv, Drop \/ Lost \/ RelistenTakes \/ RelistenFinds
    PROVE  GuardInv' /\ ConnInv' /\ SubsInv'
  <1>1. CASE Drop
    <2>1. /\ conn \in {"up", "opening"} /\ conn' = (IF conn = "up" THEN "dead" ELSE "broken")
          /\ lost' /\ UNCHANGED <<reader, thread, subs, guard, relisten>>
      BY <1>1 DEF Drop, readVars
    <2>2. GuardInv' /\ SubsInv'
      BY <2>1, SameReaders DEF HubInv, GuardInv
    <2>3. ConnInv'
      BY <2>1 DEF HubInv, ConnInv, Recovering
    <2> QED
      BY <2>2, <2>3
  <1>2. CASE Lost
    <2>1. /\ conn' = (IF conn = "dead" THEN "none" ELSE conn)
          /\ relisten' = (relisten \/ Channels # {})
          /\ UNCHANGED <<reader, thread, listening, subs, guard, todo>> /\ Channels' = Channels
      BY <1>2 DEF Lost, readVars, Channels
    <2>2. GuardInv'
      BY <2>1 DEF HubInv, GuardInv
    <2>3. SubsInv'
      BY <2>1, SameReaders
    <2>4. ConnInv'
      BY <2>1 DEF HubInv, ConnInv, Recovering
    <2> QED
      BY <2>2, <2>3, <2>4
  <1>3. CASE RelistenTakes
    <2>1. /\ UNCHANGED <<reader, thread, conn, lost, listening, subs, todo>> /\ Channels' = Channels
          /\ relisten
          /\ \/ Channels = {} /\ relisten' = FALSE /\ guard' = guard /\ guard # Hub
             \/ guard = Nobody /\ guard' = Hub /\ relisten' = relisten
      BY <1>3 DEF RelistenTakes, TakeGuard, readVars, Channels
    <2>2. GuardInv'
      BY <2>1, HolderAssumption DEF HubInv, GuardInv
    <2>3. SubsInv'
      BY <2>1, SameReaders
    <2>4. ConnInv'
      BY <2>1, HolderAssumption DEF HubInv, ConnInv, Recovering
    <2> QED
      BY <2>2, <2>3, <2>4
  <1>4. CASE RelistenFinds
    <2>1. /\ Opening(Hub) /\ OpenedBy(Hub) /\ Hub \in Openers /\ conn = "up"
          /\ UNCHANGED <<thread, conn, lost, listening, subs, todo>> /\ Channels' = Channels
      BY <1>4 DEF RelistenFinds, Openers, Channels
    <2>2. GuardInv' /\ SubsInv'
      BY <2>1, OpenedFacts
    <2>3. ConnInv'
      BY <2>1 DEF HubInv, ConnInv
    <2> QED
      BY <2>2, <2>3
  <1> QED
    BY <1>1, <1>2, <1>3, <1>4

LEMMA HubStep == HubInv /\ [Next]_vars => HubInv'
  <1> SUFFICES ASSUME HubInv, [Next]_vars PROVE HubInv'
    OBVIOUS
  <1> DEFINE Kept == GuardInv' /\ ConnInv' /\ SubsInv'
  <1>0. TypeInv'
    BY TypeStep DEF HubInv
  <1>1. ASSUME NEW w \in Writers, Write(w) PROVE Kept
    <2>1. UNCHANGED <<reader, thread, conn, lost, listening, subs, guard, todo, relisten>>
      BY <1>1 DEF Write, Flush, Commit, Rollback, readVars, hubVars
    <2> QED
      BY <2>1, HubSame
  <1>2. ASSUME NEW r \in Readers, Client(r) PROVE Kept
    BY <1>2, HubSnapshot, HubReads, HubGiveUp DEF Client
  <1>3. ASSUME NEW r \in Readers, Serves(r) PROVE Kept
    BY <1>3, HubSnapshot, HubReads, HubArm, HubArmFails, HubUnlisten DEF Serves
  <1>4. ASSUME NEW p \in Openers, Opens(p) PROVE Kept
    BY <1>4, HubDial, HubListenTo, HubOpenFails DEF Opens
  <1>5. ASSUME NEW r \in Readers, Locks(r) PROVE Kept
    BY <1>5, HubOpen, HubUnsubscribe DEF Locks
  <1>6. ASSUME UNCHANGED vars \/ \E t \in Threads : Notified(t) PROVE Kept
    <2>1. UNCHANGED <<reader, thread, conn, lost, listening, subs, guard, todo, relisten>>
      BY <1>6 DEF vars, Notified, readVars, hubVars
    <2> QED
      BY <2>1, HubSame
  <1>7. Kept
    BY <1>1, <1>2, <1>3, <1>4, <1>5, <1>6, HubConnection DEF Next, Openers
  <1> QED
    BY <1>0, <1>7 DEF HubInv

LEMMA HubAlways == Spec => []HubInv
  BY HubInit, HubStep, PTL DEF Spec

\* The hub's lock is never left taken by a request that ended, nor by a relisten
\* task that is over (listen_hub.ListenHub._guard).
THEOREM GuardAlwaysUsed == Spec => []GuardIsUsed
  <1>1. HubInv => GuardIsUsed
    BY DEF HubInv, GuardInv, GuardIsUsed
  <1> QED
    BY <1>1, HubAlways, PTL

\* However many readers come and go and however often the connection is lost, a
\* channel with a reader is listened to or about to be (listen_hub.ListenHub).
THEOREM NoDeafReaderAlways == Spec => []NoDeafReader
  <1>1. HubInv => NoDeafReader
    BY DEF HubInv, ConnInv, NoDeafReader
  <1> QED
    BY <1>1, HubAlways, PTL

-----------------------------------------------------------------------------
(* A waiting reader has a wake coming *)

\* Who puts a wake into the queue of a subscribed reader: it is there, a
\* notification is on its way, or the relisten task will.
Owed(r) == r \in woken \/ thread[r] \in wire \/ Recovering

\* A subscribed reader past its fetch: what it has not fetched must wake it.
Attentive(r) ==
    \/ reader[r].pc = "wait"
    \/ reader[r].pc = "yield" /\ reader[r].phase # "replay"

WakeOf(r) ==
    /\ \A i \in reader[r].batch : i > reader[r].sent
    /\ reader[r].pc = "wait" => reader[r].batch = {}
    /\ Attentive(r) =>
         \A i \in Rows(thread[r]) : i > reader[r].sent /\ i \notin reader[r].batch => Owed(r)

WakeInv == \A r \in Readers : WakeOf(r)

LEMMA InChannel ==
    ASSUME HubInv, NEW r \in Readers, Subscribed(r)
    PROVE  r \in subs[thread[r]] /\ thread[r] \in Channels /\ Channels # {}
  <1>1. thread[r] \in Threads
    BY DEF HubInv, TypeInv, TypeOK
  <1>2. r \in subs[thread[r]]
    BY <1>1 DEF HubInv, SubsInv
  <1> QED
    BY <1>1, <1>2 DEF Channels

LEMMA WakeInit == Init => WakeInv
  BY DEF Init, WakeInv, WakeOf, Away, Attentive, Rows

\* A step that adds no row: each request keeps its state and its wake, or its
\* new state is fine.
LEMMA WakeKept ==
    ASSUME HubInv, WakeInv, UNCHANGED <<log, committed, thread>>,
           \A p \in Readers :
              \/ WakeOf(p)'
              \/ reader'[p] = reader[p] /\ (Subscribed(p) /\ Owed(p) => Owed(p)')
    PROVE  WakeInv'
  <1> SUFFICES ASSUME NEW p \in Readers PROVE WakeOf(p)'
    BY DEF WakeInv
  <1>1. Rows(thread[p])' = Rows(thread[p])
    BY DEF Rows
  <1>2. WakeOf(p)
    BY DEF WakeInv
  <1>3. Attentive(p) => Subscribed(p)
    BY DEF Attentive, Subscribed
  <1>4. CASE reader'[p] = reader[p] /\ (Subscribed(p) /\ Owed(p) => Owed(p)')
    BY <1>1, <1>2, <1>3, <1>4 DEF WakeOf, Attentive
  <1> QED
    BY <1>4

\* The wake of every subscribed reader survives.
LEMMA OwedKept ==
    ASSUME HubInv, WakeInv, UNCHANGED <<log, committed, thread, reader>>,
           \A p \in Readers : Subscribed(p) /\ Owed(p) => Owed(p)'
    PROVE  WakeInv'
  BY WakeKept

\* A step of one request that changes nothing of the hub.
LEMMA OneReads ==
    ASSUME HubInv, WakeInv, NEW r \in Readers, Others(r), WakeOf(r)',
           UNCHANGED <<log, committed, thread, wire, lost, relisten>>,
           woken \subseteq woken' \cup {r}
    PROVE  WakeInv'
  <1>1. \A p \in Readers \ {r} : reader'[p] = reader[p] /\ (Owed(p) => Owed(p)')
    BY DEF Others, Owed, Recovering
  <1> QED
    BY <1>1, WakeKept

LEMMA WakeSnapshot ==
    ASSUME HubInv, WakeInv, NEW r \in Readers,
           FindDone(r) \/ FindPrompt(r) \/ ReadSnapshot(r) \/ Connect(r)
    PROVE  WakeInv'
  <1>0. TypeInv /\ WakeOf(r)
    BY DEF HubInv, WakeInv
  <1>1. UNCHANGED <<log, committed, thread, wire, lost, relisten, woken>>
    BY DEF FindDone, FindPrompt, ReadSnapshot, Connect, logVars, hubVars
  <1>2. /\ Others(r) /\ reader'[r].pc \notin {"wait", "yield"}
        /\ \A i \in reader'[r].batch : i > reader'[r].sent
    <2>1. CASE FindDone(r)
      BY <1>0, <2>1, FindDoneFacts DEF WakeOf
    <2>2. CASE FindPrompt(r)
      BY <1>0, <2>2, FindPromptFacts DEF WakeOf
    <2>3. CASE ReadSnapshot(r)
      BY <1>0, <2>3, LeavesFacts DEF ReadSnapshot, Others, Away
    <2>4. CASE Connect(r)
      BY <1>0, <2>4, ConnectFacts
    <2> QED
      BY <2>1, <2>2, <2>3, <2>4
  <1>3. WakeOf(r)'
    BY <1>2 DEF WakeOf, Attentive
  <1> QED
    BY <1>1, <1>2, <1>3, OneReads

LEMMA WakeFetch == ASSUME HubInv, WakeInv, NEW r \in Readers, Fetch(r) PROVE WakeInv'
  <1>0. TypeInv
    BY DEF HubInv
  <1>1. UNCHANGED <<log, committed, thread, wire, lost, relisten, woken>>
    BY DEF Fetch, logVars, hubVars
  <1>2. /\ Others(r) /\ reader'[r].pc = "yield" /\ reader'[r].sent = reader[r].sent
        /\ reader'[r].batch = {i \in Rows(thread[r]) : i > reader[r].sent}
    BY <1>0, FetchFacts
  <1>3. Rows(thread[r])' = Rows(thread[r])
    BY <1>1 DEF Rows
  <1>4. WakeOf(r)'
    BY <1>2, <1>3 DEF WakeOf
  <1> QED
    BY <1>1, <1>2, <1>4, OneReads

LEMMA WakeYield == ASSUME HubInv, WakeInv, NEW r \in Readers, Yield(r) PROVE WakeInv'
  <1>0. TypeInv /\ WakeOf(r) /\ reader[r].pc = "yield" /\ reader[r] \in Request
    BY OwnType DEF HubInv, WakeInv, Yield, At
  <1>1. UNCHANGED <<log, committed, thread, wire, lost, relisten, woken>>
    BY DEF Yield, logVars, hubVars
  <1>2. PICK i \in reader[r].batch :
          /\ \A j \in reader[r].batch : i <= j
          /\ Others(r)
          /\ \/ /\ reader'[r].pc = reader[r].pc /\ reader'[r].phase = reader[r].phase
                /\ reader'[r].sent = i /\ reader'[r].batch = reader[r].batch \ {i}
             \/ reader'[r] = Away
             \/ /\ reader'[r].pc = "closing"
                /\ reader'[r].sent = reader[r].sent /\ reader'[r].batch = reader[r].batch
    BY <1>0, YieldFacts, Zenon
  <1>3. Rows(thread[r])' = Rows(thread[r]) /\ Owed(r)' = Owed(r)
    BY <1>1 DEF Rows, Owed, Recovering
  <1>4. Rows(thread[r]) \subseteq Nat
    BY <1>0, RowsType DEF Ids
  <1>5. WakeOf(r)'
    <2>1. CASE /\ reader'[r].pc = reader[r].pc /\ reader'[r].phase = reader[r].phase
               /\ reader'[r].sent = i /\ reader'[r].batch = reader[r].batch \ {i}
      <3>1. reader[r].batch \subseteq Nat /\ reader[r].sent \in Nat /\ i > reader[r].sent
        BY <1>0, RequestFields, BoundAssumption DEF Ids, WakeOf
      <3>2. \A j \in reader'[r].batch : j > i
        BY <1>2, <2>1, <3>1
      <3>3. \A j \in Rows(thread[r]) :
              j > i /\ j \notin reader'[r].batch => j > reader[r].sent /\ j \notin reader[r].batch
        BY <1>2, <1>4, <2>1, <3>1
      <3> QED
        BY <1>0, <1>3, <2>1, <3>2, <3>3 DEF WakeOf, Attentive
    <2>2. CASE reader'[r] = Away
      BY <2>2 DEF WakeOf, Attentive, Away
    <2>3. CASE /\ reader'[r].pc = "closing"
               /\ reader'[r].sent = reader[r].sent /\ reader'[r].batch = reader[r].batch
      BY <1>0, <2>3 DEF WakeOf, Attentive
    <2> QED
      BY <1>2, <2>1, <2>2, <2>3
  <1> QED
    BY <1>1, <1>2, <1>5, OneReads

LEMMA WakeSent == ASSUME HubInv, WakeInv, NEW r \in Readers, Sent(r) PROVE WakeInv'
  <1>0. TypeInv /\ WakeOf(r) /\ reader[r].pc = "yield" /\ reader[r].batch = {}
    BY DEF HubInv, WakeInv, Sent, At
  <1>1. UNCHANGED <<log, committed, thread, wire, lost, relisten, woken>>
    BY DEF Sent, logVars, hubVars
  <1>2. /\ Others(r) /\ reader'[r].pc = (IF reader[r].phase = "replay" THEN "subscribe" ELSE "wait")
        /\ reader'[r].sent = reader[r].sent /\ reader'[r].batch = {}
    BY <1>0, GotoFacts DEF Sent, Others
  <1>3. Rows(thread[r])' = Rows(thread[r]) /\ Owed(r)' = Owed(r)
    BY <1>1 DEF Rows, Owed, Recovering
  <1>4. WakeOf(r)'
    BY <1>0, <1>2, <1>3 DEF WakeOf, Attentive
  <1> QED
    BY <1>1, <1>2, <1>4, OneReads

LEMMA WakeLeave ==
    ASSUME HubInv, WakeInv, NEW r \in Readers, Drain(r) \/ Hangup(r) \/ Locks(r) \/ Arm(r)
                                               \/ ArmFails(r) \/ Unlisten(r)
    PROVE  WakeInv'
  <1>0. TypeInv /\ WakeOf(r)
    BY DEF HubInv, WakeInv
  <1>1. /\ UNCHANGED <<log, committed, thread, wire, lost, relisten>>
        /\ woken \subseteq woken' \cup {r}
    BY DEF Drain, Hangup, Locks, OpenFound, OpenNeeded, Unsubscribe, Arm, ArmFails, Unlisten,
           logVars, hubVars
  <1>2. /\ Others(r) /\ reader'[r].pc \notin {"wait", "yield"}
        /\ \A i \in reader'[r].batch : i > reader'[r].sent
    <2>1. CASE Leaves(r)
      BY <1>0, <2>1, LeavesFacts DEF Others, Away
    <2>2. ASSUME NEW s \in PC \ {"wait", "yield"}, Goto(r, s)
          PROVE  /\ Others(r) /\ reader'[r].pc = s
                 /\ \A i \in reader'[r].batch : i > reader'[r].sent
      BY <1>0, <2>2, GotoFacts DEF Others, WakeOf
    <2>3. CASE Drain(r)
      BY <1>0, <2>3, DrainFacts DEF WakeOf
    <2>4. CASE Arm(r)
      BY <1>0, <2>4, ArmFacts DEF WakeOf
    <2>5. Drain(r) \/ Arm(r) \/ Leaves(r) \/ \E s \in PC \ {"wait", "yield"} : Goto(r, s)
      BY DEF Hangup, Locks, OpenFound, OpenNeeded, Unsubscribe, ArmFails, Unlisten, PC
    <2> QED
      BY <2>1, <2>2, <2>3, <2>4, <2>5
  <1>3. WakeOf(r)'
    BY <1>2 DEF WakeOf, Attentive
  <1> QED
    BY <1>1, <1>2, <1>3, OneReads

LEMMA WakeGiveUp == ASSUME HubInv, WakeInv, NEW r \in Readers, GiveUp(r) PROVE WakeInv'
  <1>0. TypeInv
    BY DEF HubInv
  <1>1. /\ UNCHANGED <<log, committed, thread, lost, relisten, woken>>
        /\ wire' = wire \/ conn \in {"opening", "broken"}
    BY DEF GiveUp, logVars
  <1>2. Others(r) /\ reader'[r] = Away
    BY <1>0, LeavesFacts DEF GiveUp, Others
  <1>3. WakeOf(r)'
    BY <1>2 DEF WakeOf, Attentive, Away
  <1>4. ASSUME NEW p \in Readers, Subscribed(p), Owed(p) PROVE Owed(p)'
    <2>1. CASE wire' = wire
      BY <1>1, <1>4, <2>1 DEF Owed, Recovering
    <2>2. CASE conn \in {"opening", "broken"}
      <3>1. Recovering
        BY <1>4, <2>2, InChannel DEF HubInv, ConnInv
      <3> QED
        BY <1>1, <3>1 DEF Owed, Recovering
    <2> QED
      BY <1>1, <2>1, <2>2
  <1> QED
    BY <1>1, <1>2, <1>3, <1>4, WakeKept DEF Others

\* The opener goes on: the relisten task wakes every subscriber, a reader
\* leaves that to it.
LEMMA WakeOpened ==
    ASSUME HubInv, WakeInv, NEW p \in Openers, Opening(p), OpenedBy(p),
           UNCHANGED <<log, committed, thread, subs, lost, wire>>
    PROVE  WakeInv'
  <1>0. TypeInv
    BY DEF HubInv
  <1>1. CASE p = Hub
    <2>1. UNCHANGED reader /\ \A t \in Threads : subs[t] \subseteq woken'
      BY <1>1 DEF OpenedBy
    <2>2. ASSUME NEW q \in Readers, Subscribed(q) PROVE Owed(q)'
      <3>1. q \in subs[thread[q]] /\ thread[q] \in Threads
        BY <2>2, InChannel DEF HubInv, TypeInv, TypeOK
      <3> QED
        BY <2>1, <3>1 DEF Owed
    <2> QED
      BY <2>1, <2>2, OwedKept
  <1>2. CASE p # Hub
    <2>1. p \in Readers /\ Goto(p, "arm") /\ UNCHANGED <<woken, relisten>>
      BY <1>2 DEF Openers, OpenedBy
    <2>2. /\ Others(p) /\ reader'[p].pc = "arm"
          /\ reader'[p].sent = reader[p].sent /\ reader'[p].batch = reader[p].batch
      BY <1>0, <2>1, GotoFacts DEF Others
    <2>3. WakeOf(p)'
      BY <2>1, <2>2 DEF WakeInv, WakeOf, Attentive
    <2> QED
      BY <2>1, <2>2, <2>3, OneReads
  <1> QED
    BY <1>1, <1>2

LEMMA WakeOpens ==
    ASSUME HubInv, WakeInv, NEW p \in Openers, Opens(p)
    PROVE  WakeInv'
  <1>0. TypeInv
    BY DEF HubInv
  <1>1. CASE Dial(p)
    <2>1. Opening(p) /\ conn \in {"none", "dead"} /\ UNCHANGED <<log, committed, thread, subs, lost>>
          /\ wire' = {}
      BY <1>1 DEF Dial, logVars
    <2>2. CASE Channels = {}
      <3>1. OpenedBy(p)
        BY <1>1, <2>2 DEF Dial
      <3>2. \A q \in Readers : ~Subscribed(q)
        BY <2>2, InChannel
      <3>3. ASSUME NEW q \in Readers
            PROVE  WakeOf(q)' \/ (reader'[q] = reader[q] /\ ~Subscribed(q))
        <4>1. CASE q = p
          <5>1. Goto(q, "arm")
            BY <3>1, <4>1, HolderAssumption DEF OpenedBy
          <5>2. /\ reader'[q].pc = "arm" /\ reader'[q].sent = reader[q].sent
                /\ reader'[q].batch = reader[q].batch
            BY <1>0, <5>1, GotoFacts
          <5> QED
            BY <2>1, <5>2 DEF WakeInv, WakeOf, Attentive
        <4>2. CASE q # p
          <5>1. UNCHANGED reader \/ (p \in Readers /\ Goto(p, "arm"))
            BY <3>1 DEF OpenedBy, Openers
          <5>2. reader'[q] = reader[q]
            BY <1>0, <4>2, <5>1, GotoFacts
          <5> QED
            BY <3>2, <5>2
        <4> QED
          BY <4>1, <4>2
      <3> QED
        BY <2>1, <3>3, WakeKept
    <2>3. CASE Channels # {}
      <3>1. UNCHANGED <<woken, relisten, reader>>
        BY <1>1, <2>3 DEF Dial
      <3>2. Recovering /\ Recovering'
        BY <2>1, <2>3, <3>1 DEF HubInv, ConnInv, Recovering
      <3> QED
        BY <2>1, <3>1, <3>2, OwedKept DEF Owed
    <2> QED
      BY <2>2, <2>3
  <1>2. ASSUME NEW t \in Threads, ListenTo(p, t) PROVE WakeInv'
    <2>1. Opening(p) /\ UNCHANGED <<log, committed, thread, subs, lost, wire>>
      BY <1>2 DEF ListenTo, logVars
    <2>2. OpenedBy(p) \/ UNCHANGED <<woken, relisten, reader>>
      BY <1>2 DEF ListenTo
    <2> QED
      BY <2>1, <2>2, WakeOpened, OwedKept DEF Owed, Recovering
  <1>3. CASE OpenFails(p)
    <2>1. UNCHANGED <<log, committed, thread, lost, relisten, wire, woken>>
      BY <1>3 DEF OpenFails, logVars
    <2>2. CASE p = Hub
      BY <1>3, <2>1, <2>2, OwedKept DEF OpenFails, Owed, Recovering
    <2>3. CASE p # Hub
      <3>1. p \in Readers /\ Leaves(p)
        BY <1>3, <2>3 DEF OpenFails, Openers
      <3>2. reader'[p] = Away /\ Others(p)
        BY <1>0, <3>1, LeavesFacts DEF Others
      <3>3. WakeOf(p)'
        BY <3>2 DEF WakeOf, Attentive, Away
      <3> QED
        BY <2>1, <3>1, <3>2, <3>3, OneReads
    <2> QED
      BY <2>2, <2>3
  <1> QED
    BY <1>1, <1>2, <1>3 DEF Opens

LEMMA WakeConnection ==
    ASSUME HubInv, WakeInv,
           Drop \/ Lost \/ RelistenTakes \/ RelistenFinds \/ \E t \in Threads : Notified(t)
    PROVE  WakeInv'
  <1>1. CASE Drop
    <2>1. UNCHANGED <<log, committed, thread, reader>> /\ lost'
      BY <1>1 DEF Drop, logVars, readVars
    <2> QED
      BY <2>1, OwedKept DEF Owed, Recovering
  <1>2. CASE Lost
    <2>1. UNCHANGED <<log, committed, thread, reader, wire, woken>>
          /\ relisten' = (relisten \/ Channels # {})
      BY <1>2 DEF Lost, logVars, readVars
    <2>2. \A p \in Readers : Subscribed(p) => Owed(p)'
      BY <2>1, InChannel, OwedKept DEF Owed, Recovering
    <2> QED
      BY <2>1, <2>2, OwedKept
  <1>3. CASE RelistenTakes
    <2>1. /\ UNCHANGED <<log, committed, thread, reader, wire, woken, lost>>
          /\ Channels = {} \/ UNCHANGED relisten
      BY <1>3 DEF RelistenTakes, logVars, readVars
    <2>2. \A p \in Readers : Subscribed(p) /\ Owed(p) => Owed(p)'
      BY <2>1, InChannel DEF Owed, Recovering
    <2> QED
      BY <2>1, <2>2, OwedKept
  <1>4. CASE RelistenFinds
    <2>1. /\ Opening(Hub) /\ OpenedBy(Hub) /\ Hub \in Openers
          /\ UNCHANGED <<log, committed, thread, subs, lost, wire>>
      BY <1>4 DEF RelistenFinds, Openers, logVars
    <2> QED
      BY <2>1, WakeOpened
  <1>5. ASSUME NEW t \in Threads, Notified(t) PROVE WakeInv'
    <2>1. /\ UNCHANGED <<log, committed, thread, reader, lost, relisten>>
          /\ wire' = wire \ {t} /\ woken' = woken \cup subs[t]
      BY <1>5 DEF Notified, logVars, readVars, hubVars
    <2>2. \A p \in Readers : Subscribed(p) /\ Owed(p) => Owed(p)'
      BY <2>1, InChannel DEF Owed, Recovering
    <2> QED
      BY <2>1, <2>2, OwedKept
  <1> QED
    BY <1>1, <1>2, <1>3, <1>4, <1>5

\* A flush adds no row anyone can read.
LEMMA RowsFlush ==
    ASSUME TypeInv, NEW w \in Writers, NEW u \in Threads, NEW k \in Kinds, Flush(w, u, k), NEW t
    PROVE  Rows(t)' = Rows(t) /\ \A i \in committed : log'[i] = log[i]
  <1>1. committed \subseteq 1..Len(log) /\ Len(log) \in Nat
    BY LenProperties DEF TypeInv, TypeOK
  <1>2. \A i \in committed : log'[i] = log[i]
    BY <1>1, AppendProperties DEF Flush, TypeInv, TypeOK
  <1>3. committed' = committed
    BY DEF Flush
  <1> QED
    BY <1>2, <1>3 DEF Rows

LEMMA WakeWrite == ASSUME HubInv, WakeInv, NEW w \in Writers, Write(w) PROVE WakeInv'
  <1>0. TypeInv
    BY DEF HubInv
  <1>1. ASSUME NEW t \in Threads, NEW k \in Kinds, Flush(w, t, k) PROVE WakeInv'
    <2>1. UNCHANGED <<reader, thread, wire, woken, lost, relisten>>
      BY <1>1 DEF Flush, readVars, hubVars
    <2>2. \A p \in Readers : Rows(thread[p])' = Rows(thread[p])
      BY <1>0, <1>1, <2>1, RowsFlush DEF Rows
    <2> QED
      BY <2>1, <2>2 DEF WakeInv, WakeOf, Attentive, Owed, Recovering
  <1>2. CASE Commit(w)
    <2>1. /\ UNCHANGED <<log, reader, thread, woken, lost, relisten>>
          /\ committed' = committed \cup {open[w]}
          /\ wire' = IF log[open[w]].thread \in listening THEN wire \cup {log[open[w]].thread}
                     ELSE wire
      BY <1>2 DEF Commit, readVars, hubVars
    <2> SUFFICES ASSUME NEW p \in Readers PROVE WakeOf(p)'
      BY DEF WakeInv
    <2>2. WakeOf(p) /\ (Owed(p) => Owed(p)')
      BY <2>1 DEF WakeInv, Owed, Recovering
    <2>3. Rows(thread[p])' \subseteq Rows(thread[p]) \cup
             (IF thread[p] = log[open[w]].thread THEN {open[w]} ELSE {})
      BY <2>1 DEF Rows
    <2>4. CASE Attentive(p)
      <3>1. thread[p] \in Channels
        BY <2>4, InChannel DEF Attentive, Subscribed
      <3>2. thread[p] \in listening \/ Recovering
        BY <3>1 DEF HubInv, ConnInv
      <3>3. thread[p] = log[open[w]].thread => Owed(p)'
        BY <2>1, <3>2 DEF Owed, Recovering
      <3> QED
        BY <2>1, <2>2, <2>3, <3>3 DEF WakeOf, Attentive
    <2>5. CASE ~Attentive(p)
      BY <2>1, <2>2, <2>5 DEF WakeOf, Attentive
    <2> QED
      BY <2>4, <2>5
  <1>3. CASE Rollback(w)
    <2>1. UNCHANGED <<log, committed, reader, thread, wire, woken, lost, relisten>>
      BY <1>3 DEF Rollback, readVars
    <2> QED
      BY <2>1, OwedKept DEF Owed, Recovering
  <1> QED
    BY <1>1, <1>2, <1>3 DEF Write

LEMMA WakeStep == HubInv /\ WakeInv /\ [Next]_vars => WakeInv'
  <1> SUFFICES ASSUME HubInv, WakeInv, [Next]_vars PROVE WakeInv'
    OBVIOUS
  <1>1. ASSUME NEW r \in Readers, Client(r) PROVE WakeInv'
    BY <1>1, WakeSnapshot, WakeLeave, WakeGiveUp DEF Client
  <1>2. ASSUME NEW r \in Readers, Serves(r) PROVE WakeInv'
    BY <1>2, WakeSnapshot, WakeFetch, WakeYield, WakeSent, WakeLeave DEF Serves
  <1>3. ASSUME NEW r \in Readers, Locks(r) PROVE WakeInv'
    BY <1>3, WakeLeave
  <1>4. ASSUME NEW p \in Openers, Opens(p) PROVE WakeInv'
    BY <1>4, WakeOpens
  <1>5. CASE UNCHANGED vars
    <2>1. UNCHANGED <<log, committed, reader, thread, wire, woken, lost, relisten>>
      BY <1>5 DEF vars, logVars, readVars, hubVars
    <2> QED
      BY <2>1, OwedKept DEF Owed, Recovering
  <1> QED
    BY <1>1, <1>2, <1>3, <1>4, <1>5, WakeWrite, WakeConnection DEF Next, Openers

LEMMA WakeAlways == Spec => [](HubInv /\ WakeInv)
  BY HubInit, HubStep, WakeInit, WakeStep, PTL DEF Spec

\* A reader that waits has, for every row committed after the last it sent, a
\* wake in its queue, on the wire or owed (event_stream.replay_and_tail).
THEOREM NoMissedWakeAlways == Spec => []NoMissedWake
  <1>1. HubInv /\ WakeInv => NoMissedWake
    BY DEF WakeInv, WakeOf, Attentive, Owed, NoMissedWake, At
  <1> QED
    BY <1>1, WakeAlways, PTL

-----------------------------------------------------------------------------
(* What a client holds *)

InSession(r) == reader[r].pc \in {"fetch", "yield", "subscribe", "open", "arm", "wait"}

CursorOf(r) ==
    /\ reader[r].pc \in {"prompt", "rows"} => cursor[r] = 0
    /\ InSession(r) => cursor[r] <= reader[r].sent

CursorInv == \A r \in Readers : CursorOf(r)

\* A step that neither reads the log nor answers the client.
Passive(r) ==
    \/ reader'[r] = reader[r]
    \/ reader'[r] = Away
    \/ /\ reader'[r].sent = reader[r].sent /\ reader'[r].batch = reader[r].batch
       /\ \/ reader'[r].pc \in {"closing", "unlisten"}
          \/ InSession(r) /\ reader'[r].pc \in {"fetch", "subscribe", "open", "arm", "wait"}

\* A move of one request is passive.
LEMMA PassiveMove ==
    ASSUME TypeInv, NEW r \in Readers,
           \/ UNCHANGED reader
           \/ Leaves(r)
           \/ Goto(r, "closing") \/ Goto(r, "unlisten")
           \/ /\ InSession(r)
              /\ \E s \in {"subscribe", "open", "arm", "wait"} : Goto(r, s)
           \/ Drain(r) \/ Arm(r)
    PROVE  \A p \in Readers : Passive(p)
  <1>1. CASE UNCHANGED reader
    BY <1>1 DEF Passive
  <1>2. CASE Leaves(r)
    BY <1>2, LeavesFacts DEF Passive
  <1>3. CASE Goto(r, "closing") \/ Goto(r, "unlisten")
    BY <1>3, GotoFacts DEF Passive
  <1>4. ASSUME InSession(r), NEW s \in {"subscribe", "open", "arm", "wait"}, Goto(r, s)
        PROVE  \A p \in Readers : Passive(p)
    BY <1>4, GotoFacts DEF Passive
  <1>5. CASE Drain(r)
    BY <1>5, DrainFacts DEF Passive, Others, Drain, At, InSession
  <1>6. CASE Arm(r)
    BY <1>6, ArmFacts DEF Passive, Others, Arm, At, InSession
  <1> QED
    BY <1>1, <1>2, <1>3, <1>4, <1>5, <1>6

Hubs ==
    \/ Drop \/ Lost \/ RelistenTakes \/ RelistenFinds
    \/ \E t \in Threads : Notified(t)
    \/ \E p \in Openers : Opens(p)

Moves(r) ==
    Sent(r) \/ Drain(r) \/ Hangup(r) \/ GiveUp(r) \/ Locks(r) \/ Arm(r) \/ ArmFails(r) \/ Unlisten(r)

LEMMA PassiveSteps ==
    ASSUME TypeInv, Hubs \/ UNCHANGED vars \/ \E r \in Readers : Moves(r)
    PROVE  UNCHANGED <<logVars, thread, cursor, got>> /\ \A p \in Readers : Passive(p)
  <1>1. CASE Drop \/ Lost \/ RelistenTakes \/ UNCHANGED vars \/ \E t \in Threads : Notified(t)
    <2>1. UNCHANGED <<logVars, thread, cursor, got, reader>>
      BY <1>1 DEF Drop, Lost, RelistenTakes, vars, Notified, readVars
    <2> QED
      BY <2>1 DEF Passive
  <1>2. CASE RelistenFinds
    <2>1. UNCHANGED <<logVars, thread, cursor, got, reader>>
      BY <1>2 DEF RelistenFinds, OpenedBy
    <2> QED
      BY <2>1 DEF Passive
  <1>3. ASSUME NEW p \in Openers, Opens(p)
        PROVE  UNCHANGED <<logVars, thread, cursor, got>> /\ \A q \in Readers : Passive(q)
    <2>1. UNCHANGED <<logVars, thread, cursor, got>> /\ Opening(p)
      BY <1>3 DEF Opens, Dial, ListenTo, OpenFails
    <2>2. UNCHANGED reader \/ (p \in Readers /\ p # Hub /\ (Leaves(p) \/ Goto(p, "arm")))
      BY <1>3 DEF Opens, Dial, ListenTo, OpenFails, OpenedBy, Openers
    <2>3. p \in Readers /\ p # Hub => InSession(p)
      BY <2>1 DEF Opening, At, InSession
    <2>4. UNCHANGED reader => \A q \in Readers : Passive(q)
      BY DEF Passive
    <2> QED
      BY <2>1, <2>2, <2>3, <2>4, PassiveMove
  <1>4. ASSUME NEW r \in Readers, Moves(r)
        PROVE  UNCHANGED <<logVars, thread, cursor, got>> /\ \A p \in Readers : Passive(p)
    <2>1. UNCHANGED <<logVars, thread, cursor, got>>
      BY <1>4 DEF Moves, Sent, Drain, Hangup, GiveUp, Locks, OpenFound, OpenNeeded, Unsubscribe,
                  Arm, ArmFails, Unlisten
    <2>2. \/ Leaves(r) \/ Goto(r, "closing") \/ Goto(r, "unlisten") \/ Drain(r) \/ Arm(r)
          \/ InSession(r) /\ \E s \in {"subscribe", "open", "arm", "wait"} : Goto(r, s)
      BY <1>4 DEF Moves, Sent, Hangup, GiveUp, Locks, OpenFound, OpenNeeded, Unsubscribe,
                  ArmFails, Unlisten, At, InSession
    <2> QED
      BY <2>1, <2>2, PassiveMove
  <1> QED
    BY <1>1, <1>2, <1>3, <1>4 DEF Hubs

\* The next-state relation, split into what reads and what is passive.
LEMMA NextSplit ==
    ASSUME [Next]_vars
    PROVE  \/ \E w \in Writers : Write(w)
           \/ \E r \in Readers :
                 FindDone(r) \/ FindPrompt(r) \/ ReadSnapshot(r) \/ Connect(r) \/ Fetch(r) \/ Yield(r)
           \/ Hubs \/ UNCHANGED vars \/ \E r \in Readers : Moves(r)
  <1>1. ASSUME NEW r \in Readers, Client(r) \/ Serves(r) \/ Locks(r)
        PROVE  \/ FindDone(r) \/ FindPrompt(r) \/ ReadSnapshot(r) \/ Connect(r) \/ Fetch(r) \/ Yield(r)
               \/ Moves(r)
    BY <1>1 DEF Client, Serves, Moves
  <1>2. ASSUME NEW p \in Openers, Opens(p) PROVE Hubs
    BY <1>2 DEF Hubs
  <1>3. Drop \/ Lost \/ RelistenTakes \/ RelistenFinds \/ (\E t \in Threads : Notified(t)) => Hubs
    BY DEF Hubs
  <1> QED
    BY <1>1, <1>2, <1>3 DEF Next, Openers

LEMMA DeliverFacts ==
    ASSUME TypeInv, NEW r \in Readers, NEW S, Deliver(r, S)
    PROVE  /\ \A i \in Ids : got'[r][i] = got[r][i] + (IF i \in S THEN 1 ELSE 0)
           /\ \A p \in Readers \ {r} : got'[p] = got[p]
           /\ \A p \in Readers, i \in Ids : got[p][i] \in Nat
  BY DEF TypeInv, TypeOK, Deliver

LEMMA CursorInit == Init => CursorInv
  BY DEF Init, CursorInv, CursorOf, Away, InSession

LEMMA CursorStep ==
    ASSUME HubInv, WakeInv, CursorInv, [Next]_vars
    PROVE  /\ CursorInv'
           /\ \A r \in Readers : \A i \in Ids : got'[r][i] > got[r][i] => i > cursor[r]
  <1> DEFINE Fine == /\ CursorInv'
                     /\ \A r \in Readers : \A i \in Ids : got'[r][i] > got[r][i] => i > cursor[r]
  <1>0. TypeInv /\ cursor \in [Readers -> 0..MaxId] /\ MaxId \in Nat
        /\ \A r \in Readers, i \in Ids : got[r][i] \in Nat
    BY BoundAssumption DEF HubInv, TypeInv, TypeOK
  <1>1. ASSUME NEW w \in Writers, Write(w) PROVE Fine
    <2>1. UNCHANGED <<reader, cursor, got>>
      BY <1>1 DEF Write, Flush, Commit, Rollback, readVars
    <2> QED
      BY <1>0, <2>1 DEF CursorInv, CursorOf, InSession
  <1>2. ASSUME Hubs \/ UNCHANGED vars \/ \E r \in Readers : Moves(r) PROVE Fine
    <2>1. UNCHANGED <<cursor, got>> /\ \A p \in Readers : Passive(p)
      BY <1>0, <1>2, PassiveSteps
    <2> QED
      BY <1>0, <2>1 DEF Passive, CursorInv, CursorOf, InSession, Away
  <1>3. ASSUME NEW r \in Readers, FindDone(r) \/ FindPrompt(r) \/ Connect(r) \/ Fetch(r) PROVE Fine
    <2>1. UNCHANGED <<cursor, got>>
      BY <1>3 DEF FindDone, FindPrompt, Connect, Fetch
    <2>2. Others(r) /\ CursorOf(r)'
      <3>0. CursorOf(r)
        BY DEF CursorInv
      <3>1. CASE FindDone(r)
        BY <1>0, <2>1, <3>0, <3>1, FindDoneFacts DEF FindDone, CursorOf, InSession
      <3>2. CASE FindPrompt(r)
        BY <1>0, <2>1, <3>0, <3>2, FindPromptFacts DEF FindPrompt, At, CursorOf, InSession
      <3>3. CASE Connect(r)
        BY <1>0, <2>1, <3>3, ConnectFacts DEF CursorOf, InSession
      <3>4. CASE Fetch(r)
        BY <1>0, <2>1, <3>0, <3>4, FetchFacts DEF Fetch, At, CursorOf, InSession
      <3> QED
        BY <1>3, <3>1, <3>2, <3>3, <3>4
    <2> QED
      BY <1>0, <2>1, <2>2 DEF Others, CursorInv, CursorOf, InSession
  <1>4. ASSUME NEW r \in Readers, ReadSnapshot(r) PROVE Fine
    <2>1. /\ reader[r].pc = "rows" /\ cursor[r] = 0 /\ Leaves(r)
          /\ Deliver(r, {i \in Rows(thread[r]) : i <= reader[r].mark})
          /\ cursor' = [cursor EXCEPT ![r] = reader[r].mark]
      BY <1>4 DEF ReadSnapshot, At, CursorInv, CursorOf
    <2>2. Others(r) /\ reader'[r].pc = "away"
      BY <1>0, <2>1, LeavesFacts DEF Others
    <2>3. CursorInv'
      BY <1>0, <2>1, <2>2 DEF Others, CursorInv, CursorOf, InSession
    <2>4. ASSUME NEW p \in Readers, NEW i \in Ids, got'[p][i] > got[p][i] PROVE i > cursor[p]
      <3>1. p = r
        BY <1>0, <2>1, <2>4, DeliverFacts
      <3> QED
        BY <1>0, <2>1, <3>1 DEF Ids
    <2> QED
      BY <2>3, <2>4
  <1>5. ASSUME NEW r \in Readers, Yield(r) PROVE Fine
    <2>0. /\ reader[r].pc = "yield" /\ cursor[r] <= reader[r].sent /\ cursor[r] \in Nat
          /\ reader[r].batch \subseteq Nat /\ reader[r].sent \in Nat
          /\ \A i \in reader[r].batch : i > reader[r].sent
      BY <1>0, <1>5, OwnType, RequestFields DEF Yield, At, CursorInv, CursorOf, InSession, WakeInv, WakeOf, Ids
    <2>1. PICK i \in reader[r].batch :
            /\ IF log[i].kind = "prompt" THEN UNCHANGED <<cursor, got>>
               ELSE Deliver(r, {i}) /\ cursor' = [cursor EXCEPT ![r] = i]
            /\ Others(r)
            /\ \/ reader'[r].pc = reader[r].pc /\ reader'[r].sent = i
               \/ reader'[r] = Away
               \/ reader'[r].pc = "closing"
      BY <1>0, <1>5, YieldFacts, Zenon
    <2>2. i \in Nat /\ i > cursor[r]
      BY <2>0
    <2>3. cursor' = cursor \/ cursor' = [cursor EXCEPT ![r] = i]
      BY <2>1
    <2>4. CursorOf(r)'
      BY <1>0, <2>0, <2>1, <2>2, <2>3 DEF CursorOf, InSession, Away
    <2>5. \A p \in Readers \ {r} : CursorOf(p)'
      BY <1>0, <2>1, <2>3 DEF Others, CursorInv, CursorOf, InSession
    <2>6. ASSUME NEW p \in Readers, NEW j \in Ids, got'[p][j] > got[p][j] PROVE j > cursor[p]
      <3>1. Deliver(r, {i})
        BY <1>0, <2>1, <2>6
      <3>2. p = r /\ j = i
        BY <1>0, <2>6, <3>1, DeliverFacts
      <3> QED
        BY <2>2, <3>2
    <2> QED
      BY <2>4, <2>5, <2>6 DEF CursorInv
  <1> QED
    BY <1>1, <1>2, <1>3, <1>4, <1>5, NextSplit

\* No client ever receives a row at or before its cursor, however many readers
\* and overlapping transactions there are (event_stream._fetch_after).
THEOREM NeverRepeatsAlways == Spec => NeverRepeats
  <1>1. Init => HubInv /\ WakeInv /\ CursorInv
    BY HubInit, WakeInit, CursorInit
  <1>2. HubInv /\ WakeInv /\ CursorInv /\ [Next]_vars => (HubInv /\ WakeInv /\ CursorInv)'
    BY HubStep, WakeStep, CursorStep
  <1>3. HubInv /\ WakeInv /\ CursorInv /\ [Next]_vars =>
           [\A r \in Readers : \A i \in Ids : got'[r][i] > got[r][i] => i > cursor[r]]_vars
    BY CursorStep
  <1> QED
    BY <1>1, <1>2, <1>3, PTL DEF Spec, NeverRepeats

-----------------------------------------------------------------------------
(* Where the transactions of a thread do not overlap, nothing is skipped *)

\* The open transaction of a thread will commit its newest row.
OrderInv ==
    \A w \in Writers : open[w] # 0 =>
        /\ \A v \in Writers : open[v] # 0 /\ log[open[v]].thread = log[open[w]].thread => v = w
        /\ \A i \in Rows(log[open[w]].thread) : i < open[w]

Known(r)    == {0} \cup Rows(thread[r])
Holds(r, n) == \A i \in Frames(thread[r]) : i <= n => got[r][i] > 0

\* A request sends in the order of the rows, and its client holds what it sent.
FrameOf(r) ==
    /\ cursor[r] \in Known(r) /\ reader[r].sent \in Known(r)
    /\ reader[r].batch \subseteq Rows(thread[r])
    /\ reader[r].pc \in {"prompt", "rows"} => reader[r].mark \in Known(r)
    /\ Holds(r, cursor[r])
    /\ InSession(r) => Holds(r, reader[r].sent)
    /\ reader[r].pc = "yield" =>
         \A j \in Rows(thread[r]), i \in reader[r].batch :
            j > reader[r].sent /\ j \notin reader[r].batch => i < j

FrameInv == \A r \in Readers : FrameOf(r)

SerialInv == HubInv /\ WakeInv /\ CursorInv /\ OrderInv /\ FrameInv

LEMMA SerialInit == Init => OrderInv /\ FrameInv
  <1> SUFFICES ASSUME Init PROVE OrderInv /\ FrameInv
    OBVIOUS
  <1>1. \A t : Rows(t) = {} /\ Frames(t) = {}
    BY DEF Init, Rows, Frames
  <1>2. \A r \in Readers : cursor[r] = 0 /\ reader[r] = Away
    BY DEF Init
  <1>3. FrameInv
    BY <1>1, <1>2 DEF FrameInv, FrameOf, Known, Holds, InSession, Away
  <1>4. OrderInv
    BY DEF Init, OrderInv
  <1> QED
    BY <1>3, <1>4

LEMMA RowsNat ==
    ASSUME TypeInv, NEW t
    PROVE  /\ Rows(t) \subseteq Ids /\ Rows(t) \subseteq Nat /\ Rows(t) \subseteq 1..Len(log)
           /\ Frames(t) \subseteq Rows(t) /\ Len(log) \in Nat /\ \A i \in Rows(t) : i > 0
  <1>1. committed \subseteq 1..Len(log) /\ Len(log) \in Nat
    BY LenProperties DEF TypeInv, TypeOK
  <1>2. Rows(t) \subseteq Ids /\ Rows(t) \subseteq committed /\ Frames(t) \subseteq Rows(t)
    BY RowsType DEF Frames
  <1> QED
    BY <1>1, <1>2 DEF Ids

\* A step that neither writes nor reads keeps both.
LEMMA FramePassive ==
    ASSUME SerialInv, UNCHANGED <<logVars, thread, cursor, got>>, \A p \in Readers : Passive(p)
    PROVE  OrderInv' /\ FrameInv'
  <1>1. \A t : Rows(t)' = Rows(t) /\ Frames(t)' = Frames(t)
    BY DEF Rows, Frames, logVars
  <1>2. OrderInv'
    BY <1>1 DEF SerialInv, OrderInv, logVars
  <1> SUFFICES ASSUME NEW p \in Readers PROVE FrameOf(p)'
    BY <1>2 DEF FrameInv
  <1>3. FrameOf(p) /\ thread' = thread /\ cursor' = cursor /\ got' = got
    BY DEF SerialInv, FrameInv
  <1>4. CASE reader'[p] = reader[p]
    BY <1>1, <1>3, <1>4 DEF FrameOf, Known, Holds, InSession
  <1>5. CASE reader'[p] = Away
    BY <1>1, <1>3, <1>5 DEF FrameOf, Known, Holds, InSession, Away
  <1>6. CASE /\ reader'[p].sent = reader[p].sent /\ reader'[p].batch = reader[p].batch
             /\ \/ reader'[p].pc \in {"closing", "unlisten"}
                \/ InSession(p) /\ reader'[p].pc \in {"fetch", "subscribe", "open", "arm", "wait"}
    BY <1>1, <1>3, <1>6 DEF FrameOf, Known, Holds, InSession
  <1> QED
    BY <1>4, <1>5, <1>6 DEF Passive

\* The requests a step leaves alone.
LEMMA FrameOthers ==
    ASSUME SerialInv, NEW r \in Readers, UNCHANGED <<logVars, thread>>, Others(r),
           \A p \in Readers \ {r} : cursor'[p] = cursor[p] /\ got'[p] = got[p],
           FrameOf(r)'
    PROVE  OrderInv' /\ FrameInv'
  <1>1. \A t : Rows(t)' = Rows(t) /\ Frames(t)' = Frames(t)
    BY DEF Rows, Frames, logVars
  <1>2. OrderInv'
    BY <1>1 DEF SerialInv, OrderInv, logVars
  <1>3. ASSUME NEW p \in Readers \ {r} PROVE FrameOf(p)'
    <2>1. /\ FrameOf(p) /\ thread'[p] = thread[p] /\ cursor'[p] = cursor[p] /\ got'[p] = got[p]
          /\ reader'[p] = reader[p]
      BY DEF SerialInv, FrameInv, Others
    <2> QED
      BY <1>1, <2>1 DEF FrameOf, Known, Holds, InSession
  <1> QED
    BY <1>2, <1>3 DEF FrameInv

LEMMA FrameReads ==
    ASSUME SerialInv, NEW r \in Readers,
           FindDone(r) \/ FindPrompt(r) \/ Connect(r) \/ Fetch(r)
    PROVE  OrderInv' /\ FrameInv'
  <1>0. TypeInv /\ FrameOf(r)
    BY DEF SerialInv, HubInv, FrameInv
  <1>1. UNCHANGED <<logVars, thread, cursor, got>>
    BY DEF FindDone, FindPrompt, Connect, Fetch
  <1>2. Rows(thread[r])' = Rows(thread[r]) /\ Frames(thread[r])' = Frames(thread[r])
    BY <1>1 DEF Rows, Frames, logVars
  <1>3. CASE FindDone(r)
    <2>1. Boundaries(thread[r]) \subseteq Known(r)
      BY DEF Boundaries, Known
    <2> QED
      BY <1>0, <1>1, <1>2, <1>3, <2>1, FindDoneFacts, FrameOthers
         DEF FrameOf, Known, Holds, InSession
  <1>4. CASE FindPrompt(r)
    <2>1. Prompts(r) \subseteq Known(r) /\ reader[r].pc = "prompt"
      BY <1>4 DEF Prompts, Known, FindPrompt, At
    <2> QED
      BY <1>0, <1>1, <1>2, <1>4, <2>1, FindPromptFacts, FrameOthers
         DEF FrameOf, Known, Holds, InSession
  <1>5. CASE Connect(r)
    BY <1>0, <1>1, <1>2, <1>5, ConnectFacts, FrameOthers DEF FrameOf, Known, Holds, InSession
  <1>6. CASE Fetch(r)
    <2>1. InSession(r)
      BY <1>6 DEF Fetch, At, InSession
    <2> QED
      BY <1>0, <1>1, <1>2, <1>6, <2>1, FetchFacts, FrameOthers DEF FrameOf, Known, Holds, InSession
  <1> QED
    BY <1>3, <1>4, <1>5, <1>6

LEMMA FrameSnapshot ==
    ASSUME SerialInv, NEW r \in Readers, ReadSnapshot(r)
    PROVE  OrderInv' /\ FrameInv'
  <1>0. TypeInv /\ FrameOf(r) /\ cursor \in [Readers -> 0..MaxId]
    BY DEF SerialInv, HubInv, FrameInv, TypeInv, TypeOK
  <1>1. /\ UNCHANGED <<logVars, thread>> /\ reader[r].mark \in Known(r) /\ Leaves(r)
        /\ Deliver(r, {i \in Rows(thread[r]) : i <= reader[r].mark})
        /\ cursor' = [cursor EXCEPT ![r] = reader[r].mark]
    BY <1>0 DEF ReadSnapshot, At, FrameOf
  <1>2. Rows(thread[r])' = Rows(thread[r]) /\ Frames(thread[r])' = Frames(thread[r])
    BY <1>1 DEF Rows, Frames, logVars
  <1>3. Others(r) /\ reader'[r] = Away
    BY <1>0, <1>1, LeavesFacts DEF Others
  <1>4. /\ cursor'[r] = reader[r].mark
        /\ \A p \in Readers \ {r} : cursor'[p] = cursor[p] /\ got'[p] = got[p]
    BY <1>0, <1>1, DeliverFacts
  <1>5. \A i \in Frames(thread[r]) : i <= reader[r].mark => got'[r][i] > 0
    BY <1>0, <1>1, DeliverFacts, RowsNat
  <1>6. FrameOf(r)'
    BY <1>1, <1>2, <1>3, <1>4, <1>5 DEF FrameOf, Known, Holds, InSession, Away
  <1> QED
    BY <1>1, <1>3, <1>4, <1>6, FrameOthers

LEMMA FrameYield ==
    ASSUME SerialInv, NEW r \in Readers, Yield(r)
    PROVE  OrderInv' /\ FrameInv'
  <1>0. /\ TypeInv /\ FrameOf(r) /\ WakeOf(r) /\ cursor \in [Readers -> 0..MaxId]
        /\ reader[r].pc = "yield" /\ InSession(r) /\ UNCHANGED <<logVars, thread>>
    BY DEF SerialInv, HubInv, FrameInv, WakeInv, TypeInv, TypeOK, Yield, At, InSession
  <1>1. PICK i \in reader[r].batch :
             /\ \A j \in reader[r].batch : i <= j
             /\ IF log[i].kind = "prompt" THEN UNCHANGED <<cursor, got>>
                ELSE Deliver(r, {i}) /\ cursor' = [cursor EXCEPT ![r] = i]
             /\ Others(r)
             /\ \/ /\ reader'[r].pc = reader[r].pc
                   /\ reader'[r].sent = i /\ reader'[r].batch = reader[r].batch \ {i}
                \/ reader'[r] = Away
                \/ /\ reader'[r].pc = "closing"
                   /\ reader'[r].sent = reader[r].sent /\ reader'[r].batch = reader[r].batch
    BY <1>0, YieldFacts, Zenon
  <1>2. Rows(thread[r])' = Rows(thread[r]) /\ Frames(thread[r])' = Frames(thread[r])
    BY <1>0 DEF Rows, Frames, logVars
  <1>3. /\ i \in Rows(thread[r]) /\ i > reader[r].sent /\ reader[r].sent \in Nat
        /\ reader[r].batch \subseteq Rows(thread[r])
        /\ Rows(thread[r]) \subseteq Nat /\ Frames(thread[r]) \subseteq Rows(thread[r])
    BY <1>0, RowsNat DEF FrameOf, WakeOf, Known
  <1>4. \A j \in Rows(thread[r]) : j > reader[r].sent /\ j <= i => j = i
    <2> SUFFICES ASSUME NEW j \in Rows(thread[r]), j > reader[r].sent, j <= i PROVE j = i
      OBVIOUS
    <2>1. CASE j \in reader[r].batch
      BY <1>1, <1>3, <2>1
    <2>2. CASE j \notin reader[r].batch
      BY <1>0, <1>3, <2>2 DEF FrameOf
    <2> QED
      BY <2>1, <2>2
  <1>5. \A j \in Frames(thread[r]) : got[r][j] > 0 => got'[r][j] > 0
    <2>1. CASE got' = got
      BY <2>1
    <2>2. CASE Deliver(r, {i})
      BY <1>0, <2>2, DeliverFacts, RowsNat
    <2> QED
      BY <1>1, <2>1, <2>2
  <1>6. \A j \in Frames(thread[r]) : j <= i => got'[r][j] > 0
    <2> SUFFICES ASSUME NEW j \in Frames(thread[r]), j <= i PROVE got'[r][j] > 0
      OBVIOUS
    <2>1. CASE j <= reader[r].sent
      BY <1>0, <1>5, <2>1 DEF FrameOf, Holds
    <2>2. CASE ~(j <= reader[r].sent)
      <3>1. j = i
        BY <1>3, <1>4, <2>2
      <3>2. Deliver(r, {i})
        BY <1>1, <3>1 DEF Frames
      <3> QED
        BY <1>0, <3>1, <3>2, DeliverFacts, RowsNat
    <2> QED
      BY <2>1, <2>2
  <1>7. cursor'[r] \in {cursor[r], i}
    BY <1>0, <1>1
  <1>8. \A p \in Readers \ {r} : cursor'[p] = cursor[p] /\ got'[p] = got[p]
    BY <1>0, <1>1, DeliverFacts
  <1>9. \A j \in Frames(thread[r]) : j <= cursor'[r] => got'[r][j] > 0
    BY <1>0, <1>5, <1>6, <1>7 DEF FrameOf, Holds
  <1>10. cursor'[r] \in Known(r) /\ i \in Known(r) /\ 0 \in Known(r)
    BY <1>0, <1>3, <1>7 DEF FrameOf, Known
  <1>11. FrameOf(r)'
    <2>1. CASE /\ reader'[r].pc = reader[r].pc
               /\ reader'[r].sent = i /\ reader'[r].batch = reader[r].batch \ {i}
      <3>1. \A j \in Rows(thread[r]), k \in reader'[r].batch :
              j > i /\ j \notin reader'[r].batch => k < j
        BY <1>0, <1>3, <2>1 DEF FrameOf
      <3> QED
        BY <1>0, <1>2, <1>3, <1>6, <1>9, <1>10, <2>1, <3>1 DEF FrameOf, Known, Holds, InSession
    <2>2. CASE reader'[r] = Away
      BY <1>0, <1>2, <1>9, <1>10, <2>2 DEF FrameOf, Known, Holds, InSession, Away
    <2>3. CASE /\ reader'[r].pc = "closing"
               /\ reader'[r].sent = reader[r].sent /\ reader'[r].batch = reader[r].batch
      BY <1>0, <1>2, <1>9, <1>10, <2>3 DEF FrameOf, Known, Holds, InSession
    <2> QED
      BY <1>1, <2>1, <2>2, <2>3
  <1> QED
    BY <1>0, <1>1, <1>8, <1>11, FrameOthers

LEMMA FrameFlush ==
    ASSUME SerialInv, ~Overlap, NEW w \in Writers, NEW t \in Threads, NEW k \in Kinds, Flush(w, t, k)
    PROVE  OrderInv' /\ FrameInv'
  <1>0. /\ TypeInv /\ log \in Seq([thread : Threads, kind : Kinds]) /\ open \in [Writers -> 0..MaxId]
        /\ MaxId \in Nat /\ Len(log) \in Nat /\ \A v \in Writers : open[v] <= Len(log)
    BY BoundAssumption, LenProperties DEF SerialInv, HubInv, TypeInv, TypeOK
  <1>1. /\ open[w] = 0 /\ open' = [open EXCEPT ![w] = Len(log) + 1]
        /\ log' = Append(log, [thread |-> t, kind |-> k])
        /\ \A v \in Writers : open[v] # 0 => log[open[v]].thread # t
        /\ UNCHANGED <<committed, reader, thread, cursor, got>>
    BY DEF Flush, readVars
  <1>2. /\ \A u : Rows(u)' = Rows(u)
        /\ \A i \in committed : log'[i] = log[i]
    BY <1>0, RowsFlush
  <1>3. \A u : Frames(u)' = Frames(u)
    BY <1>2 DEF Frames, Rows
  <1>4. FrameInv'
    BY <1>1, <1>2, <1>3 DEF SerialInv, FrameInv, FrameOf, Known, Holds, InSession
  <1>5. /\ log'[Len(log) + 1].thread = t
        /\ \A i \in 1..Len(log) : log'[i] = log[i]
    BY <1>0, <1>1, AppendProperties
  <1>6. OrderInv'
    <2> SUFFICES ASSUME NEW v \in Writers, open'[v] # 0
                 PROVE  /\ \A u \in Writers : open'[u] # 0
                             /\ log'[open'[u]].thread = log'[open'[v]].thread => u = v
                        /\ \A i \in Rows(log'[open'[v]].thread) : i < open'[v]
      BY <1>2 DEF OrderInv
    <2>1. \A u \in Writers \ {w} : open'[u] = open[u]
             /\ (open[u] # 0 => log'[open[u]] = log[open[u]] /\ log[open[u]].thread # t)
      BY <1>0, <1>1, <1>5
    <2>2. open'[w] = Len(log) + 1 /\ log'[open'[w]].thread = t
      BY <1>0, <1>1, <1>5
    <2>3. CASE v = w
      <3>1. \A i \in Rows(t) : i < Len(log) + 1
        BY <1>0, RowsNat
      <3> QED
        BY <2>1, <2>2, <2>3, <3>1
    <2>4. CASE v # w
      BY <2>1, <2>2, <2>4 DEF SerialInv, OrderInv
    <2> QED
      BY <2>3, <2>4
  <1> QED
    BY <1>4, <1>6

LEMMA FrameCommit ==
    ASSUME SerialInv, NEW w \in Writers, Commit(w)
    PROVE  OrderInv' /\ FrameInv'
  <1> DEFINE n == open[w]
             t == log[n].thread
  <1>0. /\ TypeInv /\ open \in [Writers -> 0..MaxId] /\ n \in Nat /\ n # 0 /\ n > 0
        /\ MaxId \in Nat
    BY BoundAssumption DEF SerialInv, HubInv, TypeInv, TypeOK, Commit
  <1>1. /\ committed' = committed \cup {n} /\ open' = [open EXCEPT ![w] = 0]
        /\ UNCHANGED <<log, reader, thread, cursor, got>>
    BY DEF Commit, readVars
  <1>2. /\ \A v \in Writers : open[v] # 0 /\ log[open[v]].thread = t => v = w
        /\ \A i \in Rows(t) : i < n
    BY <1>0 DEF SerialInv, OrderInv
  <1> HIDE DEF n, t
  <1>3. \A u : Rows(u)' \subseteq Rows(u) \cup (IF u = t THEN {n} ELSE {})
    BY <1>1 DEF Rows, t
  <1>4. \A u : Rows(u) \subseteq Rows(u)'
    BY <1>1 DEF Rows
  <1>5. \A u : Frames(u)' \subseteq Frames(u) \cup (IF u = t THEN {n} ELSE {})
    BY <1>1 DEF Frames, Rows, t
  <1>6. OrderInv'
    <2> SUFFICES ASSUME NEW v \in Writers, open'[v] # 0,
                        NEW s, s = log'[open'[v]].thread
                 PROVE  /\ \A u \in Writers : open'[u] # 0 /\ log'[open'[u]].thread = s => u = v
                        /\ \A i \in Rows(s)' : i < open'[v]
      BY DEF OrderInv
    <2>1. v # w /\ open'[v] = open[v] /\ \A u \in Writers : open'[u] # 0 => open'[u] = open[u]
      BY <1>0, <1>1
    <2>2. s = log[open[v]].thread /\ log' = log
      BY <1>1, <2>1
    <2>3. s # t
      BY <1>2, <2>1, <2>2
    <2>4. Rows(s)' = Rows(s)
      BY <1>3, <1>4, <2>3
    <2> QED
      BY <2>1, <2>2, <2>4 DEF SerialInv, OrderInv
  <1>7. ASSUME NEW r \in Readers PROVE FrameOf(r)'
    <2>0. /\ FrameOf(r) /\ Rows(thread[r]) \subseteq Nat
          /\ reader'[r] = reader[r] /\ thread'[r] = thread[r] /\ cursor'[r] = cursor[r]
          /\ got'[r] = got[r]
      BY <1>0, <1>1, RowsNat DEF SerialInv, FrameInv
    <2>1. Known(r) \subseteq Known(r)' /\ Rows(thread[r]) \subseteq Rows(thread[r])'
      BY <1>4, <2>0 DEF Known
    <2>2. \A m \in Known(r) : thread[r] = t => m < n
      BY <1>0, <1>2 DEF Known
    <2>3. \A m \in Known(r) : Holds(r, m) => Holds(r, m)'
      <3> SUFFICES ASSUME NEW m \in Known(r), Holds(r, m), NEW i \in Frames(thread[r])', i <= m
                   PROVE  got[r][i] > 0
        BY <2>0 DEF Holds
      <3>1. m \in Nat
        BY <2>0 DEF Known
      <3>2. i \in Frames(thread[r])
        BY <1>0, <1>5, <2>0, <2>2, <3>1
      <3> QED
        BY <3>2 DEF Holds
    <2>4. reader[r].pc = "yield" =>
            \A j \in Rows(thread[r])', i \in reader[r].batch :
               j > reader[r].sent /\ j \notin reader[r].batch => i < j
      <3> SUFFICES ASSUME reader[r].pc = "yield", NEW j \in Rows(thread[r])',
                          NEW i \in reader[r].batch, j > reader[r].sent, j \notin reader[r].batch
                   PROVE  i < j
        OBVIOUS
      <3>1. i \in Rows(thread[r])
        BY <2>0 DEF FrameOf
      <3>2. CASE j \in Rows(thread[r])
        BY <2>0, <3>2 DEF FrameOf
      <3>3. CASE j = n /\ thread[r] = t
        BY <1>2, <3>1, <3>3
      <3> QED
        BY <1>3, <2>0, <3>2, <3>3
    <2> QED
      BY <2>0, <2>1, <2>3, <2>4 DEF FrameOf, InSession
  <1> QED
    BY <1>6, <1>7 DEF FrameInv

LEMMA FrameRollback ==
    ASSUME SerialInv, NEW w \in Writers, Rollback(w)
    PROVE  OrderInv' /\ FrameInv'
  <1>1. /\ UNCHANGED <<log, committed, reader, thread, cursor, got>>
        /\ open' = [open EXCEPT ![w] = 0] /\ open \in [Writers -> 0..MaxId]
    BY DEF Rollback, readVars, SerialInv, HubInv, TypeInv, TypeOK
  <1>2. \A t : Rows(t)' = Rows(t) /\ Frames(t)' = Frames(t)
    BY <1>1 DEF Rows, Frames
  <1>3. \A v \in Writers : open'[v] # 0 => open'[v] = open[v]
    BY <1>1
  <1>4. OrderInv'
    BY <1>1, <1>2, <1>3 DEF SerialInv, OrderInv
  <1>5. FrameInv'
    BY <1>1, <1>2 DEF SerialInv, FrameInv, FrameOf, Known, Holds, InSession
  <1> QED
    BY <1>4, <1>5

\* Where the transactions of a thread follow one another, a client that resumes
\* from its cursor, however often, holds every frame up to it
\* (event_stream.replay_and_tail; PROTOCOL.md 2).
THEOREM NothingSkippedSerially ==
    ASSUME ~Overlap
    PROVE  Spec => []NothingSkipped
  <1>1. Init => SerialInv
    BY HubInit, WakeInit, CursorInit, SerialInit DEF SerialInv
  <1>2. SerialInv /\ [Next]_vars => SerialInv'
    <2> SUFFICES ASSUME SerialInv, [Next]_vars PROVE SerialInv'
      OBVIOUS
    <2>0. TypeInv
      BY DEF SerialInv, HubInv
    <2>1. HubInv' /\ WakeInv' /\ CursorInv'
      BY HubStep, WakeStep, CursorStep DEF SerialInv
    <2>2. ASSUME NEW w \in Writers, Write(w) PROVE OrderInv' /\ FrameInv'
      BY <2>2, FrameFlush, FrameCommit, FrameRollback DEF Write
    <2>3. ASSUME NEW r \in Readers,
                 FindDone(r) \/ FindPrompt(r) \/ ReadSnapshot(r) \/ Connect(r) \/ Fetch(r) \/ Yield(r)
          PROVE  OrderInv' /\ FrameInv'
      BY <2>3, FrameReads, FrameSnapshot, FrameYield
    <2>4. ASSUME Hubs \/ UNCHANGED vars \/ \E r \in Readers : Moves(r)
          PROVE  OrderInv' /\ FrameInv'
      BY <2>0, <2>4, PassiveSteps, FramePassive
    <2> QED
      BY <2>1, <2>2, <2>3, <2>4, NextSplit DEF SerialInv
  <1>3. SerialInv => NothingSkipped
    BY DEF SerialInv, FrameInv, FrameOf, Holds, NothingSkipped
  <1> QED
    BY <1>1, <1>2, <1>3, PTL DEF Spec
===============================================================================
