------------------------------- MODULE EventTail -------------------------------
(***************************************************************************)
(* The event log of the threads and the readers that tail it: writers       *)
(* append a row and notify its channel when the transaction commits; a       *)
(* reader replays the rows after its cursor, subscribes to the channel,      *)
(* sweeps once more and then fetches on every wake. All readers of a         *)
(* process share one LISTEN connection, the hub's, which may be lost.        *)
(*                                                                         *)
(* Code: conversation/event_writer.py, conversation/event_stream.py and     *)
(* conversation/listen_hub.py of assistant-core.                            *)
(***************************************************************************)
EXTENDS Naturals, Sequences

CONSTANTS
    Threads,    \* conversations
    Readers,    \* event-stream requests of this process
    Writers,    \* transactions that append to the log
    Hub,        \* the relisten task, as a holder of the hub's guard
    Nobody,     \* nobody holds the guard
    Kinds,      \* the kinds of rows this instance writes
    MaxId,      \* how many rows are written
    MaxDrops,   \* how often a database connection is lost or refused
    Overlap     \* whether two transactions of one thread may be open together

RowKinds == {"chunk", "done", "prompt", "task"}

ASSUME HolderAssumption ==
    Hub \notin Readers /\ Nobody \notin Readers \cup {Hub}
ASSUME BoundAssumption ==
    /\ MaxId \in Nat /\ MaxDrops \in Nat
    /\ Kinds \subseteq RowKinds /\ Overlap \in BOOLEAN

Ids == 1..MaxId

VARIABLES
    log,        \* the rows by id, committed or not: [thread, kind]
    committed,  \* the ids a SELECT sees
    open,       \* the id a writer has flushed and not committed, 0 for none
    reader,     \* what each request is doing
    thread,     \* the thread each request reads
    cursor,     \* the last cursor the client of a request has seen
    got,        \* how often that client received each row
    conn,       \* the hub's connection
    lost,       \* its termination callback is scheduled
    listening,  \* the channels LISTENed on the connection, or on the one opening
    wire,       \* channels with a notification on its way
    subs,       \* the queues of each channel, named by their reader
    woken,      \* the readers whose queue is not empty
    guard,      \* the holder of the hub's lock
    todo,       \* the channels the opening connection has still to LISTEN
    relisten,   \* the relisten task is running
    drops       \* connections lost or refused so far

logVars  == <<log, committed, open>>
hubVars  == <<conn, lost, listening, subs, guard, todo, relisten, drops>>
readVars == <<reader, thread, cursor, got>>
vars == <<logVars, readVars, hubVars, wire, woken>>

PC == {"away", "prompt", "rows", "fetch", "yield", "subscribe", "open", "arm",
       "wait", "closing", "unlisten"}

\* sent: last_sent. batch: rows fetched and not yielded. phase: which of the
\* three reads the batch belongs to. mark: the boundary a snapshot has found.
Request == [pc : PC, sent : 0..MaxId, batch : SUBSET Ids,
            phase : {"replay", "sweep", "tail"}, mark : 0..MaxId]

Away == [pc |-> "away", sent |-> 0, batch |-> {}, phase |-> "replay", mark |-> 0]

TypeOK ==
    /\ log \in Seq([thread : Threads, kind : Kinds]) /\ Len(log) <= MaxId
    /\ committed \subseteq DOMAIN log
    /\ open \in [Writers -> 0..MaxId]
    /\ reader \in [Readers -> Request]
    /\ thread \in [Readers -> Threads]
    /\ cursor \in [Readers -> 0..MaxId]
    /\ got \in [Readers -> [Ids -> Nat]]
    /\ conn \in {"none", "up", "dead", "opening", "broken"}
    /\ lost \in BOOLEAN
    /\ listening \subseteq Threads
    /\ wire \subseteq Threads
    /\ subs \in [Threads -> SUBSET Readers]
    /\ woken \subseteq Readers
    /\ guard \in Readers \cup {Hub, Nobody}
    /\ todo \subseteq Threads
    /\ relisten \in BOOLEAN
    /\ drops \in 0..MaxDrops

Init ==
    /\ log = <<>> /\ committed = {} /\ open = [w \in Writers |-> 0]
    /\ reader = [r \in Readers |-> Away]
    /\ thread \in [Readers -> Threads]
    /\ cursor = [r \in Readers |-> 0]
    /\ got = [r \in Readers |-> [i \in Ids |-> 0]]
    /\ conn = "none" /\ lost = FALSE /\ listening = {} /\ wire = {}
    /\ subs = [t \in Threads |-> {}] /\ woken = {}
    /\ guard = Nobody /\ todo = {} /\ relisten = FALSE /\ drops = 0

-----------------------------------------------------------------------------
(* Helpers *)

At(r, s)      == reader[r].pc = s
Becomes(r, q) == reader' = [reader EXCEPT ![r] = q]
Goto(r, s)    == Becomes(r, [reader[r] EXCEPT !.pc = s])
Leaves(r)     == Becomes(r, Away)

Deliver(r, S) == got' = [got EXCEPT ![r] = [i \in Ids |-> @[i] + (IF i \in S THEN 1 ELSE 0)]]

\* Rows a chat stream reads: those of the thread no task stream owns.
Rows(t) == {i \in committed : log[i].thread = t /\ log[i].kind # "task"}

\* Rows that become frames: prompts reach a client in a snapshot only.
Frames(t) == {i \in Rows(t) : log[i].kind # "prompt"}

-----------------------------------------------------------------------------
(* append_chunk *)

\* The flush draws the row's id; the transaction stays open.
Flush(w, t, k) ==
    /\ open[w] = 0 /\ Len(log) < MaxId
    /\ Overlap \/ \A v \in Writers : open[v] # 0 => log[open[v]].thread # t
    /\ log' = Append(log, [thread |-> t, kind |-> k])
    /\ open' = [open EXCEPT ![w] = Len(log) + 1]
    /\ UNCHANGED <<committed, readVars, hubVars, wire, woken>>

\* The commit shows the row and sends the notification to whoever listens.
Commit(w) ==
    /\ open[w] # 0
    /\ committed' = committed \cup {open[w]}
    /\ open' = [open EXCEPT ![w] = 0]
    /\ wire' = IF log[open[w]].thread \in listening THEN wire \cup {log[open[w]].thread}
               ELSE wire
    /\ UNCHANGED <<log, readVars, hubVars, woken>>

\* The writer's connection is lost before the commit: the id is drawn and never
\* used. The bound on losses counts it.
Rollback(w) ==
    /\ open[w] # 0 /\ drops < MaxDrops
    /\ drops' = drops + 1
    /\ open' = [open EXCEPT ![w] = 0]
    /\ UNCHANGED <<log, committed, readVars, conn, lost, listening, subs, guard, todo, relisten,
                   wire, woken>>

-----------------------------------------------------------------------------
(* The snapshot: three reads, each of what is committed by then *)

\* The terminators a snapshot may end at; 0 when the thread has none.
Boundaries(t) == {0} \cup {i \in Rows(t) : log[i].kind = "done"}

Prompts(r) == {i \in Rows(thread[r]) : i > reader[r].mark /\ log[i].kind = "prompt"}

FindDone(r) ==
    /\ At(r, "away") /\ cursor[r] = 0
    /\ \E last \in Boundaries(thread[r]) :
          /\ \A i \in Boundaries(thread[r]) : i <= last
          /\ Becomes(r, [reader[r] EXCEPT !.pc = "prompt", !.mark = last])
    /\ UNCHANGED <<logVars, thread, cursor, got, hubVars, wire, woken>>

FindPrompt(r) ==
    /\ At(r, "prompt")
    /\ IF Prompts(r) = {} THEN Goto(r, "rows")
       ELSE \E first \in Prompts(r) :
               /\ \A i \in Prompts(r) : first <= i
               /\ Becomes(r, [reader[r] EXCEPT !.pc = "rows", !.mark = first])
    /\ UNCHANGED <<logVars, thread, cursor, got, hubVars, wire, woken>>

\* Mutant: the tail continues after the newest row of the log.
ReadSnapshotLatest(r) ==
    /\ At(r, "rows")
    /\ Deliver(r, {i \in Rows(thread[r]) : i <= reader[r].mark})
    /\ cursor' = [cursor EXCEPT ![r] = Len(log)]
    /\ Leaves(r)
    /\ UNCHANGED <<logVars, thread, hubVars, wire, woken>>

ReadSnapshot(r) ==
    /\ At(r, "rows")
    /\ Deliver(r, {i \in Rows(thread[r]) : i <= reader[r].mark})
    /\ cursor' = [cursor EXCEPT ![r] = reader[r].mark]
    /\ Leaves(r)
    /\ UNCHANGED <<logVars, thread, hubVars, wire, woken>>

-----------------------------------------------------------------------------
(* replay_and_tail *)

\* The client asks for what follows its cursor.
Connect(r) ==
    /\ At(r, "away")
    /\ Becomes(r, [Away EXCEPT !.pc = "fetch", !.sent = cursor[r]])
    /\ UNCHANGED <<logVars, thread, cursor, got, hubVars, wire, woken>>

\* Mutant: the fetch includes the row last sent.
FetchFrom(r) ==
    /\ At(r, "fetch")
    /\ Becomes(r, [reader[r] EXCEPT !.pc = "yield",
                                    !.batch = {i \in Rows(thread[r]) : i >= reader[r].sent}])
    /\ UNCHANGED <<logVars, thread, cursor, got, hubVars, wire, woken>>

Fetch(r) ==
    /\ At(r, "fetch")
    /\ Becomes(r, [reader[r] EXCEPT !.pc = "yield",
                                    !.batch = {i \in Rows(thread[r]) : i > reader[r].sent}])
    /\ UNCHANGED <<logVars, thread, cursor, got, hubVars, wire, woken>>

\* One row of the batch: a frame for the client unless it is a prompt. The
\* stream ends with the turn it reads.
Yield(r) ==
    /\ At(r, "yield")
    /\ \E i \in reader[r].batch :
          /\ \A j \in reader[r].batch : i <= j
          /\ IF log[i].kind = "prompt" THEN UNCHANGED <<cursor, got>>
             ELSE Deliver(r, {i}) /\ cursor' = [cursor EXCEPT ![r] = i]
          /\ IF log[i].kind # "done"
             THEN Becomes(r, [reader[r] EXCEPT !.sent = i, !.batch = @ \ {i}])
             ELSE IF reader[r].phase = "replay" THEN Leaves(r) ELSE Goto(r, "closing")
    /\ UNCHANGED <<logVars, thread, hubVars, wire, woken>>

\* The batch is sent: the replay goes on to subscribe, the other reads to wait.
Sent(r) ==
    /\ At(r, "yield") /\ reader[r].batch = {}
    /\ Goto(r, IF reader[r].phase = "replay" THEN "subscribe" ELSE "wait")
    /\ UNCHANGED <<logVars, thread, cursor, got, hubVars, wire, woken>>

\* A wake empties the queue, then the rows are fetched.
Drain(r) ==
    /\ At(r, "wait") /\ r \in woken
    /\ woken' = woken \ {r}
    /\ Becomes(r, [reader[r] EXCEPT !.pc = "fetch", !.phase = "tail"])
    /\ UNCHANGED <<logVars, thread, cursor, got, hubVars, wire>>

\* The client drops the response.
Hangup(r) ==
    /\ reader[r].pc \in {"fetch", "yield", "wait"}
    /\ IF reader[r].phase = "replay" THEN Leaves(r) ELSE Goto(r, "closing")
    /\ UNCHANGED <<logVars, thread, cursor, got, hubVars, wire, woken>>

-----------------------------------------------------------------------------
(* The hub: subscribe, unsubscribe, the connection *)

Channels == {t \in Threads : subs[t] # {}}

\* async with self._guard
TakeGuard(p) == guard = Nobody /\ guard' = p

\* _open finds the connection open.
OpenFound(r) ==
    /\ At(r, "subscribe") /\ TakeGuard(r) /\ conn = "up"
    /\ Goto(r, "arm")
    /\ UNCHANGED <<logVars, thread, cursor, got, conn, lost, listening, subs, todo, relisten,
                   drops, wire, woken>>

OpenNeeded(r) ==
    /\ At(r, "subscribe") /\ TakeGuard(r) /\ conn # "up"
    /\ Goto(r, "open")
    /\ UNCHANGED <<logVars, thread, cursor, got, conn, lost, listening, subs, todo, relisten,
                   drops, wire, woken>>

\* The step after _open, for whoever holds the guard: a reader goes on to its
\* own channel, the relisten task wakes every queue and ends.
OpenedBy(p) ==
    IF p = Hub
    THEN /\ woken' = woken \cup UNION {subs[t] : t \in Threads}
         /\ relisten' = FALSE /\ guard' = Nobody
         /\ UNCHANGED reader
    ELSE /\ Goto(p, "arm")
         /\ UNCHANGED <<woken, relisten, guard>>

Opening(p) == guard = p /\ IF p = Hub THEN relisten ELSE At(p, "open")

\* asyncpg.connect, slower than the callback of a connection lost before it.
Dial(p) ==
    /\ Opening(p) /\ conn \in {"none", "dead"} /\ ~lost
    /\ listening' = {} /\ wire' = {}
    /\ todo' = Channels
    /\ IF Channels = {} THEN conn' = "up" /\ OpenedBy(p)
       ELSE conn' = "opening" /\ UNCHANGED <<woken, relisten, guard, reader>>
    /\ UNCHANGED <<logVars, thread, cursor, got, lost, subs, drops>>

\* One LISTEN of the channels that have readers. After the last the connection
\* is the hub's and its opener goes on, with no await between.
ListenTo(p, t) ==
    /\ Opening(p) /\ conn = "opening" /\ t \in todo
    /\ todo' = todo \ {t}
    /\ listening' = listening \cup {t}
    /\ IF todo = {t} THEN conn' = "up" /\ OpenedBy(p)
       ELSE UNCHANGED <<conn, woken, relisten, guard, reader>>
    /\ UNCHANGED <<logVars, thread, cursor, got, lost, subs, drops, wire>>

\* Connecting is refused, or the opening connection broke: a reader's request
\* ends, the relisten task sleeps and tries again.
OpenFails(p) ==
    /\ Opening(p)
    /\ \/ conn = "broken" /\ conn' = "none" /\ UNCHANGED drops
       \/ conn \in {"none", "dead"} /\ drops < MaxDrops /\ drops' = drops + 1 /\ UNCHANGED conn
    /\ guard' = Nobody /\ todo' = {}
    /\ IF p = Hub THEN UNCHANGED reader ELSE Leaves(p)
    /\ UNCHANGED <<logVars, thread, cursor, got, lost, listening, subs, relisten, wire, woken>>

\* Mutant: no sweep after the LISTEN.
ArmNoSweep(r) ==
    /\ At(r, "arm")
    /\ conn = "up" \/ subs[thread[r]] # {}
    /\ listening' = IF subs[thread[r]] = {} THEN listening \cup {thread[r]} ELSE listening
    /\ subs' = [subs EXCEPT ![thread[r]] = @ \cup {r}]
    /\ guard' = Nobody
    /\ Becomes(r, [reader[r] EXCEPT !.pc = "wait", !.phase = "tail"])
    /\ UNCHANGED <<logVars, thread, cursor, got, conn, lost, todo, relisten, drops, wire, woken>>

\* The rest of subscribe: LISTEN, unless the channel has a reader already.
Arm(r) ==
    /\ At(r, "arm")
    /\ conn = "up" \/ subs[thread[r]] # {}
    /\ listening' = IF subs[thread[r]] = {} THEN listening \cup {thread[r]} ELSE listening
    /\ subs' = [subs EXCEPT ![thread[r]] = @ \cup {r}]
    /\ guard' = Nobody
    /\ Becomes(r, [reader[r] EXCEPT !.pc = "fetch", !.phase = "sweep"])
    /\ UNCHANGED <<logVars, thread, cursor, got, conn, lost, todo, relisten, drops, wire, woken>>

\* LISTEN on a lost connection raises, and the request ends.
ArmFails(r) ==
    /\ At(r, "arm") /\ conn # "up" /\ subs[thread[r]] = {}
    /\ guard' = Nobody
    /\ Leaves(r)
    /\ UNCHANGED <<logVars, thread, cursor, got, conn, lost, listening, subs, todo, relisten,
                   drops, wire, woken>>

\* The client drops the response before its request has subscribed.
GiveUp(r) ==
    /\ reader[r].pc \in {"subscribe", "open", "arm"}
    /\ IF guard = r
       THEN /\ guard' = Nobody /\ todo' = {}
            /\ IF conn \in {"opening", "broken"}
               THEN conn' = "none" /\ listening' = {} /\ wire' = {}
               ELSE UNCHANGED <<conn, listening, wire>>
       ELSE UNCHANGED <<guard, todo, conn, listening, wire>>
    /\ Leaves(r)
    /\ UNCHANGED <<logVars, thread, cursor, got, lost, subs, relisten, drops, woken>>

\* Mutant: any reader that leaves ends the LISTEN of its channel.
UnsubscribeAll(r) ==
    /\ At(r, "closing") /\ guard = Nobody
    /\ subs' = [subs EXCEPT ![thread[r]] = @ \ {r}]
    /\ woken' = woken \ {r}
    /\ IF conn = "up" THEN guard' = r /\ Goto(r, "unlisten")
       ELSE UNCHANGED guard /\ Leaves(r)
    /\ UNCHANGED <<logVars, thread, cursor, got, conn, lost, listening, todo, relisten, drops, wire>>

\* unsubscribe: the last reader of a channel goes on to UNLISTEN it.
Unsubscribe(r) ==
    /\ At(r, "closing") /\ guard = Nobody
    /\ subs' = [subs EXCEPT ![thread[r]] = @ \ {r}]
    /\ woken' = woken \ {r}
    /\ IF subs[thread[r]] = {r} /\ conn = "up" THEN guard' = r /\ Goto(r, "unlisten")
       ELSE UNCHANGED guard /\ Leaves(r)
    /\ UNCHANGED <<logVars, thread, cursor, got, conn, lost, listening, todo, relisten, drops, wire>>

Unlisten(r) ==
    /\ At(r, "unlisten")
    /\ listening' = IF conn = "up" THEN listening \ {thread[r]} ELSE listening
    /\ guard' = Nobody
    /\ Leaves(r)
    /\ UNCHANGED <<logVars, thread, cursor, got, conn, lost, subs, todo, relisten, drops, wire, woken>>

\* The connection is lost, with the notifications on their way.
Drop ==
    /\ conn \in {"up", "opening"} /\ drops < MaxDrops
    /\ conn' = IF conn = "up" THEN "dead" ELSE "broken"
    /\ lost' = TRUE /\ listening' = {} /\ wire' = {}
    /\ drops' = drops + 1
    /\ UNCHANGED <<logVars, readVars, subs, guard, todo, relisten, woken>>

\* Mutant: a lost connection waits for the next subscriber.
LostUntilNext ==
    /\ lost
    /\ lost' = FALSE
    /\ conn' = IF conn = "dead" THEN "none" ELSE conn
    /\ UNCHANGED <<logVars, readVars, listening, subs, guard, todo, relisten, drops, wire, woken>>

\* _lost: a relisten task starts unless one runs or nobody listens.
Lost ==
    /\ lost
    /\ lost' = FALSE
    /\ conn' = IF conn = "dead" THEN "none" ELSE conn
    /\ relisten' = (relisten \/ Channels # {})
    /\ UNCHANGED <<logVars, readVars, listening, subs, guard, todo, drops, wire, woken>>

\* The relisten task ends when no channel has a reader, or takes the guard, which
\* it may have waited for since one had.
RelistenTakes ==
    /\ relisten /\ guard # Hub
    /\ \/ Channels = {} /\ relisten' = FALSE /\ UNCHANGED guard
       \/ TakeGuard(Hub) /\ UNCHANGED relisten
    /\ UNCHANGED <<logVars, readVars, conn, lost, listening, subs, todo, drops, wire, woken>>

\* Another opener was faster: the queues are woken and the task ends.
RelistenFinds ==
    /\ Opening(Hub) /\ conn = "up"
    /\ OpenedBy(Hub)
    /\ UNCHANGED <<logVars, thread, cursor, got, conn, lost, listening, subs, todo, drops, wire>>

\* _notified: every queue of the channel gets the id.
Notified(t) ==
    /\ t \in wire
    /\ wire' = wire \ {t}
    /\ woken' = woken \cup subs[t]
    /\ UNCHANGED <<logVars, readVars, hubVars>>

-----------------------------------------------------------------------------
Write(w) ==
    \/ \E t \in Threads, k \in Kinds : Flush(w, t, k)
    \/ Commit(w) \/ Rollback(w)

\* What a request does of its own accord once it is made.
Locks(r)  == OpenFound(r) \/ OpenNeeded(r) \/ Unsubscribe(r)
Serves(r) ==
    \/ FindPrompt(r) \/ ReadSnapshot(r)
    \/ Fetch(r) \/ Yield(r) \/ Sent(r) \/ Drain(r)
    \/ Arm(r) \/ ArmFails(r) \/ Unlisten(r)

Opens(p) == Dial(p) \/ (\E t \in Threads : ListenTo(p, t)) \/ OpenFails(p)

Client(r) == FindDone(r) \/ Connect(r) \/ Hangup(r) \/ GiveUp(r)

Next ==
    \/ \E w \in Writers : Write(w)
    \/ \E r \in Readers : Client(r) \/ Locks(r) \/ Serves(r) \/ Opens(r)
    \/ Opens(Hub) \/ Drop \/ Lost \/ RelistenTakes \/ RelistenFinds
    \/ \E t \in Threads : Notified(t)

Spec == Init /\ [][Next]_vars

\* The event loop runs what is ready, the hub's lock is first come first served,
\* and a connection stays lost only as often as the bound says.
FairSpec ==
    /\ Spec
    /\ \A r \in Readers : WF_vars(Serves(r)) /\ SF_vars(Locks(r)) /\ WF_vars(Opens(r))
    /\ WF_vars(Opens(Hub)) /\ WF_vars(Lost) /\ SF_vars(RelistenTakes) /\ WF_vars(RelistenFinds)
    /\ \A t \in Threads : WF_vars(Notified(t))
-----------------------------------------------------------------------------
(* Properties *)

\* A client that started from nothing or from a snapshot, and resumed from its
\* cursor however often, holds every frame of the thread up to its cursor
\* (event_stream.replay_and_tail, fetch_snapshot_chunks; PROTOCOL.md 2).
NothingSkipped ==
    \A r \in Readers : \A i \in Frames(thread[r]) : i <= cursor[r] => got[r][i] > 0

\* A client never receives a row at or before its cursor, so none twice, whoever
\* writes beside it (event_stream._fetch_after; PROTOCOL.md 4).
NeverRepeats ==
    [][\A r \in Readers : \A i \in Ids : got'[r][i] > got[r][i] => i > cursor[r]]_vars

Recovering == lost \/ relisten

\* A subscribed reader's channel is listened to, or a task that will listen to
\* it and wake the reader is under way (listen_hub.ListenHub).
NoDeafReader ==
    \A t \in Channels : (conn = "up" /\ t \in listening) \/ Recovering

\* A reader that waits with rows to send has a wake in its queue, on the wire or
\* owed by the relisten task: no row falls between the fetch and the LISTEN.
NoMissedWake ==
    \A r \in Readers :
        At(r, "wait") /\ (\E i \in Rows(thread[r]) : i > reader[r].sent)
            => r \in woken \/ thread[r] \in wire \/ Recovering

\* The hub's lock is held by someone who is in the middle of using it.
GuardIsUsed ==
    /\ guard \in Readers => reader[guard].pc \in {"open", "arm", "unlisten"}
    /\ guard = Hub => relisten

\* A request that is reading sends every committed row of its thread, or ends.
TailCatchesUp ==
    \A r \in Readers, i \in Ids :
        i \in Rows(thread[r]) /\ ~At(r, "away") ~> reader[r].sent >= i \/ At(r, "away")
=============================================================================
