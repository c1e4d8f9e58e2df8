---------------------------- MODULE ResumeTransport ----------------------------
(***************************************************************************)
(* A client that follows one thread through the AI SDK.                    *)
(*                                                                         *)
(* The host writes turns to the thread's log and serves tails and          *)
(* snapshots of it.  The client stores a cursor and the message it holds   *)
(* open; its transport turns tails, which end at each done, into the       *)
(* one-message streams the SDK reads; the resume loop opens each next      *)
(* message before it is read.  The SDK rebuilds a resumed message from     *)
(* empty and names it at its start.                                        *)
(*                                                                         *)
(* A cursor is an index of the log.  A message of the chat is its id and   *)
(* the indexes of the entries it was built from.                           *)
(***************************************************************************)
EXTENDS Naturals, Sequences, FiniteSets, SequencesExt

CONSTANTS MaxLog,     \* entries of the log
          MaxTexts,   \* parts written in one turn
          MaxFaults,  \* lost connections, stops and reloads
          None

\* A message's id: the user's messages and the assistant's are numbered apart.
User(n) == <<"user", n>>
Assistant(n) == <<"assistant", n>>
Unnamed == <<"unnamed", 0>>
Named == {"assistant"} \X Nat
Names == {"user", "assistant", "unnamed"} \X Nat

ASSUME ResumeBounds ==
    /\ {MaxLog, MaxTexts, MaxFaults} \subseteq Nat
    /\ None \notin Names

VARIABLES log,     \* the thread's entries
          host,    \* the turn the host runs, or what the thread waits for
          store,   \* the client's cursor and open message
          chat,    \* the SDK's messages
          tail,    \* the response the transport reads
          read,    \* the stream the SDK reads
          faults,  \* how many faults happened
          split    \* history: the messages whose connection was lost after a turn's
                  \* finish and before its done

vars == <<log, host, store, chat, tail, read, faults, split>>

Entry(k, x) == [k |-> k, x |-> x]
Blank == [m |-> Unnamed, seen |-> <<>>]
Parts == {"text", "gap"}

Messages == [m : Names, seen : Seq(Nat)]
Entries == [k : {"prompt"}, x : {"user"} \X Nat] \cup [k : {"start"}, x : Named]
           \cup [k : {"finish"}, x : {"stop", "other"}] \cup [k : {"text", "gap", "done"}, x : {None}]

TypeOK ==
    /\ log \in Seq(Entries)
    /\ host \in [open : BOOLEAN, m : Named \cup {None}, n : Nat, texts : Nat, prompted : BOOLEAN,
                 task : BOOLEAN, waits : {"nothing", "task", "answer"}]
    /\ store \in [cursor : Nat, open : [m : Named \cup {None}, after : Nat]]
    /\ chat \in Seq(Messages)
    /\ tail \in [up : BOOLEAN, at : Nat, from : Nat, ended : BOOLEAN]
    /\ read \in [by : {"nobody", "post", "resume"}, awaiting : Named \cup {None},
                 current : Named \cup {None}, through : Nat, buffering : BOOLEAN, reached : Nat,
                 msg : Messages]
    /\ faults \in 0..MaxFaults
    /\ split \subseteq Named

LastOf(from, to, K) ==
    LET S == {i \in from..to : log[i].k \in K} IN IF S = {} THEN 0 ELSE CHOOSE i \in S : \A j \in S : j <= i

FirstOf(from, to, K) ==
    LET S == {i \in from..to : log[i].k \in K} IN IF S = {} THEN 0 ELSE CHOOSE i \in S : \A j \in S : i <= j

\* The message the entry belongs to: the one whose start comes last before it.
Owner(i) == LET s == LastOf(1, i, {"start"}) IN IF s = 0 THEN Unnamed ELSE log[s].x

\* One payload into the message it builds.  A task's part has an id, and one that is
\* read again is updated where it stands.
ReadChunk(msg, i) ==
    CASE log[i].k = "start" -> [msg EXCEPT !.m = log[i].x]
      [] log[i].k = "text" \/ (log[i].k = "gap" /\ i \notin Range(msg.seen)) -> [msg EXCEPT !.seen = Append(@, i)]
      [] OTHER -> msg

----------------------------------------------------------------------------
\* What the host serves.

\* The message a prefix of the log leaves open, and the cursor before its start.
OpenMessageOf(upto) ==
    LET s == LastOf(1, upto, {"start"})
        Closes(i) == log[i].k = "finish" /\ log[i].x # "other"
        Ends(i) == Closes(i) \/ (log[i].k = "start" /\ log[i].x # log[s].x)
        since == {i \in 1..s : log[i].k = "start" /\ \A j \in i..s : ~Ends(j)}
    IN  IF s = 0 \/ \E i \in s..upto : Closes(i) THEN [m |-> None, after |-> 0]
        ELSE [m |-> log[s].x, after |-> (CHOOSE i \in since : \A j \in since : i <= j) - 1]

LatestTurnBoundary == LastOf(1, Len(log), {"done"})

\* The last done, or the prompt that waits after it.
LatestSnapshotBoundary ==
    LET prompt == FirstOf(LatestTurnBoundary + 1, Len(log), {"prompt"})
    IN  IF prompt # 0 THEN prompt ELSE LatestTurnBoundary

\* A tail is answered with 204 when nothing of the thread is in flight.
TurnInFlight == host.open \/ host.prompted \/ host.task

\* A message is kept once, where its id came first; pending is none or one.
Push(messages, pending) ==
    IF pending = <<>> \/ \E i \in DOMAIN messages : messages[i].m = pending[1].m THEN messages
    ELSE Append(messages, pending[1])

\* reduceSnapshot: cut at prompts and at starts of another message.
PlaceEntry(b, i) ==
    LET starts == log[i].k = "start" /\ b.pending # <<>> /\ b.pending[1].m \notin {Unnamed, log[i].x}
        p == IF starts \/ b.pending = <<>> THEN Blank ELSE b.pending[1]
    IN  IF log[i].k = "prompt"
        THEN [messages |-> Push(Push(b.messages, b.pending), <<[m |-> log[i].x, seen |-> <<>>]>>),
              pending |-> <<>>]
        ELSE [messages |-> IF starts THEN Push(b.messages, b.pending) ELSE b.messages,
              pending |-> <<ReadChunk(p, i)>>]

ReduceSnapshot(upto) ==
    LET built[i \in 0..upto] ==
            IF i = 0 THEN [messages |-> <<>>, pending |-> <<>>] ELSE PlaceEntry(built[i - 1], i)
    IN  Push(built[upto].messages, built[upto].pending)

----------------------------------------------------------------------------
\* The SDK's reader.

\* A write replaces the last message when it has the id, else adds one.
WriteMessage(messages, msg) ==
    IF messages # <<>> /\ Last(messages).m = msg.m
    THEN [messages EXCEPT ![Len(messages)] = msg]
    ELSE Append(messages, msg)

\* The payloads of one enqueue reach the chat together: a start or a part writes it.
Enqueue(messages, msg, built) == IF built = msg THEN messages ELSE WriteMessage(messages, built)

\* Mutant: what the SDK appended stays.
OneEntryPerIdNever(messages) == messages

\* The newest copy of a repeated id, at its first position.
OneEntryPerId(messages) ==
    LET Same(i, j) == messages[i].m = messages[j].m
        newest(i) == CHOOSE j \in DOMAIN messages :
                        Same(i, j) /\ \A k \in DOMAIN messages : Same(i, k) => k <= j
        kept[i \in 0..Len(messages)] ==
            IF i = 0 THEN <<>>
            ELSE IF \E j \in 1..(i - 1) : Same(i, j) THEN kept[i - 1]
            ELSE Append(kept[i - 1], messages[newest(i)])
    IN  kept[Len(messages)]

Opened(messages, m) ==
    IF \E i \in DOMAIN messages : messages[i].m = m THEN messages
    ELSE Append(messages, [m |-> m, seen |-> <<>>])

----------------------------------------------------------------------------
\* The client's cursor store.

Advance(s, i) == IF i <= s.cursor THEN s ELSE [s EXCEPT !.cursor = i]

OpenMessage(s, m) == IF s.open.m = m THEN s ELSE [s EXCEPT !.open = [m |-> m, after |-> s.cursor]]

\* Only a turn's terminator moves the cursor.
RecordFrameCursor(s, i) ==
    CASE log[i].k = "done" -> Advance(s, i)
      [] log[i].k = "start" -> OpenMessage(s, log[i].x)
      [] log[i].k = "finish" /\ log[i].x # "other" -> [s EXCEPT !.open = [m |-> None, after |-> 0]]
      [] OTHER -> s

----------------------------------------------------------------------------
\* The transport.

NoTail == [up |-> FALSE, at |-> 0, from |-> 0, ended |-> FALSE]
TailFrom(i) == [up |-> TRUE, at |-> i, from |-> i, ended |-> FALSE]

NoRead == [by |-> "nobody", awaiting |-> None, current |-> None, through |-> 0,
           buffering |-> FALSE, reached |-> 0, msg |-> Blank]

\* A stream the SDK reads, of the message it names when it names one.  msg is what
\* the accepted payloads build; while the stream buffers, none of it is shown.
Reader(by, m, through, msg) ==
    [by |-> by, awaiting |-> m, current |-> m, through |-> through,
     buffering |-> through > 0, reached |-> 0, msg |-> msg]

Reading == read.by # "nobody"

Flush(r, messages) ==
    IF ~r.buffering THEN [r |-> r, chat |-> messages]
    ELSE [r |-> [r EXCEPT !.buffering = FALSE], chat |-> Enqueue(messages, Blank, r.msg)]

\* Mutant: whatever was replayed reaches the chat.
FlushReplayedAlways(r, messages) == Flush(r, messages)

\* A prefix that stops before the client's cursor is dropped.
FlushReplayed(r, messages) ==
    IF r.reached >= r.through THEN Flush(r, messages) ELSE [r |-> r, chat |-> messages]

\* The next entry the server frames: it skips the prompts.
NextFrame == FirstOf(tail.at + 1, Len(log), {"start", "text", "gap", "finish", "done"})

\* Mutant: a resumed stream goes on into the next message.
HoldsNothing(r, i) == FALSE

\* A resumed stream holds the start of another message for the next one.
Holds(r, i) == r.by = "resume" /\ log[i].k = "start" /\ r.current \notin {None, log[i].x}

----------------------------------------------------------------------------
\* The host writes the log.

Init ==
    /\ log = <<>>
    /\ host = [open |-> FALSE, m |-> None, n |-> 0, texts |-> 0, prompted |-> FALSE,
               task |-> FALSE, waits |-> "nothing"]
    /\ store = [cursor |-> 0, open |-> [m |-> None, after |-> 0]]
    /\ chat = <<>>
    /\ tail = NoTail
    /\ read = NoRead
    /\ faults = 0
    /\ split = {}

client == <<store, chat, tail, read, faults, split>>

Write(entries) == Len(log) + Len(entries) <= MaxLog /\ log' = log \o entries

\* The message is logged, its turn waits in the queue.
Prompt ==
    /\ ~host.open /\ ~host.prompted
    /\ Write(<<Entry("prompt", User(host.n + 1))>>)
    /\ host' = [host EXCEPT !.prompted = TRUE]

StartTurn ==
    /\ host.prompted /\ ~host.open
    /\ Write(<<Entry("start", Assistant(host.n + 1))>>)
    /\ host' = [host EXCEPT !.open = TRUE, !.m = Assistant(host.n + 1), !.n = @ + 1, !.texts = 0,
                            !.prompted = FALSE, !.waits = "nothing"]
    /\ UNCHANGED client

WriteText ==
    /\ host.open /\ host.texts < MaxTexts
    /\ Write(<<Entry("text", None)>>)
    /\ host' = [host EXCEPT !.texts = @ + 1]
    /\ UNCHANGED client

\* A turn that waits for a task or for an answer ends with "other".
CloseTurn(waits) ==
    /\ host.open
    /\ waits = "task" => ~host.task
    /\ Write(<<Entry("finish", IF waits = "nothing" THEN "stop" ELSE "other"), Entry("done", None)>>)
    /\ host' = [host EXCEPT !.open = FALSE, !.waits = waits, !.texts = 0,
                            !.task = @ \/ waits = "task"]
    /\ UNCHANGED client

Progress ==
    /\ host.task /\ host.texts < MaxTexts
    /\ Write(<<Entry("gap", None)>>)
    /\ host' = [host EXCEPT !.texts = @ + 1]
    /\ UNCHANGED client

\* The task's turn has a message of its own; a superseded task has none.
TaskCompletes ==
    /\ host.task /\ ~host.open
    /\ IF host.waits = "task"
       THEN /\ Write(<<Entry("start", Assistant(host.n + 1))>>)
            /\ host' = [host EXCEPT !.open = TRUE, !.m = Assistant(host.n + 1), !.n = @ + 1,
                                    !.texts = 0, !.waits = "nothing", !.task = FALSE]
       ELSE UNCHANGED log /\ host' = [host EXCEPT !.task = FALSE]
    /\ UNCHANGED client

\* The turn that carries the answer continues the message.
ContinueTurn ==
    /\ host.waits = "answer" /\ ~host.prompted
    /\ Write(<<Entry("start", host.m)>>)
    /\ host' = [host EXCEPT !.open = TRUE, !.texts = 0, !.waits = "nothing"]

Elsewhere == (Prompt \/ ContinueTurn) /\ UNCHANGED client

----------------------------------------------------------------------------
\* What the client does.

\* A client sends once it has read to the last done.
UpToDate == store.cursor = LatestTurnBoundary

\* A message of this client is answered with a tail from the last done.
SendMessage ==
    /\ ~Reading /\ UpToDate
    /\ Prompt
    /\ chat' = Append(chat, [m |-> User(host.n + 1), seen |-> <<>>])
    /\ read' = Reader("post", None, 0, Blank)
    /\ tail' = TailFrom(LatestTurnBoundary)
    /\ UNCHANGED <<store, faults, split>>

\* An answer to the card of the last message: the SDK goes on with that message.
SendAnswer ==
    /\ ~Reading /\ UpToDate
    /\ chat # <<>> /\ Last(chat).m = host.m
    /\ ContinueTurn
    /\ read' = Reader("post", None, 0, Last(chat))
    /\ tail' = TailFrom(LatestTurnBoundary)
    /\ UNCHANGED <<store, chat, faults, split>>

\* The page is loaded: the snapshot, and the cursors it hands the store.
LoadSnapshot ==
    LET b == LatestSnapshotBoundary
    IN  /\ faults < MaxFaults
        /\ faults' = faults + 1
        /\ chat' = ReduceSnapshot(b)
        /\ store' = [cursor |-> IF b > store.cursor THEN b ELSE store.cursor, open |-> OpenMessageOf(b)]
        /\ tail' = NoTail
        /\ read' = NoRead
        /\ split' = {}
        /\ UNCHANGED <<log, host>>

ReconnectToStream ==
    LET open == store.open
    IN  /\ ~Reading
        /\ TurnInFlight
        /\ tail' = TailFrom(IF open.m # None THEN open.after ELSE store.cursor)
        /\ read' = Reader("resume", open.m, IF open.m = None THEN 0 ELSE store.cursor, Blank)
        /\ UNCHANGED <<log, host, store, chat, faults, split>>

\* Before its message's start, nothing of the tail is taken.
SkipFrame(r, messages, i) ==
    /\ read' = r
    /\ chat' = messages
    /\ tail' = [tail EXCEPT !.at = i, !.ended = log[i].k = "done"]
    /\ UNCHANGED store

\* The stream ends, and the resume loop opens the message the next one reads.
HoldTurn(r, messages, i) ==
    /\ chat' = Opened(OneEntryPerId(FlushReplayed(r, messages).chat), log[i].x)
    /\ read' = Reader("resume", log[i].x, 0, Blank)
    /\ tail' = [tail EXCEPT !.at = i - 1]

AcceptFrame(r, messages, i) ==
    LET built == ReadChunk(r.msg, i)
    IN  /\ tail' = [tail EXCEPT !.at = i, !.ended = log[i].k = "done"]
        /\ read' = [r EXCEPT !.current = IF log[i].k = "start" THEN log[i].x ELSE @, !.msg = built]
        /\ chat' = IF r.buffering THEN messages ELSE Enqueue(messages, r.msg, built)

Deliver ==
    LET i == NextFrame
        f == IF i > read.through THEN Flush(read, chat)
             ELSE [r |-> [read EXCEPT !.reached = i], chat |-> chat]
        awaited == f.r.awaiting = None \/ (log[i].k = "start" /\ log[i].x = f.r.awaiting)
        r == [f.r EXCEPT !.awaiting = None]
    IN  /\ Reading /\ ~tail.ended /\ i # 0
        /\ IF ~awaited THEN SkipFrame(f.r, f.chat, i)
           ELSE /\ store' = RecordFrameCursor(store, i)
                /\ IF Holds(r, i) THEN HoldTurn(r, f.chat, i) ELSE AcceptFrame(r, f.chat, i)
        /\ UNCHANGED <<log, host, faults, split>>

EndRead(messages) ==
    /\ chat' = IF read.by = "resume" THEN OneEntryPerId(messages) ELSE messages
    /\ read' = NoRead
    /\ tail' = NoTail
    /\ UNCHANGED <<log, host, store>>

\* A tail ends at each done; the chain goes on while a message is open.
Chains == read.by = "resume" /\ store.open.m # None /\ tail.at > tail.from /\ TurnInFlight

ChainTail ==
    /\ Reading /\ tail.ended /\ Chains
    /\ tail' = TailFrom(tail.at)
    /\ UNCHANGED <<log, host, store, chat, read, faults, split>>

EndTail ==
    /\ Reading /\ tail.ended /\ ~Chains
    /\ EndRead(FlushReplayed(read, chat).chat)
    /\ UNCHANGED <<faults, split>>

\* The message of which the finish that closes it was read last, and the done not.
HalfClosed == IF tail.at > 0 /\ log[tail.at] = Entry("finish", "stop") THEN {Owner(tail.at)} ELSE {}

BreaksOff ==
    /\ Reading /\ faults < MaxFaults
    /\ faults' = faults + 1
    /\ split' = split \cup HalfClosed

\* The connection is lost: the frames end without an error.
CutTail ==
    /\ BreaksOff
    /\ EndRead(FlushReplayed(read, chat).chat)

\* The user stops reading: the stream errors.
StopReading ==
    /\ BreaksOff
    /\ EndRead(chat)

Next ==
    \/ Elsewhere \/ StartTurn \/ WriteText \/ Progress \/ TaskCompletes
    \/ \E waits \in {"nothing", "task", "answer"} : CloseTurn(waits)
    \/ SendMessage \/ SendAnswer \/ LoadSnapshot \/ ReconnectToStream
    \/ Deliver \/ ChainTail \/ EndTail \/ CutTail \/ StopReading

Spec == Init /\ [][Next]_vars

----------------------------------------------------------------------------
\* The message that starts next after entry i.
Follower(i) == LET s == FirstOf(i, Len(log), {"start"}) IN IF s = 0 THEN Unnamed ELSE log[s].x

\* A part a task reports between two turns, where the message before is closed or
\* the next one is logged already: no message is open that it could go into.
Stray(i) ==
    /\ log[i].k = "gap"
    /\ log[LastOf(1, i, {"start", "done"})].k = "done"
    /\ \/ log[LastOf(1, i, {"finish"})].x = "stop"
       \/ \E p \in DOMAIN log :
             /\ log[p].k = "prompt"
             /\ \A j \in (i..p) \cup (p..i) : log[j].k \notin {"start", "done"}

\* A message holds parts of its own turns only, each once and in the log's order,
\* however turns, gaps and tails were cut (PROTOCOL.md section 9: a reader carries
\* no part of one message into the next).  What a task reports between two turns is
\* excepted where no message is open for it, or where the client, cut between the
\* next message's finish and its done, forgot which was: the stream that reads it
\* has no name yet and takes the next start's.
OwnParts ==
    \A i \in DOMAIN chat :
        LET seen == chat[i].seen
        IN  /\ \A j \in DOMAIN seen :
                  \/ Owner(seen[j]) = chat[i].m
                  \/ /\ log[seen[j]].k = "gap"
                     /\ Stray(seen[j]) \/ Follower(seen[j]) \in split
                     /\ chat[i].m \in {Unnamed, Follower(seen[j])}
            /\ \A j, k \in DOMAIN seen : j < k => seen[j] < seen[k]

\* Once the chat holds a message of the thread, it holds every part of it that the
\* client's cursor has passed: no replay rebuilds it with less.  A message whose
\* connection was lost between its finish and its done is rebuilt from the cursor
\* on (cursor.ts drops the open message at the finish), so it is excepted until the
\* page is loaded again.
CursorCovers ==
    \A i \in 1..store.cursor :
        LET m == Owner(i)
        IN  log[i].k \in Parts /\ ~Stray(i) /\ m \notin split /\ (\E j \in DOMAIN chat : chat[j].m = m) =>
                \E k \in DOMAIN chat : chat[k].m = m /\ i \in Range(chat[k].seen)

\* Read to the last done and at rest, the chat shows what a reload would show, up to
\* the same two exceptions.
LiveIsReload ==
    ~Reading /\ chat # <<>> /\ store.cursor = LatestTurnBoundary /\ LatestSnapshotBoundary = LatestTurnBoundary =>
        LET begun(messages) ==
                SelectSeq(messages, LAMBDA x : /\ x.m \notin split
                                               /\ \E i \in 1..store.cursor : log[i] = Entry("start", x.m))
            placed(m) == [m EXCEPT !.seen = SelectSeq(@, LAMBDA x : x <= store.cursor /\ ~Stray(x))]
            shown(messages) == [i \in DOMAIN begun(messages) |-> placed(begun(messages)[i])]
        IN  shown(chat) = shown(ReduceSnapshot(store.cursor))
=============================================================================
