----------------------------- MODULE MessageFold -----------------------------
(***************************************************************************)
(* How one thread's chunks are produced and folded back into messages.     *)
(*                                                                         *)
(* An agent run reaches the log through the wire adapter (which pins part  *)
(* ids to stream indexes and re-announces deferred calls) and the gate     *)
(* that holds empty parts back.  Two programs fold the log into a message: *)
(* the server's reducer and the TypeScript client's, whose snapshot        *)
(* builder also cuts the log into messages.  The model folds each chunk    *)
(* into all of them when it is written.                                    *)
(*                                                                         *)
(* A part is a record: its kind k, the id it is addressed by (kept for     *)
(* text parts too, where the code holds the part itself), its state, the   *)
(* tokens of its text, and for a call its input, approval and summary.  A  *)
(* delta's token is the part the model was writing.                        *)
(***************************************************************************)
EXTENDS Naturals, Sequences, FiniteSets, SequencesExt

CONSTANTS Calls,      \* tool call ids
          Indexes,    \* part indexes of one model response
          MaxParts,   \* text and reasoning parts written in one run of the model
          MaxDeltas,  \* deltas of one text or reasoning part
          MaxTurns,   \* turns of the thread
          MaxData,    \* data parts and files written in the thread
          MaxSteps,   \* model responses in one turn
          None

ASSUME FoldBounds == {MaxParts, MaxDeltas, MaxTurns, MaxData, MaxSteps} \subseteq Nat

VARIABLES turn,     \* the driver's turn: phase, number, message, prompt, answer
          stream,   \* the adapter: current id, index -> pinned id, live parts
          call,     \* what the run has done with each call
          started,  \* calls this turn's emitter has announced
          hints,    \* deferred calls this turn's emitter may announce itself
          gate,     \* starts held back, by part id
          open,     \* calls the turn's log left open
          sent,     \* deltas the model wrote, by part id (history)
          srv,      \* the server's fold of the open message
          cli,      \* the client's fold of the chunks not yet a message
          thread    \* the client's snapshot builder

vars == <<turn, stream, call, started, hints, gate, open, sent, srv, cli, thread>>
producer == <<stream, call, started, hints, sent>>

Chunk(k, op, id, x) == [k |-> k, op |-> op, id |-> id, x |-> x]
Part(k, id) == [k |-> k, id |-> id, st |-> "none", txt |-> <<>>, in |-> "none",
                ap |-> "none", sm |-> "none"]
At(parts, k, id) == SelectInSeq(parts, LAMBDA p : p.k = k /\ p.id = id)
Without(f, S) == [x \in DOMAIN f \ S |-> f[x]]
Put(f, x, v) == [y \in DOMAIN f \cup {x} |-> IF y = x THEN v ELSE f[y]]
OutputState == [available |-> "output-available", error |-> "output-error",
                denied |-> "output-denied"]
Outputs == Range(OutputState)

----------------------------------------------------------------------------
\* The server's reducer: the message so far, and what addresses its parts.

NewState == [parts |-> <<>>, active |-> << >>, partial |-> {}, asked |-> {},
             fin |-> "none", meta |-> {}]

StreamPart(s, ch) ==
    LET key == <<ch.k, ch.id>>
    IN  CASE ch.op = "start" ->
               [s EXCEPT !.parts = Append(@, [Part(ch.k, ch.id) EXCEPT !.st = "streaming"]),
                         !.active = Put(@, key, Len(s.parts) + 1)]
          [] ch.op # "start" /\ key \notin DOMAIN s.active -> s
          [] ch.op = "delta" /\ key \in DOMAIN s.active ->
               [s EXCEPT !.parts[s.active[key]].txt = Append(@, ch.x)]
          [] ch.op = "end" /\ key \in DOMAIN s.active ->
               [s EXCEPT !.parts[s.active[key]].st = "done", !.active = Without(@, {key})]

Upsert(s, c, st, in) ==
    LET i == At(s.parts, "tool", c)
        patch(p) == [p EXCEPT !.st = st, !.in = IF in = "none" THEN @ ELSE in]
    IN  IF i = 0 THEN [s EXCEPT !.parts = Append(@, patch(Part("tool", c)))]
                 ELSE [s EXCEPT !.parts[i] = patch(@)]

\* "none" drops the approval of a re-entered call.
SettleApproval(s, c, answer) ==
    LET i == At(s.parts, "tool", c)
    IN  IF i = 0 \/ c \notin s.asked THEN s ELSE [s EXCEPT !.parts[i].ap = answer]

\* Mutant: a call taken up again keeps the approval it was shown with.
ToolInputKeepingApproval(s, ch) ==
    IF ch.op = "available" THEN Upsert(s, ch.id, "input-available", "args")
    ELSE IF ch.op = "error" THEN Upsert(s, ch.id, "output-error", "none")
    ELSE Upsert([s EXCEPT !.partial = @ \cup {ch.id}], ch.id, "input-streaming",
                IF ch.x = "last" THEN "args" ELSE "none")

\* A half-received input does not parse, and leaves the part's input alone.
ToolInput(s, ch) ==
    CASE ch.op = "start" ->
            Upsert([s EXCEPT !.partial = @ \cup {ch.id}], ch.id, "input-streaming", "none")
      [] ch.op = "delta" ->
            IF ch.id \notin s.partial THEN s
            ELSE Upsert(s, ch.id, "input-streaming", IF ch.x = "last" THEN "args" ELSE "none")
      [] ch.op = "available" ->
            SettleApproval(Upsert(s, ch.id, "input-available", "args"), ch.id, "none")
      [] ch.op = "error" -> Upsert(s, ch.id, "output-error", "none")

ToolApprovalRequest(s, ch) ==
    LET i == At(s.parts, "tool", ch.id)
    IN  IF i = 0 THEN s
        ELSE [s EXCEPT !.parts[i].st = "approval-requested", !.parts[i].ap = "asked",
                       !.asked = @ \cup {ch.id}]

ToolOutput(s, ch) ==
    IF At(s.parts, "tool", ch.id) = 0 THEN s
    ELSE SettleApproval(Upsert(s, ch.id, OutputState[ch.op], "none"), ch.id,
                        IF ch.op = "denied" THEN "no" ELSE "yes")

ToolSummary(s, ch) ==
    LET i == At(s.parts, "tool", ch.id)
    IN  IF i = 0 THEN s ELSE [s EXCEPT !.parts[i].sm = ch.x]

DataChunk(s, ch) ==
    LET i == IF ch.id = None THEN 0 ELSE At(s.parts, ch.k, ch.id)
    IN  CASE ch.op = "transient" -> s
          [] ch.op = "put" /\ i # 0 -> [s EXCEPT !.parts[i].in = ch.x]
          [] ch.op = "put" /\ i = 0 ->
               [s EXCEPT !.parts = Append(@, [Part(ch.k, ch.id) EXCEPT !.in = ch.x])]

PlainPart(s, ch) == [s EXCEPT !.parts = Append(@, Part(ch.k, None))]

DataKinds == {"tool-approval", "task-progress", "turn-usage", "turn-failed",
              "turn-stopped", "turn-withdrawn"}

ApplyChunk(s, ch) ==
    CASE ch.k \in {"text", "reasoning"} -> StreamPart(s, ch)
      [] ch.k = "tool-input" -> ToolInput(s, ch)
      [] ch.k = "approval" -> ToolApprovalRequest(s, ch)
      [] ch.k = "tool-output" -> ToolOutput(s, ch)
      [] ch.k = "tool-summary" -> ToolSummary(s, ch)
      [] ch.k \in DataKinds -> DataChunk(s, ch)
      [] ch.k = "file" \/ (ch.k = "step" /\ ch.op = "start") -> PlainPart(s, ch)
      [] ch.k = "step" /\ ch.op = "finish" -> [s EXCEPT !.active = << >>]
      [] ch.k = "message" /\ ch.op = "start" -> [s EXCEPT !.meta = @ \cup {ch.x}]
      [] ch.k = "message" /\ ch.op = "finish" -> [s EXCEPT !.fin = ch.x]
      [] ch.k = "error" -> s

----------------------------------------------------------------------------
\* The client's reducer: parts are replaced whole, from a track it keeps per call.

EmptyAccumulator == [parts |-> <<>>, at |-> << >>, tools |-> << >>, errors |-> 0,
                     fin |-> "none", meta |-> {}]

AppendPart(t, p) == [t EXCEPT !.parts = Append(@, p)]

\* The index keeps a part after its end: only the start of another moves it.
StreamPartAt(t, ch) ==
    LET key == <<ch.k, ch.id>>
        opened == [AppendPart(t, [Part(ch.k, ch.id) EXCEPT !.st = "streaming"])
                     EXCEPT !.at = Put(@, key, Len(t.parts) + 1)]
    IN  CASE ch.op = "start" -> opened
          [] ch.op # "start" /\ key \notin DOMAIN t.at -> t
          [] ch.op = "delta" /\ key \in DOMAIN t.at ->
               [t EXCEPT !.parts[t.at[key]].txt = Append(@, ch.x)]
          [] ch.op = "end" /\ key \in DOMAIN t.at -> [t EXCEPT !.parts[t.at[key]].st = "done"]

\* A data part with an id is found by the index its type keeps.
ApplyData(t, ch) ==
    LET key == <<ch.k, ch.id>>
        part == [Part(ch.k, ch.id) EXCEPT !.in = ch.x]
    IN  CASE ch.op = "transient" -> t
          [] ch.op = "put" /\ ch.id = None -> AppendPart(t, part)
          [] ch.op = "put" /\ ch.id # None /\ key \in DOMAIN t.at ->
               [t EXCEPT !.parts[t.at[key]] = part]
          [] ch.op = "put" /\ ch.id # None /\ key \notin DOMAIN t.at ->
               [AppendPart(t, part) EXCEPT !.at = Put(@, key, Len(t.parts) + 1)]

OpenTrack(t, c) ==
    [AppendPart(t, [Part("tool", c) EXCEPT !.st = "input-streaming"]) EXCEPT
        !.tools = Put(@, c, [pos |-> Len(t.parts) + 1, in |-> "none", asked |-> FALSE,
                             sm |-> "none"])]

\* The part in a state, from the call's track.
Write(t, c, st, in, ap) ==
    [t EXCEPT !.tools[c].in = in,
              !.parts[t.tools[c].pos] = [Part("tool", c) EXCEPT !.st = st, !.in = in,
                                          !.ap = ap, !.sm = t.tools[c].sm]]

ApprovedOf(t, c) == IF t.tools[c].asked THEN "yes" ELSE "none"

ToolDispatch(t, ch) ==
    LET c == ch.id
        held == c \in DOMAIN t.tools
        keep == IF held THEN t.tools[c].in ELSE "none"
    IN  CASE ch.k = "tool-input" /\ ch.op = "start" -> IF held THEN t ELSE OpenTrack(t, c)
          [] ch.k = "tool-input" /\ ch.op = "available" ->
               Write(IF held THEN t ELSE OpenTrack(t, c), c, "input-available", "args", "none")
          [] ~held /\ <<ch.k, ch.op>> \notin {"tool-input"} \X {"start", "available"} -> t
          [] held /\ ch.k = "tool-input" /\ ch.op = "delta" ->
               Write(t, c, "input-streaming", "text", "none")
          [] held /\ ch.k = "tool-input" /\ ch.op = "error" ->
               Write(t, c, "output-error", "none", ApprovedOf(t, c))
          [] held /\ ch.k = "approval" ->
               Write([t EXCEPT !.tools[c].asked = TRUE], c, "approval-requested", keep, "asked")
          [] held /\ ch.k = "tool-output" /\ ch.op = "denied" ->
               IF t.tools[c].asked THEN Write(t, c, "output-denied", keep, "no") ELSE t
          [] held /\ ch.k = "tool-output" /\ ch.op # "denied" ->
               Write(t, c, OutputState[ch.op], keep, ApprovedOf(t, c))

ApplyToolSummary(t, ch) ==
    IF ch.id \notin DOMAIN t.tools THEN t
    ELSE [t EXCEPT !.tools[ch.id].sm = ch.x, !.parts[t.tools[ch.id].pos].sm = ch.x]

ReduceTurn(t, ch) ==
    CASE ch.k \in {"text", "reasoning"} -> StreamPartAt(t, ch)
      [] ch.k \in {"tool-input", "approval", "tool-output"} -> ToolDispatch(t, ch)
      [] ch.k = "tool-summary" -> ApplyToolSummary(t, ch)
      [] ch.k \in DataKinds -> ApplyData(t, ch)
      [] ch.k = "file" \/ (ch.k = "step" /\ ch.op = "start") -> AppendPart(t, Part(ch.k, None))
      [] ch.k = "step" /\ ch.op = "finish" -> t
      [] ch.k = "message" /\ ch.op = "start" -> [t EXCEPT !.meta = @ \cup {ch.x}]
      [] ch.k = "message" /\ ch.op = "finish" -> [t EXCEPT !.fin = ch.x]
      [] ch.k = "error" -> [t EXCEPT !.errors = @ + 1]

----------------------------------------------------------------------------
\* The client's snapshot builder: the log cut into messages.

\* Mutant: a withdrawn message keeps its parts.
ReducedToAll(parts) == parts

\* A message that holds a withdrawn part is that part alone.
Reduced(parts) ==
    LET i == SelectInSeq(parts, LAMBDA p : p.k = "turn-withdrawn")
    IN  IF i = 0 THEN parts ELSE <<parts[i]>>

WithdrawnPrompts(parts) == {parts[i].in : i \in {j \in DOMAIN parts : parts[j].k = "turn-withdrawn"}} \ {None}

\* A thread holds an id once: a log that repeats one keeps the first.
Push(b, id, parts) ==
    IF \E i \in DOMAIN b.messages : b.messages[i].id = id THEN b
    ELSE [b EXCEPT !.messages = Append(@, [id |-> id, parts |-> parts])]

Flush(b, t) ==
    IF ~b.pending THEN b
    ELSE [Push(b, b.pendingId, Reduced(t.parts)) EXCEPT
            !.withdrawn = @ \cup WithdrawnPrompts(t.parts),
            !.pending = FALSE, !.pendingId = None]

\* The messages a reader is shown, their order left out.
Shown(b) == {m \in Range(b.messages) : m.id \notin b.withdrawn}

\* Mutant: a call announced whole is not open.
ObserveStartsOnly(opened, ch) ==
    CASE ch.k = "tool-input" /\ ch.op = "start" -> opened \cup {ch.id}
      [] ch.k \in {"tool-output", "approval"} -> opened \ {ch.id}
      [] OTHER -> opened

\* The calls the turn's log opened and did not close.
Observe(opened, ch) ==
    CASE ch.k = "tool-input" /\ ch.op \in {"start", "available"} -> opened \cup {ch.id}
      [] ch.k \in {"tool-output", "approval"} -> opened \ {ch.id}
      [] OTHER -> opened

\* One entry of the log, folded into everything that reads the log.
LogEntry(log, ch) ==
    LET opens == ch.k = "message" /\ ch.op = "start"
        cut == \/ ch.k = "envelope"
               \/ opens /\ log.thread.pendingId \notin {None, ch.id}
        flushed == IF cut THEN Flush(log.thread, log.cli) ELSE log.thread
        kept == IF cut THEN EmptyAccumulator ELSE log.cli
    IN  IF ch.k = "envelope"
        THEN [log EXCEPT !.thread = Push(flushed, ch.id, <<>>), !.cli = kept]
        ELSE [srv |-> ApplyChunk(IF opens /\ ch.x = "new" THEN NewState ELSE log.srv, ch),
              cli |-> ReduceTurn(kept, ch),
              thread |-> [flushed EXCEPT !.pending = TRUE,
                                         !.pendingId = IF opens THEN ch.id ELSE @],
              open |-> Observe(log.open, ch)]

----------------------------------------------------------------------------
\* The writer: every chunk passes the gate, and what it admits is logged.

Admit(acc, ch) ==
    LET holding == ch.id \in DOMAIN acc.held
    IN  CASE ch.k \notin {"text", "reasoning"} -> [acc EXCEPT !.out = Append(@, ch)]
          [] ch.k \in {"text", "reasoning"} /\ ch.op = "start" ->
               [acc EXCEPT !.held = Put(@, ch.id, ch)]
          [] ch.k \in {"text", "reasoning"} /\ ch.op = "delta" ->
               [held |-> Without(acc.held, {ch.id}),
                out |-> acc.out \o (IF holding THEN <<acc.held[ch.id], ch>> ELSE <<ch>>)]
          [] ch.k \in {"text", "reasoning"} /\ ch.op = "end" ->
               [held |-> Without(acc.held, {ch.id}),
                out |-> IF holding THEN acc.out ELSE Append(acc.out, ch)]

AdmitAll(held, chunks) ==
    LET acc[n \in 0..Len(chunks)] ==
          IF n = 0 THEN [held |-> held, out |-> <<>>] ELSE Admit(acc[n - 1], chunks[n])
    IN  acc[Len(chunks)]

LogAll(log, chunks) ==
    LET after[n \in 0..Len(chunks)] == IF n = 0 THEN log ELSE LogEntry(after[n - 1], chunks[n])
    IN  after[Len(chunks)]

\* Write through a gate: this turn's, or the empty one of a new writer.
WriteThrough(held, opened, chunks) ==
    LET admitted == AdmitAll(held, chunks)
        log == LogAll([srv |-> srv, cli |-> cli, thread |-> thread, open |-> opened],
                      admitted.out)
    IN  /\ gate' = admitted.held
        /\ srv' = log.srv
        /\ cli' = log.cli
        /\ thread' = log.thread
        /\ open' = log.open

Emit(chunks) == WriteThrough(gate, open, chunks)

----------------------------------------------------------------------------
\* The adapter's stream of one turn.

Free == [k |-> "free", id |-> None]
NewStream(next) == [steps |-> 0, id |-> None, next |-> next,
                    pinned |-> [i \in Indexes |-> None], live |-> [i \in Indexes |-> Free]]

Init ==
    /\ turn = [open |-> FALSE, n |-> 0, msg |-> None, fin |-> "none", data |-> 0,
               answer |-> [c \in Calls |-> "none"]]
    /\ stream = NewStream(1)
    /\ call = [c \in Calls |-> "new"]
    /\ started = {}
    /\ hints = {}
    /\ gate = << >>
    /\ open = {}
    /\ sent = [i \in 1..MaxParts |-> 0]
    /\ srv = NewState
    /\ cli = EmptyAccumulator
    /\ thread = [messages |-> <<>>, withdrawn |-> {}, pending |-> FALSE, pendingId |-> None]

User(n) == <<"user", n>>
Assistant(n) == <<"assistant", n>>

\* A turn makes finitely many calls; None stands for no part and no message.
ASSUME FoldIds == /\ IsFiniteSet(Calls) /\ None \notin 1..MaxParts
                  /\ \A n \in 1..MaxTurns : None \notin {User(n), Assistant(n)}

BeginTurn(msg, chunks, hinted) ==
    /\ ~turn.open
    /\ turn.n < MaxTurns
    /\ turn' = [turn EXCEPT !.open = TRUE, !.n = @ + 1, !.msg = msg, !.fin = "none"]
    /\ stream' = NewStream(stream.next)
    /\ started' = {}
    /\ hints' = hinted
    /\ WriteThrough(<< >>, {}, chunks)
    /\ UNCHANGED sent

\* A new prompt drops a call that waits for an answer.
Prompt ==
    LET n == turn.n + 1
    IN  /\ BeginTurn(Assistant(n), <<Chunk("envelope", "put", User(n), None),
                                     Chunk("message", "start", Assistant(n), "new")>>, {})
        /\ call' = [c \in Calls |-> IF call[c] = "asked" THEN "dropped" ELSE call[c]]

\* The user's answer continues the message the suspended turn left open.  A
\* durable call outranks a card: none is parked beside it.
Answer(c, yes) ==
    /\ call[c] = "asked" /\ \A d \in Calls : call[d] # "parked"
    /\ turn.fin = "other"
    /\ ~turn.open /\ turn.n < MaxTurns
    /\ turn' = [turn EXCEPT !.open = TRUE, !.n = @ + 1, !.fin = "none",
                            !.answer[c] = IF yes THEN "yes" ELSE "no"]
    /\ stream' = NewStream(stream.next)
    /\ started' = {}
    /\ hints' = {c}
    /\ WriteThrough(<< >>, {}, <<Chunk("message", "start", turn.msg, "same"),
                                 Chunk("tool-approval", "put", c, IF yes THEN "yes" ELSE "no")>>)
    /\ call' = [call EXCEPT ![c] = "answered"]
    /\ UNCHANGED sent

\* The worker's answers open a turn of their own, with a message of its own.
Resume ==
    LET parked == {c \in Calls : call[c] = "parked"}
    IN  /\ parked # {}
        /\ BeginTurn(Assistant(turn.n + 1),
                     <<Chunk("message", "start", Assistant(turn.n + 1), "new")>>, parked)
        /\ call' = [c \in Calls |-> IF c \in parked THEN "answered" ELSE call[c]]

Writing == {i \in Indexes : stream.live[i].k # "free" /\ stream.live[i].k # "ended"}
\* A resumed run is refused while a card of its history has no answer.
Running == turn.open /\ \A c \in Calls : call[c] # "asked"
Outstanding == {c \in Calls : call[c] \in {"started", "half", "typed", "args", "refused", "answered"}}

\* The next model response. Its part indexes are its own; the pins stay.
StartResponse ==
    /\ Running /\ Writing = {} /\ Outstanding = {}
    /\ stream.steps < MaxSteps
    /\ stream.steps > 0 => \E i \in Indexes : stream.live[i] # Free
    /\ stream' = [stream EXCEPT !.steps = @ + 1, !.live = [i \in Indexes |-> Free]]
    /\ Emit((IF stream.steps > 0 THEN <<Chunk("step", "finish", None, None)>> ELSE <<>>)
              \o <<Chunk("step", "start", None, None)>>)
    /\ UNCHANGED <<turn, call, started, hints, sent>>

\* A response numbers its parts in order.
NextIndex(i) == stream.live[i] = Free /\ \A j \in Indexes : j < i => stream.live[j] # Free

\* handle_part_start: the new part's id is pinned to its index.
PartStart(i, k) ==
    /\ Running /\ stream.steps > 0 /\ NextIndex(i) /\ stream.next <= MaxParts
    /\ stream' = [stream EXCEPT !.id = stream.next, !.next = @ + 1,
                                !.live[i] = [k |-> k, id |-> stream.next],
                                !.pinned[i] = stream.next]
    /\ Emit(<<Chunk(k, "start", stream.next, None)>>)
    /\ UNCHANGED <<turn, call, started, hints, sent>>

\* Mutant: the stream's current id, pinned to no index.
WireIdOfTheStream(i) == stream.id

WireId(i) == IF stream.pinned[i] = None THEN stream.id ELSE stream.pinned[i]

PartDelta(i) ==
    LET part == stream.live[i]
    IN  /\ Running /\ part.k \in {"text", "reasoning"} /\ sent[part.id] < MaxDeltas
        /\ Emit(<<Chunk(part.k, "delta", WireId(i), part.id)>>)
        /\ sent' = [sent EXCEPT ![part.id] = @ + 1]
        /\ UNCHANGED <<turn, stream, call, started, hints>>

PartEnd(i) ==
    /\ Running /\ stream.live[i].k \in {"text", "reasoning"}
    /\ Emit(<<Chunk(stream.live[i].k, "end", WireId(i), None)>>)
    /\ stream' = [stream EXCEPT !.live[i].k = "ended"]
    /\ UNCHANGED <<turn, call, started, hints, sent>>

ToolPartStart(i, c) ==
    /\ Running /\ stream.steps > 0 /\ NextIndex(i) /\ call[c] = "new"
    /\ stream' = [stream EXCEPT !.live[i] = [k |-> "tool", id |-> c]]
    /\ call' = [call EXCEPT ![c] = "started"]
    /\ started' = started \cup {c}
    /\ Emit(<<Chunk("tool-input", "start", c, None)>>)
    /\ UNCHANGED <<turn, hints, sent>>

ToolArguments(c, x) ==
    /\ Running
    /\ <<call[c], x>> \in {<<"started", "more">>, <<"started", "last">>, <<"half", "last">>}
    /\ call' = [call EXCEPT ![c] = IF x = "more" THEN "half" ELSE "typed"]
    /\ started' = started \cup {c}
    /\ Emit(<<Chunk("tool-input", "delta", c, x)>>)
    /\ UNCHANGED <<turn, stream, hints, sent>>

\* The run announces a call it makes, or one it re-enters; bad arguments end it.
CallTool(c, valid) ==
    /\ Running /\ call[c] \in {"started", "half", "typed", "answered"}
    /\ call[c] = "answered" => valid /\ turn.answer[c] # "none"
    /\ call' = [call EXCEPT ![c] = IF valid THEN "args" ELSE "refused"]
    /\ stream' = [stream EXCEPT !.live = [i \in Indexes |->
                    IF @[i] = [k |-> "tool", id |-> c] THEN [@[i] EXCEPT !.k = "ended"] ELSE @[i]]]
    /\ started' = started \cup {c}
    /\ Emit(<<Chunk("tool-input", IF valid THEN "available" ELSE "error", c, None)>>)
    /\ UNCHANGED <<turn, hints, sent>>

\* An output of a call nobody announced in this turn is announced first.
Synthesized(c) ==
    IF c \in started \/ c \notin hints THEN <<>>
    ELSE <<Chunk("tool-input", "start", c, None), Chunk("tool-input", "available", c, None)>>

OutcomesOf(c) ==
    CASE call[c] = "refused" -> {"error"}
      [] call[c] # "refused" /\ turn.answer[c] = "no" -> {"denied"}
      [] call[c] # "refused" /\ turn.answer[c] # "no" -> {"available", "error"}

\* A call's result: the tool's own line beside it, or the retry that hands it back.
ToolResult(c, op, line) ==
    LET result == <<Chunk("tool-output", op, c, None)>>
        summary == <<Chunk("tool-summary", "put", c, line)>>
    IN  /\ Running /\ Writing = {} /\ call[c] \in {"args", "refused", "answered"}
        /\ op \in OutcomesOf(c)
        /\ line = "corrected" => op = "error"
        /\ call[c] = "refused" => line = "corrected"
        /\ line = "ok" => op = "available"
        /\ Emit(Synthesized(c) \o
                 CASE line = "none" -> result
                   [] line = "ok" -> summary \o result
                   [] line = "corrected" -> result \o summary)
        /\ started' = started \cup {c}
        /\ call' = [call EXCEPT ![c] = "settled"]
        /\ UNCHANGED <<turn, stream, hints, sent>>

\* A data part that reconciles on its lane, a transient one, a file: also between turns.
OtherPart(ch) ==
    /\ turn.n > 0 /\ turn.data < MaxData
    /\ ch \in {Chunk("task-progress", "put", "lane", turn.data),
               Chunk("turn-usage", "transient", None, None), Chunk("file", "put", None, None)}
    /\ ch.k # "task-progress" => turn.open
    /\ turn' = [turn EXCEPT !.data = @ + 1]
    /\ Emit(<<ch>>)
    /\ UNCHANGED producer

----------------------------------------------------------------------------
\* How a turn ends.

\* A call the run did not finish is lost with the run.
Abandoned == [c \in Calls |-> IF c \in Outstanding THEN "lost" ELSE call[c]]

\* A node that returns replaces what the thread waited for.
Passed(calls) == [c \in Calls |-> IF calls[c] \in {"asked", "parked"} THEN "dropped" ELSE calls[c]]
LastStep == IF stream.steps > 0 THEN <<Chunk("step", "finish", None, None)>> ELSE <<>>
EndTurn(chunks, reason) ==
    /\ turn.open
    /\ turn' = [turn EXCEPT !.open = FALSE, !.fin = reason]
    /\ Emit(chunks \o <<Chunk("message", "finish", None, reason)>>)
    /\ UNCHANGED <<stream, started, hints, sent>>

RunEnds ==
    /\ Running /\ stream.steps > 0 /\ Writing = {} /\ Outstanding = {}
    /\ EndTurn(LastStep, "stop")
    /\ call' = Passed(Abandoned)

\* The run's deferred calls: durable ones are parked, the user is asked about the others.
Suspend(durable) ==
    LET deferred == {c \in Calls : call[c] = "args" /\ turn.answer[c] = "none"}
        cards == {Chunk("approval", "request", c, None) : c \in deferred \ durable}
    IN  /\ Running /\ Writing = {} /\ deferred # {} /\ Outstanding = deferred
        /\ durable \subseteq deferred
        /\ call' = [c \in Calls |-> IF c \in durable THEN "parked"
                                    ELSE IF c \in deferred THEN "asked" ELSE Passed(call)[c]]
        /\ EndTurn(SetToSeq(cards) \o LastStep, "other")

\* The model declined: the part naming the prompt, then the error.
Decline ==
    /\ Running
    /\ EndTurn(<<Chunk("turn-withdrawn", "put", None,
                       IF turn.msg = Assistant(turn.n) /\ hints = {} THEN User(turn.n) ELSE None),
                 Chunk("error", "put", None, None)>> \o LastStep, "stop")
    /\ call' = Passed(Abandoned)

\* The run raised: the reader sees the error and the turn still closes.
RunFails ==
    /\ EndTurn(<<Chunk("error", "put", None, None)>> \o LastStep, "stop")
    /\ call' = Passed(Abandoned)

\* The driver raised or its worker died: its open calls are closed from the log.
DriverFails ==
    /\ turn.open
    /\ turn' = [turn EXCEPT !.open = FALSE, !.fin = "error"]
    /\ WriteThrough(<< >>, open,
                    SetToSeq({Chunk("tool-output", "error", c, None) : c \in open})
                    \o <<Chunk("error", "put", None, None), Chunk("turn-failed", "put", None, None),
                         Chunk("message", "finish", None, "error")>>)
    /\ call' = Abandoned
    /\ UNCHANGED <<stream, started, hints, sent>>

Next ==
    \/ Prompt \/ Resume \/ StartResponse \/ RunEnds \/ Decline \/ RunFails \/ DriverFails
    \/ \E durable \in SUBSET Calls : Suspend(durable)
    \/ \E yes \in BOOLEAN, c \in Calls : Answer(c, yes) \/ CallTool(c, yes)
    \/ \E i \in Indexes : PartDelta(i) \/ PartEnd(i)
    \/ \E i \in Indexes, k \in {"text", "reasoning"} : PartStart(i, k)
    \/ \E i \in Indexes, c \in Calls : ToolPartStart(i, c)
    \/ \E c \in Calls, x \in {"more", "last"} : ToolArguments(c, x)
    \/ \E c \in Calls, op \in {"available", "error", "denied"}, line \in {"none", "ok", "corrected"} :
          ToolResult(c, op, line)
    \/ \E ch \in {Chunk("task-progress", "put", "lane", turn.data), Chunk("file", "put", None, None),
                   Chunk("turn-usage", "transient", None, None)} : OtherPart(ch)

Spec == Init /\ [][Next]_vars

----------------------------------------------------------------------------
\* The two reducers agree on the open message, part by part, except on a call
\* whose input is still being written and on the input of a call that failed
\* before it ran (_chunk_handlers.py, reduce.ts and reduceTool.ts).
FoldsAgree ==
    /\ Len(srv.parts) = Len(cli.parts)
    /\ srv.meta = cli.meta /\ srv.fin = cli.fin
    /\ \A i \in DOMAIN srv.parts :
          LET s == srv.parts[i]
              c == cli.parts[i]
          IN  /\ s.k = c.k /\ s.id = c.id
              /\ s.st # "input-streaming" => [s EXCEPT !.in = "none"] = [c EXCEPT !.in = "none"]
              /\ s.st \notin {"input-streaming", "output-error"} => s.in = c.in

\* Every delta the model wrote is in the part whose start it followed, in both
\* folds, whatever other part opened in between (vercel_adapter.py's pins), and
\* no part without a delta reaches them (empty_parts.py).
DeltasReachTheirPart ==
    \A parts \in {srv.parts, cli.parts} : \A i \in DOMAIN parts :
        parts[i].k \in {"text", "reasoning"} =>
            /\ \A j \in DOMAIN parts[i].txt : parts[i].txt[j] = parts[i].id
            /\ Len(parts[i].txt) = sent[parts[i].id] /\ parts[i].txt # <<>>

\* A turn that ended with "error" leaves no call of its message running, though
\* the worker that ran it died with its emitter (open_tool_calls.py).
FailedTurnRunsNothing ==
    turn.fin = "error" /\ ~turn.open =>
        \A i \in DOMAIN cli.parts : cli.parts[i].k = "tool" =>
            cli.parts[i].st \notin {"input-streaming", "input-available"}

\* A declined turn shows one part in place of its prompt: the withdrawn message is
\* reduced to it, and the prompt is shown nowhere once the message is in the thread.
WithdrawnIsAlone ==
    \A i \in DOMAIN thread.messages :
        LET m == thread.messages[i]
        IN  \A j \in DOMAIN m.parts : m.parts[j].k = "turn-withdrawn" =>
              /\ Len(m.parts) = 1
              /\ \A shown \in Shown(thread) : shown.id # m.parts[j].in

\* However a turn ends badly, what is left of it reads as ended: no call runs on
\* after a failure, and nothing stands beside a withdrawal.
EndsClean == FailedTurnRunsNothing /\ WithdrawnIsAlone
=============================================================================
