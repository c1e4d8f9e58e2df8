----------------------------- MODULE TurnGraph -----------------------------
(***************************************************************************)
(* One thread of a one-agent assistant: the checkpoint a turn starts from, *)
(* what the turn starts its run with (_turn_for), the run's requests and   *)
(* calls under the repetition guard and a stop, what the run parks or      *)
(* keeps, and the row the turn leaves (graph/, capabilities/               *)
(* repetition_guard.py, spec.py).                                          *)
(*                                                                         *)
(* A call is a number; kind[c] says what the model called and with which   *)
(* arguments.  The model and pydantic-ai's run loop are external: the      *)
(* model answers anything of Responses, and the loop runs the calls of a   *)
(* response in any order, defers what it may not run, and refuses to       *)
(* resume unless every outstanding call is given a result.                 *)
(***************************************************************************)
EXTENDS Integers, Sequences, FiniteSets, SequencesExt

CONSTANTS
  Responses,   \* the sequences of kinds one response may call
  Threshold,   \* identical calls in a row before the guard refuses
  Cap,         \* calls one run may make to "find"
  Typed,       \* whether a reply may be an output tool's call, whether text
  MaxTurns, MaxCalls, MaxRequests,
  Faults       \* "cancel": the user stops the turn; "stale": the user clicks
               \* a card that a later message passed over

ReadOnly == {"read a", "read b"}     \* one tool, two arguments
Asks     == {"wipe"}                 \* needs the user's approval
Durable  == {"export"}               \* deferred to a worker
Kinds    == ReadOnly \cup Asks \cup Durable \cup {"find", "edit", "reply"}

ASSUME BoundsAssumption ==
  /\ Threshold \in Nat \ {0} /\ Cap \in Nat
  /\ MaxTurns \in Nat /\ MaxCalls \in Nat /\ MaxRequests \in Nat
  /\ Typed \subseteq BOOLEAN /\ Responses \subseteq Seq(Kinds)

NoCall  == 0
NoPark  == [call |-> NoCall, tasks |-> {}, msgs |-> <<>>]

VARIABLES
  cp,        \* the checkpoint's TurnState
  kind,      \* kind[c]: what call c is
  ran,       \* ran[c]: how often c's tool ran
  asked,     \* the calls a card asks the user about
  reported,  \* the durable calls whose task has an outcome
  turn,      \* the running turn
  guard,     \* the run's ToolRepetitionGuard
  rows,      \* the message rows' total tokens, by message
  open,      \* the message the last turn left open, or 0
  charged,   \* tokens charged to the user
  ghost      \* what happened: the calls passed over and refused

vars == <<cp, kind, ran, asked, reported, turn, guard, rows, open, charged, ghost>>

Idle == [phase |-> "idle"]
Running == turn.phase # "idle"
Calls == 1 .. Len(kind)
Turns == ghost.turns

----------------------------------------------------------------------------
(* Messages: what the model is sent.  A "calls" message is a response that *)
(* calls tools, "returns" the request that answers some of them.           *)

Prompt(n)  == [k |-> "prompt", n |-> n, c |-> {}]
CallsOf(s) == [k |-> "calls", n |-> 0, c |-> s]
Returns(s) == [k |-> "returns", n |-> 0, c |-> s]
Answer     == [k |-> "answer", n |-> 0, c |-> {}]
Paused     == [k |-> "paused", n |-> 0, c |-> {}]   \* the provider paused it

EndsAnExchange(m) == m.k = "answer"
ReturnsEveryCall(m, r) == m.k = "calls" /\ r.k = "returns" /\ m.c # {} /\ m.c \subseteq r.c
Settled(msgs) ==
  \/ EndsAnExchange(Last(msgs))
  \/ Len(msgs) > 1 /\ ReturnsEveryCall(msgs[Len(msgs) - 1], Last(msgs))

\* Mutant: the last response is kept although its calls wait.
WholeHistory(msgs) == msgs

\* The longest prefix that is settled.
SettledHistory(msgs) ==
  LET ends == {i \in DOMAIN msgs : Settled(SubSeq(msgs, 1, i))}
  IN SubSeq(msgs, 1, IF ends = {} THEN 0 ELSE CHOOSE i \in ends : \A j \in ends : j <= i)

\* The calls of the last response that nothing answered.
Outstanding(msgs) ==
  LET at == {i \in DOMAIN msgs : msgs[i].k = "calls"}
  IN IF at = {} THEN {}
     ELSE LET i == CHOOSE j \in at : \A x \in at : x <= j
          IN msgs[i].c \ UNION {msgs[j].c : j \in {x \in DOMAIN msgs : x > i /\ msgs[x].k = "returns"}}

----------------------------------------------------------------------------
(* The repetition guard. *)

NewGuard == [last |-> "", count |-> 0, warned |-> 0, finds |-> 0, capWarned |-> 0, stopped |-> NoCall]
Guarded == ReadOnly \cup {"find"}

\* _check_cap: the guard after one more "find", and whether it blocks.
CheckCap(g, c, step) ==
  LET n == g.finds + 1
      w == IF g.capWarned = 0 THEN step ELSE g.capWarned
  IN IF n <= Cap THEN [g |-> [g EXCEPT !.finds = n], block |-> FALSE]
     ELSE [g |-> [g EXCEPT !.finds = n, !.capWarned = w,
                           !.stopped = IF step > w /\ @ = NoCall THEN c ELSE @],
           block |-> TRUE]

\* Mutant: a new argument starts the count anew and keeps the warning.
StreakStaysWarned(g, k) ==
  IF g.last = k THEN [g EXCEPT !.count = @ + 1]
  ELSE [g EXCEPT !.last = k, !.count = 1]

\* The streak of identical calls, a new one when the call differs.
Streak(g, k) ==
  IF g.last = k THEN [g EXCEPT !.count = @ + 1]
  ELSE [g EXCEPT !.last = k, !.count = 1, !.warned = 0]

CheckRepeat(g, c, step) ==
  LET s == Streak(g, kind[c])
      w == IF s.warned = 0 THEN step ELSE s.warned
  IN IF s.count < Threshold THEN [g |-> s, block |-> FALSE]
     ELSE [g |-> [s EXCEPT !.warned = w, !.stopped = IF step > w /\ @ = NoCall THEN c ELSE @],
           block |-> TRUE]

\* check: a call outside the vocabulary clears the streak, never the cap.
Check(g, c, step) ==
  LET capped == CheckCap(g, c, step)
      g1     == IF kind[c] = "find" THEN capped.g ELSE g
  IN IF kind[c] = "find" /\ capped.block THEN capped
     ELSE IF kind[c] \notin ReadOnly
     THEN [g |-> [g1 EXCEPT !.last = "", !.count = 0, !.warned = 0], block |-> FALSE]
     ELSE CheckRepeat(g1, c, step)

----------------------------------------------------------------------------
(* What a turn starts from. *)

\* TurnStart.state_kwargs and turn_input: answers are always written, the
\* prompt only by a turn that does not resume.
Input(start) ==
  [cp EXCEPT !.approvals = start.approvals, !.results = start.results, !.tokens = 0,
             !.prompt = IF start.resume THEN @ ELSE start.prompt]
CarriesDurableAnswer(s) == s.durable.tasks \cap s.results # {}

\* Mutant: the first answer re-enters the run.
AnsweredByAny(s) == CarriesDurableAnswer(s)

AnsweredDurableCall(s) == CarriesDurableAnswer(s) /\ s.durable.tasks \subseteq s.results

\* Mutant: an answer to any card is taken for the parked one.
ApprovalResultsOfAny(s) ==
  {[call |-> s.approval.call, yes |-> a.yes] : a \in {x \in s.approvals : s.approval.call # NoCall}}

\* approval_results: the user's click on the parked call.
ApprovalResults(s) == {a \in s.approvals : s.approval.call # NoCall /\ a.call = s.approval.call}

\* _turn_for: the answers of parked calls first, else the user's message.
TurnFor(s) ==
  IF AnsweredDurableCall(s)
  THEN [msgs |-> s.durable.msgs, values |-> s.durable.tasks \cap s.results, clicks |-> {}]
  ELSE IF ApprovalResults(s) # {}
  THEN [msgs |-> s.approval.msgs, values |-> {}, clicks |-> ApprovalResults(s)]
  ELSE [msgs |-> Append(s.thread, Prompt(s.prompt)), values |-> {}, clicks |-> {}]

----------------------------------------------------------------------------
(* Turns. *)

Init ==
  /\ cp = [prompt |-> 0, thread |-> <<>>, approval |-> NoPark, durable |-> NoPark,
           approvals |-> {}, results |-> {}, tokens |-> 0]
  /\ kind = <<>> /\ ran = <<>> /\ asked = {} /\ reported = {}
  /\ turn = Idle /\ guard = NewGuard
  /\ rows = <<>> /\ open = 0 /\ charged = 0
  /\ ghost \in [turns : {0}, typed : Typed, superseded : {{}}, dropped : {{}},
                refused : {{}}]

\* agent_node up to the run: the deps and their guard are the turn's own.
\* The host names the message the last turn left open, else a new one.
Start(start) ==
  /\ ~Running /\ Turns < MaxTurns
  /\ cp' = Input(start)
  /\ LET t == TurnFor(cp')
         resumed == t.values \cup t.clicks # {}
     IN turn' = [phase |-> IF resumed THEN "calls" ELSE "request", msgs |-> t.msgs,
                 clicks |-> t.clicks, values |-> t.values,
                 todo |-> IF resumed THEN Outstanding(t.msgs) ELSE {},
                 got |-> {}, deferred |-> {}, step |-> 1, used |-> 0, parts |-> FALSE,
                 fresh |-> ~resumed, cancel |-> FALSE, kept |-> <<>>,
                 approval |-> NoPark, durable |-> NoPark,
                 message |-> IF open # 0 /\ start.resume THEN open ELSE Len(rows) + 1]
  /\ rows' = IF open # 0 /\ start.resume THEN rows ELSE Append(rows, 0)
  /\ guard' = NewGuard
  /\ ghost' = [ghost EXCEPT !.turns = @ + 1, !.refused = {},
                 !.superseded = IF start.resume THEN @ ELSE @ \cup ({cp.approval.call} \ {NoCall})]
  /\ open' = 0
  /\ UNCHANGED <<kind, ran, asked, reported, charged>>

UserTurn == Start([approvals |-> {}, results |-> {}, resume |-> FALSE, prompt |-> Turns + 1])

\* A card that shows no outcome and no answer can be clicked, the parked one
\* or, with "stale", one a later message passed over.
AnswerTurn(c, yes) ==
  /\ c \in asked /\ (c = cp.approval.call \/ "stale" \in Faults)
  /\ Start([approvals |-> {[call |-> c, yes |-> yes]}, results |-> {}, resume |-> TRUE, prompt |-> 0])

TaskReports(c) ==
  /\ kind[c] \in Durable /\ ran[c] > 0 /\ c \notin reported
  /\ reported' = reported \cup {c}
  /\ UNCHANGED <<cp, kind, ran, asked, turn, guard, rows, open, charged, ghost>>

\* The worker's completion turn.  Which answers it gathers is its own concern
\* (DurableTasks); one of them is for the step the thread parked.
CompletionTurn(s) ==
  /\ s \subseteq reported /\ s \cap cp.durable.tasks # {}
  /\ Start([approvals |-> {}, results |-> s, resume |-> TRUE, prompt |-> 0])

Stop ==
  /\ "cancel" \in Faults /\ turn.phase \in {"request", "calls"} /\ ~turn.cancel
  /\ turn' = [turn EXCEPT !.cancel = TRUE]
  /\ UNCHANGED <<cp, kind, ran, asked, reported, guard, rows, open, charged, ghost>>

----------------------------------------------------------------------------
(* The run: requests, calls and results. *)

\* _absorb: what the run's result leaves on the capture.  A durable call
\* outranks an approval, and the first call of the step names the park.
FirstOf(s) == CHOOSE c \in s : \A d \in s : c <= d
Absorb(t, msgs, calls) ==
  LET tasks == {c \in calls : kind[c] \in Durable}
      park(s) == [call |-> FirstOf(s), tasks |-> tasks, msgs |-> msgs]
  IN [t EXCEPT !.phase = "node", !.msgs = msgs, !.kept = msgs, !.parts = TRUE,
        !.durable = IF tasks # {} THEN park(tasks) ELSE NoPark,
        !.approval = IF tasks = {} /\ calls # {} THEN park(calls) ELSE NoPark]

\* A stop ends the run before the next part the model starts.
StopSeen ==
  /\ turn.phase = "request" /\ turn.cancel
  /\ turn' = [turn EXCEPT !.phase = "node"]
  /\ UNCHANGED <<cp, kind, ran, asked, reported, guard, rows, open, charged, ghost>>

Requested == turn.phase = "request" /\ ~turn.cancel /\ turn.used < MaxRequests
Used(t) == [t EXCEPT !.used = @ + 1, !.step = @ + 1, !.parts = TRUE]

\* A response that calls tools: kinds ks, new calls.
Respond(ks) ==
  /\ Requested /\ Len(kind) + Len(ks) <= MaxCalls
  /\ LET new == Len(kind) + 1 .. Len(kind) + Len(ks)
     IN turn' = [Used(turn) EXCEPT !.phase = "calls", !.todo = new, !.got = {}, !.deferred = {},
                   !.msgs = Append(@, CallsOf(new)), !.clicks = {}, !.values = {}]
  /\ kind' = kind \o ks /\ ran' = ran \o [i \in DOMAIN ks |-> 0]
  /\ UNCHANGED <<cp, asked, reported, guard, rows, open, charged, ghost>>

\* A reply ends the run: text, text the provider paused, or the output
\* tool's call, which the run answers itself.
Reply(k) ==
  /\ Requested
  /\ IF ghost.typed
     THEN /\ k = "answer" /\ Len(kind) < MaxCalls
          /\ LET c == Len(kind) + 1
             IN turn' = Absorb(Used(turn), turn.msgs \o <<CallsOf({c}), Returns({c})>>, {})
          /\ kind' = Append(kind, "reply") /\ ran' = Append(ran, 0)
     ELSE /\ turn' = Absorb(Used(turn), Append(turn.msgs, IF k = "answer" THEN Answer ELSE Paused), {})
          /\ UNCHANGED <<kind, ran>>
  /\ UNCHANGED <<cp, asked, reported, guard, rows, open, charged, ghost>>

\* A result reached the stream; the one the guard stopped on ends the run.
Settle(c, g) ==
  LET t == [turn EXCEPT !.todo = @ \ {c}, !.got = @ \cup {c}]
  IN turn' = IF g.stopped = c THEN [t EXCEPT !.phase = "node"] ELSE t

InCalls(c) == turn.phase = "calls" /\ c \in turn.todo
Clicked(c, yes) == [call |-> c, yes |-> yes] \in turn.clicks
\* pydantic-ai resumes only with a result for every outstanding call.
Accepted == turn.fresh \/ turn.used > 0
            \/ Outstanding(turn.msgs) = turn.values \cup {a.call : a \in turn.clicks}

\* wrap_tool_execute: the guard's refusal is the call's result.  A durable
\* tool that runs creates its task and defers.
RunCall(c) ==
  /\ InCalls(c) /\ Accepted /\ c \notin turn.values
  /\ kind[c] \in Asks => Clicked(c, TRUE)
  /\ LET k == Check(guard, c, turn.step)
         defers == kind[c] \in Durable /\ ~k.block
     IN /\ guard' = k.g
        /\ ran' = IF k.block THEN ran ELSE [ran EXCEPT ![c] = @ + 1]
        /\ IF defers THEN turn' = [turn EXCEPT !.todo = @ \ {c}, !.deferred = @ \cup {c}]
                     ELSE Settle(c, k.g)
        /\ ghost' = IF k.block THEN [ghost EXCEPT !.refused = @ \cup {[kind |-> kind[c], step |-> turn.step]}]
                               ELSE ghost
  /\ asked' = asked \ {c}
  /\ UNCHANGED <<cp, kind, reported, rows, open, charged>>

\* A denied call, or a durable call the worker answered, runs nothing.
GiveResult(c) ==
  /\ InCalls(c) /\ Accepted /\ (c \in turn.values \/ Clicked(c, FALSE))
  /\ Settle(c, guard)
  /\ asked' = asked \ {c}
  /\ UNCHANGED <<cp, kind, ran, reported, guard, rows, open, charged, ghost>>

\* A call that needs an approval nobody gave waits.
Defer(c) ==
  /\ InCalls(c) /\ Accepted /\ kind[c] \in Asks
  /\ \A a \in turn.clicks : a.call # c
  /\ turn' = [turn EXCEPT !.todo = @ \ {c}, !.deferred = @ \cup {c}]
  /\ UNCHANGED <<cp, kind, ran, asked, reported, guard, rows, open, charged, ghost>>

\* The step is over: the next request, or the result that defers its calls,
\* whose approval requests reach the client.
EndStep ==
  /\ turn.phase = "calls" /\ turn.todo = {}
  /\ LET msgs == IF turn.got = {} THEN turn.msgs ELSE Append(turn.msgs, Returns(turn.got))
     IN turn' = IF turn.deferred = {}
                THEN [turn EXCEPT !.phase = "request", !.msgs = msgs, !.parts = TRUE]
                ELSE Absorb(turn, msgs, turn.deferred)
  /\ asked' = asked \cup {c \in turn.deferred : kind[c] \in Asks}
  /\ UNCHANGED <<cp, kind, ran, reported, guard, rows, open, charged, ghost>>

----------------------------------------------------------------------------
(* The ends of a turn. *)

\* The run raises: the model, a tool, the usage limit or a refused resume.
\* on_error tells the reader, and the node goes on without a result.
RunFails ==
  /\ turn.phase \in {"request", "calls"}
  /\ turn' = [turn EXCEPT !.phase = "node"]
  /\ UNCHANGED <<cp, kind, ran, asked, reported, guard, rows, open, charged, ghost>>

\* The node raises, or its process dies: the checkpoint keeps the turn's
\* input and nothing else.
Fail ==
  /\ turn.phase \in {"request", "calls"}
  /\ turn' = Idle
  /\ UNCHANGED <<cp, kind, ran, asked, reported, guard, rows, open, charged, ghost>>

\* agent_node's end: the charge and the state it returns.  A run without a
\* result kept no message, so the thread stays where it was.
EndAgent ==
  /\ turn.phase = "node"
  /\ cp' = [cp EXCEPT !.tokens = @ + turn.used, !.approval = turn.approval, !.durable = turn.durable,
              !.thread = IF turn.kept = <<>> THEN @ ELSE SettledHistory(turn.kept)]
  /\ charged' = charged + turn.used
  /\ ghost' = [ghost EXCEPT
                 !.dropped = IF turn.fresh THEN @ \cup ({cp.approval.call} \ {NoCall}) ELSE @]
  /\ turn' = [turn EXCEPT !.phase = "finalize"]
  /\ UNCHANGED <<kind, ran, asked, reported, guard, rows, open>>

\* write_turn_message: a turn without parts leaves no row, and a write that
\* fails leaves the turn as it is.  The row is the message's, and a turn that
\* continues the message replaces what it says.
Finalize(written) ==
  /\ turn.phase = "finalize"
  /\ rows' = IF turn.parts /\ written THEN [rows EXCEPT ![turn.message] = cp.tokens] ELSE rows
  /\ open' = IF turn.approval # NoPark \/ turn.durable # NoPark THEN turn.message ELSE 0
  /\ turn' = Idle
  /\ UNCHANGED <<cp, kind, ran, asked, reported, guard, charged, ghost>>

RunNext ==
  \/ StopSeen \/ EndStep
  \/ \E ks \in Responses : Respond(ks)
  \/ \E k \in {"answer", "paused"} : Reply(k)
  \/ \E c \in Calls : RunCall(c) \/ GiveResult(c) \/ Defer(c)

Next ==
  \/ UserTurn
  \/ \E c \in Calls, yes \in BOOLEAN : AnswerTurn(c, yes)
  \/ \E c \in Calls : TaskReports(c)
  \/ \E s \in SUBSET reported : CompletionTurn(s)
  \/ Stop \/ RunNext
  \/ RunFails \/ Fail \/ EndAgent
  \/ \E w \in BOOLEAN : Finalize(w)

Spec == Init /\ [][Next]_vars

----------------------------------------------------------------------------
(* Properties. *)

\* What a thread is made of: messages, parks and clicks, the checkpoint and the turn.
Message == [k : {"prompt", "calls", "returns", "answer", "paused"}, n : Nat, c : SUBSET Nat]
Park    == [call : Nat, tasks : SUBSET Nat, msgs : Seq(Message)]
Click   == [call : Nat, yes : BOOLEAN]

Checkpoint ==
  [prompt : Nat, thread : Seq(Message), approval : Park, durable : Park,
   approvals : SUBSET Click, results : SUBSET Nat, tokens : Nat]

Turn ==
  [phase : {"request", "calls", "node", "finalize"}, msgs : Seq(Message), kept : Seq(Message),
   clicks : SUBSET Click, values : SUBSET Nat, todo : SUBSET Nat, got : SUBSET Nat,
   deferred : SUBSET Nat, step : Nat, used : Nat, parts : BOOLEAN, fresh : BOOLEAN,
   cancel : BOOLEAN, approval : Park, durable : Park, message : Nat]

Guard ==
  [last : Kinds \cup {""}, count : Nat, warned : Nat, finds : Nat, capWarned : Nat, stopped : Nat]

\* Types: every variable holds what the code may store in it.
TypeOK ==
  /\ cp \in Checkpoint /\ turn \in Turn \cup {Idle} /\ guard \in Guard
  /\ kind \in Seq(Kinds) /\ ran \in Seq(Nat) /\ Len(ran) = Len(kind)
  /\ asked \subseteq Calls /\ reported \subseteq Calls
  /\ rows \in Seq(Nat) /\ open \in Nat /\ charged \in Nat
  /\ ghost \in [turns : Nat, typed : BOOLEAN, superseded : SUBSET Nat, dropped : SUBSET Nat,
                refused : SUBSET [kind : Kinds, step : Nat]]

\* The history a new prompt is appended to is one pydantic-ai accepts: it is
\* empty or ends on an answer or on the results of every call before it, and
\* no call in it waits for a result (thread_history.py).
ThreadAccepted ==
  /\ cp.thread = <<>> \/ Settled(cp.thread)
  /\ \A i \in DOMAIN cp.thread : cp.thread[i].k = "calls" =>
       cp.thread[i].c = UNION {cp.thread[j].c : j \in {x \in DOMAIN cp.thread :
                                  x > i /\ \A y \in i + 1 .. x : cp.thread[y].k = "returns"}}

\* A tool that needs approval runs only in the turn that carries the user's
\* yes to that call, only once, and never after a turn that answered nothing
\* has ended over its card (PROTOCOL.md section 6.2).
OnlyApprovedRuns ==
  [][\A c \in Calls : kind[c] \in Asks /\ ran'[c] # ran[c] =>
       /\ ran[c] = 0 /\ c \notin ghost.dropped
       /\ [call |-> c, yes |-> TRUE] \in cp.approvals]_vars

\* A step that asks the user about one call and defers another besides.
Crowded(calls) == \E c \in calls : kind[c] \in Asks /\ calls # {c}

\* A run that is re-entered is given results for calls its last response left
\* outstanding, and for each of them: a step that parked several durable calls
\* resumes when every task has reported, and a card with the user's answer to it.
\* Only a step with a card beside another deferred call is re-entered with less,
\* because the park keeps the first card, or the durable calls, alone
\* (pending_approval): pydantic-ai refuses that run.
ResumesWhole ==
  Running => LET t == TurnFor(cp)
                 given == t.values \cup {a.call : a \in t.clicks}
                 waiting == Outstanding(t.msgs)
             IN given # {} => given \subseteq waiting /\ (given = waiting \/ Crowded(waiting))

\* The guard ends a run only on a call the model made again after it read the
\* refusal of the same call, or of the same tool's cap, in an earlier response.
WarnedBeforeStopped ==
  guard.stopped # NoCall =>
    \E r \in ghost.refused, s \in ghost.refused :
      r.kind = kind[guard.stopped] /\ s.kind = r.kind /\ r.step < s.step

\* A message sent while a card waits drops the card's call: it never runs
\* (PROTOCOL.md section 6.2).
DroppedNeverRuns == \A c \in ghost.superseded : ran[c] = 0

\* The rows a conversation's accounting sums hold what its turns were charged.
RowsHoldCharges ==
  ~Running /\ (\A i \in DOMAIN rows : rows[i] # 0) =>
    FoldLeft(LAMBDA x, y : x + y, 0, rows) = charged
=============================================================================
