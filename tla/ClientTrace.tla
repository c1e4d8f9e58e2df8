----------------------------- MODULE ClientTrace -----------------------------
(***************************************************************************)
(* What a reader sees of one assistant message: the trace of its work, the *)
(* status line's phase, its usage and its tasks (core/trace.ts and what it *)
(* calls).                                                                 *)
(*                                                                         *)
(* The message grows part by part as a turn with a lead agent and its      *)
(* sub-agents writes it, is closed by the turn's end, and gathers the      *)
(* progress of a durable task afterwards.  Two reducers hold it: this      *)
(* package's own, which folds a tool's line onto its call, and the AI      *)
(* SDK's, which leaves the line beside it.  The readers are operators over *)
(* the parts.  The assistant that dispatches sub-agents is external.       *)
(*                                                                         *)
(* A part has its kind k, the id it is addressed by, its state, and x: the *)
(* phase of a dispatch, the call of a step, the line of a call, a text.    *)
(***************************************************************************)
EXTENDS Naturals, SequencesExt, TLC

CONSTANTS Calls,       \* the lead's tool calls
          Dispatches,  \* those of them that run a sub-agent
          Lanes,       \* of the durable task
          Phases,      \* a dispatch may run; "none" names none
          MaxParts, MaxSpend, None

TraceAssumption ==
  Dispatches \subseteq Calls /\ MaxParts \in Nat /\ MaxSpend \in Nat

VARIABLES folded,  \* the parts as this package's reducer holds them
          beside,  \* the parts as the SDK's does
          turn,    \* running, or how it ended
          spent,   \* what each agent has reported it spent (history)
          newest   \* the newest progress written, and the outcome (history)

vars == <<folded, beside, turn, spent, newest>>

Part(k, id, st, x) == [k |-> k, id |-> id, st |-> st, x |-> x, n |-> 0]
Parts(parts, k) == SelectSeq(parts, LAMBDA p : p.k = k)
Holds(parts, k) == \E i \in DOMAIN parts : parts[i].k = k
At(parts, k, id) == SelectInSeq(parts, LAMBDA p : p.k = k /\ p.id = id)

----------------------------------------------------------------------------
\* The walk over a message's parts.

\* A call that answered was never handed back, whatever its line says.
AnsweredStatus(line) == IF line \in {"none", "corrected"} THEN "ok" ELSE line
FailedStatus(line) == IF line = "corrected" THEN "corrected" ELSE "error"

RowStatus(p) ==
  CASE p.st = "input-available" -> "running"
    [] p.st = "approval-requested" -> "awaiting-approval"
    [] p.st = "output-error" -> FailedStatus(p.x)
    [] p.st = "output-denied" -> "denied"
    [] p.st = "output-available" -> AnsweredStatus(p.x)

Row(id, status, line) == [id |-> id, status |-> status, line |-> line]
ToolRow(p) == Row(p.id, RowStatus(p), p.x)

StepStatus == [started |-> "running", completed |-> "ok", failed |-> "error",
               corrected |-> "corrected", denied |-> "denied"]

\* A call's steps are one item, in the state of the last.
MergeStep(rows, p) ==
  LET i == SelectInSeq(rows, LAMBDA r : r.id = p.x)
      row == Row(p.x, StepStatus[p.st], "none")
  IN IF i = 0 THEN Append(rows, row) ELSE [rows EXCEPT ![i] = row]

StepRows(steps) == FoldLeft(MergeStep, <<>>, steps)

Group(key) == [key |-> key, phase |-> key, rows |-> <<>>, steps |-> <<>>, tokens |-> 0,
               st |-> "started", sub |-> FALSE]
NewWalk == [traces |-> <<>>, groups |-> <<>>, figures |-> 0, lines |-> << >>]

Finalize(g) == [key |-> g.key, phase |-> g.phase, tokens |-> g.tokens, st |-> g.st, sub |-> g.sub,
                rows |-> IF g.sub THEN StepRows(g.steps) ELSE g.rows]

\* A run without a row or a figure is none.
CloseRun(w) ==
  LET groups == [i \in DOMAIN w.groups |-> Finalize(w.groups[i])]
      empty == w.figures = 0 /\ \A i \in DOMAIN groups : groups[i].rows = <<>>
  IN [w EXCEPT !.groups = <<>>, !.figures = 0,
               !.traces = IF empty THEN @ ELSE Append(@, [groups |-> groups, figures |-> w.figures])]

\* Work goes to the group opened last, or opens one.
EnsureGroup(w, key) ==
  IF w.groups # <<>> /\ Last(w.groups).key = key THEN w
  ELSE [w EXCEPT !.groups = Append(@, Group(key))]

OpenDispatch(w, p) ==
  LET opened == EnsureGroup(w, p.id)
      i == Len(opened.groups)
  IN [opened EXCEPT !.groups[i].sub = TRUE, !.groups[i].st = p.st, !.groups[i].tokens = p.n,
                    !.groups[i].phase = IF p.x = "none" THEN @ ELSE p.x]

\* Mutant: a step goes to the dispatch opened last.
PushStepToLast(w, p) ==
  IF w.groups = <<>> \/ Last(w.groups).key # p.id THEN w
  ELSE [w EXCEPT !.groups[Len(w.groups)].steps = Append(@, p)]

\* A step whose dispatch the open run does not hold is dropped.
PushStep(w, p) ==
  LET i == SelectInSeq(w.groups, LAMBDA g : g.key = p.id)
  IN IF i = 0 THEN w ELSE [w EXCEPT !.groups[i].steps = Append(@, p)]

VisitTool(w, p) ==
  LET lead == EnsureGroup(w, "lead")
  IN [lead EXCEPT !.groups[Len(lead.groups)].rows = Append(@, ToolRow(p))]

Visit(w, p) ==
  CASE p.k = "text" -> IF p.x = "prose" THEN CloseRun(w) ELSE w
    [] p.k = "tool" -> VisitTool(w, p)
    [] p.k = "tool-summary" -> [w EXCEPT !.lines = (p.id :> p.x) @@ @]
    [] p.k = "dispatch" -> OpenDispatch(w, p)
    [] p.k = "step" -> PushStep(w, p)
    [] p.k = "figure" -> [w EXCEPT !.figures = @ + 1]
    [] OTHER -> w

\* How a turn that ended reads a dispatch it never resolved.
ClosingState(parts, ended) ==
  IF Holds(parts, "turn-stopped") THEN "cancelled"
  ELSE IF Holds(parts, "turn-failed") \/ Holds(parts, "turn-withdrawn") THEN "failed"
  ELSE IF ended THEN "superseded" ELSE "none"

\* Mutant: the calls inside a closed dispatch stay as they were.
ClosedAlone(g, state) == IF state # "none" /\ g.sub /\ g.st = "started" THEN [g EXCEPT !.st = state] ELSE g

\* Superseded work is still running where the turn left it.
Closed(g, state) ==
  IF state = "none" \/ ~g.sub \/ g.st # "started" THEN g
  ELSE [g EXCEPT !.st = state,
                 !.rows = [i \in DOMAIN @ |->
                   IF state # "superseded" /\ @[i].status = "running"
                   THEN [@[i] EXCEPT !.status = "stopped"] ELSE @[i]]]

\* Mutant: a line only changes the status of a call that answered.
LinedIfOk(row, lines) ==
  IF row.id \notin DOMAIN lines THEN row
  ELSE [row EXCEPT !.line = lines[row.id],
                   !.status = IF @ = "ok" THEN AnsweredStatus(lines[row.id]) ELSE @]

Lined(row, lines) ==
  IF row.id \notin DOMAIN lines THEN row
  ELSE [row EXCEPT !.line = lines[row.id],
                   !.status = CASE @ = "ok" -> AnsweredStatus(lines[row.id])
                                [] @ = "error" -> FailedStatus(lines[row.id])
                                [] OTHER -> @]

BuildTrace(parts, ended) ==
  LET walk == CloseRun(FoldLeft(Visit, NewWalk, parts))
      shown(g) == LET h == Closed(g, ClosingState(parts, ended))
                  IN [h EXCEPT !.rows = [i \in DOMAIN @ |-> Lined(@[i], walk.lines)]]
  IN [t \in DOMAIN walk.traces |->
        [walk.traces[t] EXCEPT !.groups = [g \in DOMAIN @ |-> shown(@[g])]]]

\* The SDK's part in the protocol's shape: an answer given leaves its call running.
ToolPart(p) == IF p.st = "approval-responded" THEN [p EXCEPT !.st = "input-available"] ELSE p

ToTraceParts(parts) ==
  LET named == SelectSeq(parts, LAMBDA p : p.k # "dynamic-tool")
  IN [i \in DOMAIN named |-> IF named[i].k = "tool" THEN ToolPart(named[i]) ELSE named[i]]

----------------------------------------------------------------------------
\* The other readers of the parts.

RunningPhase(parts) ==
  LET open == SelectSeq(Parts(parts, "dispatch"), LAMBDA p : p.x # "none" /\ p.st = "started")
  IN IF open = <<>> THEN None ELSE Last(open).x

TurnUsage(parts) ==
  [lead |-> FoldLeft(LAMBDA x, p : p.n, 0, Parts(parts, "lead-usage")),
   sub  |-> FoldLeft(LAMBDA x, p : x + p.n, 0, Parts(parts, "dispatch"))]

LaneOf(p) == p.x

\* The newest update of each lane, in the order of the parts, and the outcome.
TaskLifecycle(parts) ==
  [lanes |-> FoldLeft(LAMBDA f, p : (LaneOf(p) :> p.n) @@ f, << >>, Parts(parts, "task-progress")),
   completed |-> FoldLeft(LAMBDA x, p : p.st, "none", Parts(parts, "task-completed"))]

----------------------------------------------------------------------------
\* How the message is written: each part reaches both reducers.

Init ==
  /\ folded = <<>> /\ beside = <<>> /\ turn = "running"
  /\ spent = [a \in Dispatches \cup {"lead"} |-> 0]
  /\ newest = [progress |-> [l \in Lanes |-> 0], outcome |-> "none"]

\* Mutant: a payload is a part of its own, whatever its id.
PutAnew(parts, p) == Append(parts, p)

\* A part with an id replaces the one that holds it.
Put(parts, p) ==
  LET i == IF p.id = None THEN 0 ELSE At(parts, p.k, p.id)
  IN IF i = 0 THEN Append(parts, p) ELSE [parts EXCEPT ![i] = p]

Write(p) == folded' = Put(folded, p) /\ beside' = Put(beside, p)
Room == Len(beside) < MaxParts
StateOf(parts, k, id) == LET i == At(parts, k, id) IN IF i = 0 THEN "none" ELSE parts[i].st
State(c) == StateOf(folded, "tool", c)
Dispatched(d) == StateOf(folded, "dispatch", d)
Working == \E d \in Dispatches : Dispatched(d) = "started"
Waiting == \E c \in Calls : State(c) = "approval-requested"

\* The lead writes between its calls, one text at a time; a text of blanks is
\* written too.
Say(x) ==
  /\ turn = "running" /\ Room /\ ~Working
  /\ folded # <<>> => Last(folded).k # "text"
  /\ Write(Part("text", None, "done", x))
  /\ UNCHANGED <<turn, spent, newest>>

Call(c) ==
  /\ turn = "running" /\ Room /\ ~Working /\ State(c) = "none"
  /\ Write(Part("tool", c, "input-available", "none"))
  /\ UNCHANGED <<turn, spent, newest>>

OpenSubAgent(d, phase) ==
  /\ turn = "running" /\ Room
  /\ State(d) = "input-available" /\ Dispatched(d) = "none"
  /\ Write(Part("dispatch", d, "started", phase))
  /\ UNCHANGED <<turn, spent, newest>>

\* A call of the sub-agent starts, and ends.
SubAgentStep(d, state) ==
  LET steps == SelectSeq(folded, LAMBDA p : p.k = "step" /\ p.x = <<d, "call">>)
  IN /\ turn = "running" /\ Room /\ Dispatched(d) = "started"
     /\ Len(steps) = (IF state = "started" THEN 0 ELSE 1)
     /\ folded' = Append(folded, Part("step", d, state, <<d, "call">>))
     /\ beside' = Append(beside, Part("step", d, state, <<d, "call">>))
     /\ UNCHANGED <<turn, spent, newest>>

\* The dispatch's part is reconciled on its id: while it runs, and at its end.
ReportDispatch(d, state) ==
  LET part == folded[At(folded, "dispatch", d)]
  IN /\ turn = "running" /\ Dispatched(d) = "started" /\ spent[d] < MaxSpend
     /\ spent' = [spent EXCEPT ![d] = @ + 1]
     /\ Write([part EXCEPT !.st = state, !.n = spent[d] + 1])
     /\ UNCHANGED <<turn, newest>>

ReportLead ==
  /\ turn = "running" /\ Room /\ ~Working /\ spent["lead"] < MaxSpend
  /\ spent' = [spent EXCEPT !["lead"] = @ + 1]
  /\ Write([Part("lead-usage", "lead-usage", "none", "none") EXCEPT !.n = spent["lead"] + 1])
  /\ UNCHANGED <<turn, newest>>

\* One reducer folds the line onto its call, the other leaves it beside.
Settle(c, state, line) ==
  LET i == At(folded, "tool", c)
      j == At(beside, "tool", c)
      settled == [beside EXCEPT ![j].st = state]
  IN /\ folded' = [folded EXCEPT ![i].st = state, ![i].x = line]
     /\ beside' = IF line = "none" THEN settled
                  ELSE Append(settled, Part("tool-summary", c, "none", line))

ToolResult(c, state, line) ==
  /\ turn = "running" /\ Room /\ State(c) = "input-available"
  /\ c \in Dispatches => Dispatched(c) # "started"
  /\ line \in {"ok", "empty", "warn"} => state = "output-available"
  /\ line = "corrected" => state = "output-error"
  /\ Settle(c, state, line)
  /\ UNCHANGED <<turn, spent, newest>>

\* The step's deferred calls are asked of the user, and the turn ends.
Ask(c) ==
  /\ turn = "running" /\ State(c) = "input-available" /\ ~Working
  /\ Settle(c, "approval-requested", "none")
  /\ turn' = "ended"
  /\ UNCHANGED <<spent, newest>>

\* The user's answer: the SDK's part shows it before the server has it.
Respond(c) ==
  /\ turn = "ended" /\ State(c) = "approval-requested"
  /\ beside' = [beside EXCEPT ![At(beside, "tool", c)].st = "approval-responded"]
  /\ UNCHANGED <<folded, turn, spent, newest>>

\* The turn that answers goes on in the same message: approved calls run.
Continue(c, yes) ==
  /\ turn = "ended" /\ StateOf(beside, "tool", c) = "approval-responded"
  /\ Settle(c, IF yes THEN "input-available" ELSE "output-denied", "none")
  /\ turn' = "running"
  /\ UNCHANGED <<spent, newest>>

Figure ==
  /\ turn = "running" /\ Room /\ ~Working /\ ~Holds(folded, "figure")
  /\ Write(Part("figure", None, "none", "none"))
  /\ UNCHANGED <<turn, spent, newest>>

\* A turn ends with nothing open, or leaves its dispatches to a durable task.
EndTurn ==
  /\ turn = "running" /\ ~Waiting
  /\ \A c \in Calls : State(c) = "input-available" => c \in Dispatches /\ Dispatched(c) = "started"
  /\ turn' = "ended"
  /\ UNCHANGED <<folded, beside, spent, newest>>

StopTurn ==
  /\ turn = "running"
  /\ Write(Part("turn-stopped", None, "none", "none"))
  /\ turn' = "stopped"
  /\ UNCHANGED <<spent, newest>>

\* A turn that fails closes its open calls; one that is withdrawn need not.
FailTurn(kind) ==
  LET failed(p) == IF kind = "turn-failed" /\ p.k = "tool" /\ p.st = "input-available"
                   THEN [p EXCEPT !.st = "output-error"] ELSE p
      closed(parts) == Append([i \in DOMAIN parts |-> failed(parts[i])], Part(kind, None, "none", "none"))
  IN /\ turn = "running"
     /\ folded' = closed(folded) /\ beside' = closed(beside)
     /\ turn' = "failed"
     /\ UNCHANGED <<spent, newest>>

\* The gap after a turn that left a durable task: a lane's progress has an id.
TaskProgress(lane) ==
  /\ turn = "ended" /\ Working /\ Room
  /\ newest.outcome = "none" /\ newest.progress[lane] < MaxSpend
  /\ newest' = [newest EXCEPT !.progress[lane] = @ + 1]
  /\ Write([Part("task-progress", lane, "none", lane) EXCEPT !.n = newest.progress[lane] + 1])
  /\ UNCHANGED <<turn, spent>>

TaskCompleted(status) ==
  /\ turn = "ended" /\ Working /\ Room /\ newest.outcome = "none"
  /\ newest' = [newest EXCEPT !.outcome = status]
  /\ Write(Part("task-completed", None, status, "none"))
  /\ UNCHANGED <<turn, spent>>

Next ==
  \/ \E x \in {"prose", "blank"} : Say(x)
  \/ ReportLead \/ Figure \/ EndTurn \/ StopTurn
  \/ \E c \in Calls :
       \/ Call(c) \/ Ask(c) \/ Respond(c)
       \/ \E yes \in BOOLEAN : Continue(c, yes)
       \/ \E state \in {"output-available", "output-error"}, line \in {"none", "warn", "corrected"} :
            ToolResult(c, state, line)
  \/ \E d \in Dispatches :
       \/ \E phase \in Phases : OpenSubAgent(d, phase)
       \/ \E state \in {"started", "completed"} : SubAgentStep(d, state)
       \/ \E state \in {"started", "completed", "failed"} : ReportDispatch(d, state)
  \/ \E kind \in {"turn-failed", "turn-withdrawn"} : FailTurn(kind)
  \/ \E lane \in Lanes : TaskProgress(lane)
  \/ \E status \in {"success", "failed"} : TaskCompleted(status)

\* A dispatch is like another, and a lane: only invariants are checked with it.
Symmetry == Permutations(Dispatches) \cup Permutations(Lanes)

Spec == Init /\ [][Next]_vars

----------------------------------------------------------------------------
\* Properties.

Trace == BuildTrace(folded, turn # "running")
GroupsOf(trace) == UNION {ToSet(trace[t].groups) : t \in DOMAIN trace}

\* No dispatch of a turn that is over is shown as started, and no call of one
\* the turn left open as running, unless it is superseded (PROTOCOL.md section 6).
NothingRunsOn ==
  turn # "running" =>
    \A g \in {h \in GroupsOf(Trace) : h.sub} :
      /\ g.st # "started"
      /\ g.st # "superseded" /\ Dispatched(g.key) = "started" =>
           \A i \in DOMAIN g.rows : g.rows[i].status # "running"

\* A call inside failed work of a turn that is over is not shown as running,
\* whoever said it failed.
FailedWorkStops ==
  turn # "running" =>
    \A g \in {h \in GroupsOf(Trace) : h.sub /\ h.st = "failed"} :
      \A i \in DOMAIN g.rows : g.rows[i].status # "running"

\* No call is lost between two runs: the lead's is in one row of a lead group,
\* and a sub-agent's in one row of its dispatch's.
EveryCallShown ==
  LET keyed(g) == [r \in DOMAIN g.rows |-> <<g.key, g.rows[r].id>>]
      ofRun(acc, run) == FoldLeft(LAMBDA x, g : x \o keyed(g), acc, run.groups)
      shown == FoldLeft(ofRun, <<>>, Trace)
      once(key, id) == Len(SelectSeq(shown, LAMBDA r : r = <<key, id>>)) = 1
  IN \A i \in DOMAIN folded :
       /\ folded[i].k = "tool" => once("lead", folded[i].id)
       /\ folded[i].k = "step" => once(folded[i].id, folded[i].x)

\* One trace is read whether the line is folded or sits beside the call
\* (messageParts.ts: both shapes reach a reader unchanged).
SameTrace ==
  (\A i \in DOMAIN beside : beside[i].st # "approval-responded")
    => BuildTrace(ToTraceParts(beside), turn # "running") = Trace

\* The status line names the phase of a dispatch that is open, and wherever the
\* trace shows that dispatch it shows it open and in that phase.
PhaseShown ==
  LET phase == RunningPhase(folded)
      holds(d) == folded[At(folded, "dispatch", d)].x = phase
  IN turn = "running" /\ phase # None =>
       \E d \in Dispatches :
         /\ Dispatched(d) = "started" /\ holds(d)
         /\ \A g \in GroupsOf(Trace) : g.key = d => g.st = "started" /\ g.phase = phase

\* What reads one message apart says one thing of it: the trace of either
\* reducer, and the trace beside the status line (dispatch.ts: the two can
\* never name different phases).
ReadersAgree == SameTrace /\ PhaseShown

\* However often an agent reports its usage, it is counted once, at its last report.
UsageOnce ==
  LET usage == TurnUsage(folded)
  IN /\ usage.lead = spent["lead"]
     /\ usage.sub = FoldLeft(LAMBDA x, d : x + spent[d], 0, SetToSeq(Dispatches))

\* A task's lanes each show their newest update, and the task its outcome.
LanesShown ==
  LET task == TaskLifecycle(folded)
  IN /\ \A l \in Lanes : newest.progress[l] > 0 =>
          l \in DOMAIN task.lanes /\ task.lanes[l] = newest.progress[l]
     /\ task.completed = newest.outcome

\* What is reported again and again on one id is read at its last report, in
\* whatever order agents and lanes report (usage.ts, tasks.ts).
LastReportStands == UsageOnce /\ LanesShown

\* Everything a message holds is shown, and once: each call in one row, and what
\* was reported again at its last report.
ShownWhole == EveryCallShown /\ LastReportStands
=============================================================================
