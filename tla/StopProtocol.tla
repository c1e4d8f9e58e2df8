----------------------------- MODULE StopProtocol -----------------------------
(***************************************************************************)
(* How a turn of one thread is stopped: a stop writes a row the running     *)
(* worker polls, releases the job of a dead worker, takes a queued job out  *)
(* of the queue, and a caller that will delete the thread waits until the   *)
(* newest chunk of the log closes a turn.                                   *)
(*                                                                         *)
(* Code: conversation/cancellation.py, tasks/maintenance.py, tasks/         *)
(* chat_turn.py and persistence/repositories/chat_turn_cancellations.py.    *)
(* The host's POST handler and its turn driver are external: they follow    *)
(* docs/knowledge/conventions/embedding-the-runtime-in-a-host.md.           *)
(***************************************************************************)
EXTENDS Naturals, Sequences, FiniteSets

CONSTANTS
    Turns,      \* chat turns the user may send
    Tasks,      \* durable tasks of an earlier turn, queued under the same lock
    Workers,    \* job runners
    Deleters,   \* callers of stop_turn_before_delete
    Buttons,    \* callers of cancel_active_turn
    Sweepers,   \* runs of release_stalled_jobs
    None,       \* no turn, no agent
    MaxText,    \* chunks the turns write before their closing ones
    MaxGaps,    \* progress rows of the tasks
    MaxFaults   \* processes that die

Stoppers  == Deleters \cup Buttons
Releasers == Stoppers \cup Sweepers
Agents    == Workers \cup Releasers
Jobs      == Turns \cup Tasks

ASSUME Identities ==
    /\ Turns \cap Tasks = {} /\ None \notin Jobs \cup Agents
    /\ Workers \cap Releasers = {} /\ Stoppers \cap Sweepers = {}
    /\ Deleters \cap Buttons = {}
ASSUME Bounds == MaxText \in Nat /\ MaxGaps \in Nat /\ MaxFaults \in Nat

VARIABLES
    log,        \* the thread's chunks with task_id NULL, oldest first
    stops,      \* turns with a chat_turn_cancellations row
    post,       \* where the POST of each turn is, and the turn it found open
    job,        \* procrastinate_jobs.status, "gone" once the row is deleted or finished
    ahead,      \* the queued jobs of a smaller id than a queued job
    silent,     \* the heartbeat of the dead holder is older than the window
    lease,      \* the agent holding release_job:<job>
    agent,      \* what each agent is in the middle of
    faults      \* processes that died so far

vars == <<log, stops, post, job, ahead, silent, lease, agent, faults>>

Kind   == {"ask", "text", "stopped", "failed", "done", "progress"}
Row    == [turn : Turns \cup {None}, kind : Kind]
Status == {"none", "todo", "doing", "cancelled", "gone"}

PostPC == {"new", "stop", "ask", "defer", "sent", "dead"}
PC == {"idle", "run", "closing", "finish",                     \* a worker
       "request", "dead", "queued", "cancel", "tell", "close", \* a stop
       "poll", "clean", "refused",
       "lease", "settle", "error", "end", "release"}           \* _release_job

(* job: the job it runs or releases. turn: the turn a stop found open.      *)
Agent == [pc : PC, job : Jobs \cup {None}, turn : Turns \cup {None}]
Idle  == [pc |-> "idle", job |-> None, turn |-> None]

TypeOK ==
    /\ log \in Seq(Row)
    /\ stops \in SUBSET Turns
    /\ post \in [Turns -> [pc : PostPC, found : Turns \cup {None}]]
    /\ job \in [Jobs -> Status]
    /\ ahead \in [Jobs -> SUBSET Jobs]
    /\ silent \in BOOLEAN
    /\ lease \in [Jobs -> Releasers \cup {None}]
    /\ agent \in [Agents -> Agent]
    /\ faults \in 0..MaxFaults

(* A task of an earlier turn, whose rows are older than the log's first,    *)
(* may still be queued.                                                     *)
Init ==
    /\ log = <<>>
    /\ stops = {}
    /\ post = [t \in Turns |-> [pc |-> "new", found |-> None]]
    /\ \E queued \in SUBSET Tasks :
          job = [j \in Jobs |-> IF j \in queued THEN "todo" ELSE "none"]
    /\ ahead = [j \in Jobs |-> {}]
    /\ silent = FALSE
    /\ lease = [j \in Jobs |-> None]
    /\ agent = [p \in Agents |-> Idle]
    /\ faults = 0

-----------------------------------------------------------------------------
(* What the code reads of the log and of the queue *)

At(p, s) == agent[p].pc = s

Become(p, a) == agent' = [agent EXCEPT ![p] = a]

Goto(p, s) == Become(p, [agent[p] EXCEPT !.pc = s])

Write(t, k) == log' = Append(log, [turn |-> t, kind |-> k])

Has(t, k) == \E i \in DOMAIN log : log[i] = [turn |-> t, kind |-> k]

\* Mutant: data-turn-stopped already counts as the end of a turn.
OpenTurnUntilStopped ==
    IF log = <<>> \/ log[Len(log)].kind \in {"done", "stopped"} THEN None
                                                               ELSE log[Len(log)].turn

\* _open_turns of this thread: the turn of the newest row, when it closes nothing.
OpenTurn ==
    IF log = <<>> \/ log[Len(log)].kind = "done" THEN None ELSE log[Len(log)].turn

\* Mutant: any newest row speaks for the stream, a task's progress included.
StreamIsOpenByRow == OpenTurn # None

\* _chat_stream_is_open: the newest row of a turn is not a terminator.
StreamIsOpen ==
    \E i \in DOMAIN log :
       /\ log[i].turn # None /\ log[i].kind # "done"
       /\ \A n \in DOMAIN log : n > i => log[n].turn = None

Doing == {j \in Jobs : job[j] = "doing"}

\* Mutant: a dead worker's job is skipped when its stream needs no closing.
DeadOpenJobs == IF silent /\ StreamIsOpen THEN Doing ELSE {}

\* get_stalled_jobs: in status doing under a worker whose heartbeat stopped.
DeadJobs == IF silent THEN Doing ELSE {}

\* A job leaves the queue.
Leaves(j, s) ==
    /\ job' = [job EXCEPT ![j] = s]
    /\ ahead' = [k \in Jobs |-> ahead[k] \ {j}]

-----------------------------------------------------------------------------
(* The host's POST: stop the turn in flight, say what was asked, defer *)

PostPos(t, s, u) == post' = [post EXCEPT ![t] = [pc |-> s, found |-> u]]

\* cancel_in_flight_turn reads the log ...
PostReads(t) ==
    /\ post[t].pc = "new"
    /\ PostPos(t, IF OpenTurn = None THEN "ask" ELSE "stop", OpenTurn)
    /\ UNCHANGED <<log, stops, job, ahead, silent, lease, agent, faults>>

\* ... and writes the stop of the turn it found.
PostStops(t) ==
    /\ post[t].pc = "stop"
    /\ stops' = stops \cup {post[t].found}
    /\ PostPos(t, "ask", None)
    /\ UNCHANGED <<log, job, ahead, silent, lease, agent, faults>>

\* The user's message and the queued status, tagged with the new turn.
PostAsks(t) ==
    /\ post[t].pc = "ask"
    /\ Write(t, "ask")
    /\ PostPos(t, "defer", None)
    /\ UNCHANGED <<stops, job, ahead, silent, lease, agent, faults>>

\* defer_chat_turn.
PostDefers(t) ==
    /\ post[t].pc = "defer"
    /\ job' = [job EXCEPT ![t] = "todo"]
    /\ ahead' = [ahead EXCEPT ![t] = {j \in Jobs : job[j] = "todo"}]
    /\ PostPos(t, "sent", None)
    /\ UNCHANGED <<log, stops, silent, lease, agent, faults>>

\* The serving process dies with the message on the log and no job.
PostDies(t) ==
    /\ post[t].pc = "defer" /\ faults < MaxFaults
    /\ faults' = faults + 1
    /\ PostPos(t, "dead", None)
    /\ UNCHANGED <<log, stops, job, ahead, silent, lease, agent>>

-----------------------------------------------------------------------------
(* A worker: one job of the thread at a time, oldest first *)

Take(w) == \E j \in Jobs :
    /\ At(w, "idle") /\ Doing = {} /\ job[j] = "todo"
    /\ ahead[j] = {}
    /\ Leaves(j, "doing")
    /\ Become(w, [Idle EXCEPT !.pc = "run", !.job = j])
    /\ UNCHANGED <<log, stops, post, silent, lease, faults>>

\* A chunk of the turn.
WriteText(w) ==
    /\ At(w, "run") /\ agent[w].job \in Turns
    /\ Cardinality({i \in DOMAIN log : log[i].kind = "text"}) < MaxText
    /\ Write(agent[w].job, "text")
    /\ UNCHANGED <<stops, post, job, ahead, silent, lease, agent, faults>>

\* _ThreadLog._append of a task: a row of no turn.
WriteProgress(w) ==
    /\ At(w, "run") /\ agent[w].job \in Tasks
    /\ Cardinality({i \in DOMAIN log : log[i].kind = "progress"}) < MaxGaps
    /\ Write(None, "progress")
    /\ UNCHANGED <<stops, post, job, ahead, silent, lease, agent, faults>>

\* turn_is_cancelled: the driver reads the stop and ends the turn as stopped.
Notice(w) ==
    /\ At(w, "run") /\ agent[w].job \in stops
    /\ Write(agent[w].job, "stopped")
    /\ Goto(w, "closing")
    /\ UNCHANGED <<stops, post, job, ahead, silent, lease, faults>>

\* The closing chunk of a turn; a turn that was not stopped ends when it will.
CloseTurn(w) ==
    /\ At(w, "run") \/ At(w, "closing")
    /\ agent[w].job \in Turns
    /\ Write(agent[w].job, "done")
    /\ Goto(w, "finish")
    /\ UNCHANGED <<stops, post, job, ahead, silent, lease, faults>>

EndTask(w) ==
    /\ At(w, "run") /\ agent[w].job \in Tasks
    /\ Goto(w, "finish")
    /\ UNCHANGED <<log, stops, post, job, ahead, silent, lease, faults>>

FinishJob(w) ==
    /\ At(w, "finish")
    /\ job' = [job EXCEPT ![agent[w].job] = "gone"]
    /\ Become(w, Idle)
    /\ UNCHANGED <<log, stops, post, ahead, silent, lease, faults>>

\* The worker is killed: its job stays in status doing.
Crash(w) ==
    /\ ~At(w, "idle") /\ faults < MaxFaults
    /\ faults' = faults + 1
    /\ Become(w, Idle)
    /\ UNCHANGED <<log, stops, post, job, ahead, silent, lease>>

\* worker_dead_heartbeat_seconds pass without a beat.
Lapse ==
    /\ ~silent /\ Doing \ {agent[w].job : w \in Workers} # {}
    /\ silent' = TRUE
    /\ UNCHANGED <<log, stops, post, job, ahead, lease, agent, faults>>

-----------------------------------------------------------------------------
(* _release_job, run by a sweep or by a stop *)

\* What the releaser does next: only a caller that deletes goes on.
Released(p) ==
    IF p \in Deleters THEN [Idle EXCEPT !.pc = "queued", !.turn = agent[p].turn] ELSE Idle

\* release_stalled_jobs lists the jobs of dead workers.
SweepLists(s) == \E j \in DeadJobs :
    /\ At(s, "idle")
    /\ Become(s, [Idle EXCEPT !.pc = "lease", !.job = j])
    /\ UNCHANGED <<log, stops, post, job, ahead, silent, lease, faults>>

\* The advisory lease of this job, or the next job when another holds it.
TakeLease(p) ==
    /\ At(p, "lease") /\ lease[agent[p].job] = None
    /\ lease' = [lease EXCEPT ![agent[p].job] = p]
    /\ Goto(p, "settle")
    /\ UNCHANGED <<log, stops, post, job, ahead, silent, faults>>

LeaseIsTaken(p) ==
    /\ At(p, "lease") /\ lease[agent[p].job] # None
    /\ Become(p, Released(p))
    /\ UNCHANGED <<log, stops, post, job, ahead, silent, lease, faults>>

\* _close_stalled_turn reads whether the thread's stream is open ...
Settle(p) ==
    /\ At(p, "settle")
    /\ Goto(p, IF agent[p].job \in Turns /\ StreamIsOpen THEN "error" ELSE "release")
    /\ UNCHANGED <<log, stops, post, job, ahead, silent, lease, faults>>

\* ... and writes the error, the failed part and the terminator of its turn.
WriteError(p) ==
    /\ At(p, "error")
    /\ Write(agent[p].job, "failed")
    /\ Goto(p, "end")
    /\ UNCHANGED <<stops, post, job, ahead, silent, lease, faults>>

WriteDone(p) ==
    /\ At(p, "end")
    /\ Write(agent[p].job, "done")
    /\ Goto(p, "release")
    /\ UNCHANGED <<stops, post, job, ahead, silent, lease, faults>>

\* finish_job with delete_job: it raises when the job is gone, and so does the stop.
ReleaseJob(p) ==
    LET j == agent[p].job
    IN /\ At(p, "release")
       /\ lease' = [lease EXCEPT ![j] = None]
       /\ IF j \in Doing
          THEN /\ job' = [job EXCEPT ![j] = "gone"] /\ silent' = FALSE
               /\ Become(p, Released(p))
          ELSE UNCHANGED <<job, silent>> /\ Become(p, Idle)
       /\ UNCHANGED <<log, stops, post, ahead, faults>>

-----------------------------------------------------------------------------
(* stop_turn_before_delete and cancel_active_turn *)

\* Nothing open: the delete goes on at once, and a stop does nothing.
FindsNothing(s) ==
    /\ At(s, "idle")
    /\ s \in Deleters /\ OpenTurn = None
    /\ Goto(s, "clean")
    /\ UNCHANGED <<log, stops, post, job, ahead, silent, lease, faults>>

FindsTurn(s) ==
    /\ At(s, "idle")
    /\ OpenTurn # None
    /\ Become(s, [Idle EXCEPT !.pc = "request", !.turn = OpenTurn])
    /\ UNCHANGED <<log, stops, post, job, ahead, silent, lease, faults>>

\* request_cancel: insert on conflict do nothing.
RequestCancel(s) ==
    /\ At(s, "request")
    /\ stops' = stops \cup {agent[s].turn}
    /\ Goto(s, "dead")
    /\ UNCHANGED <<log, post, job, ahead, silent, lease, faults>>

\* release_dead_turn: the thread's chat turn, whichever it is, of a dead worker.
ReleaseDead(s) ==
    /\ At(s, "dead")
    /\ \/ \E j \in DeadJobs \cap Turns :
             Become(s, [agent[s] EXCEPT !.pc = "lease", !.job = j])
       \/ DeadJobs \cap Turns = {} /\ Become(s, Released(s))
    /\ UNCHANGED <<log, stops, post, job, ahead, silent, lease, faults>>

\* close_queued_turn lists the queued jobs of the turn it found ...
ListQueued(s) ==
    /\ At(s, "queued")
    /\ Goto(s, IF job[agent[s].turn] = "todo" THEN "cancel" ELSE "poll")
    /\ UNCHANGED <<log, stops, post, job, ahead, silent, lease, faults>>

\* Mutant: the job is cancelled whatever became of it since it was listed.
CancelListed(s) ==
    /\ At(s, "cancel")
    /\ Leaves(agent[s].turn, "cancelled")
    /\ Goto(s, "tell")
    /\ UNCHANGED <<log, stops, post, silent, lease, faults>>

\* ... and cancels the one that is still queued by then.
CancelJob(s) ==
    LET t == agent[s].turn
    IN /\ At(s, "cancel")
       /\ IF job[t] = "todo"
          THEN Leaves(t, "cancelled") /\ Goto(s, "tell")
          ELSE UNCHANGED <<job, ahead>> /\ Goto(s, "poll")
       /\ UNCHANGED <<log, stops, post, silent, lease, faults>>

TellStopped(s) ==
    /\ At(s, "tell")
    /\ Write(agent[s].turn, "stopped")
    /\ Goto(s, "close")
    /\ UNCHANGED <<stops, post, job, ahead, silent, lease, faults>>

CloseQueued(s) ==
    /\ At(s, "close")
    /\ Write(agent[s].turn, "done")
    /\ Goto(s, "poll")
    /\ UNCHANGED <<stops, post, job, ahead, silent, lease, faults>>

\* stop_turns_and_wait polls until the thread shows no open turn ...
PollClean(s) ==
    /\ At(s, "poll") /\ OpenTurn = None
    /\ Become(s, [Idle EXCEPT !.pc = "clean"])
    /\ UNCHANGED <<log, stops, post, job, ahead, silent, lease, faults>>

\* ... or the deadline passes: TurnStillRunningError.
Deadline(s) ==
    /\ At(s, "poll")
    /\ Become(s, [Idle EXCEPT !.pc = "refused"])
    /\ UNCHANGED <<log, stops, post, job, ahead, silent, lease, faults>>

\* The process of a stop or of a sweep dies: its session's advisory lock goes.
Dies(p) ==
    /\ agent[p].pc \notin {"idle", "clean", "refused"} /\ faults < MaxFaults
    /\ faults' = faults + 1
    /\ lease' = [j \in Jobs |-> IF lease[j] = p THEN None ELSE lease[j]]
    /\ Become(p, Idle)
    /\ UNCHANGED <<log, stops, post, job, ahead, silent>>

-----------------------------------------------------------------------------
Post(t) == PostReads(t) \/ PostStops(t) \/ PostAsks(t) \/ PostDefers(t) \/ PostDies(t)

Work(w) ==
    \/ Take(w) \/ WriteText(w) \/ WriteProgress(w) \/ Notice(w)
    \/ CloseTurn(w) \/ EndTask(w) \/ FinishJob(w) \/ Crash(w)

ReleaseStep(p) ==
    TakeLease(p) \/ LeaseIsTaken(p) \/ Settle(p) \/ WriteError(p) \/ WriteDone(p) \/ ReleaseJob(p)

Stop(s) ==
    \/ FindsTurn(s) \/ FindsNothing(s) \/ RequestCancel(s) \/ ReleaseDead(s)
    \/ ListQueued(s) \/ CancelJob(s) \/ TellStopped(s) \/ CloseQueued(s)
    \/ PollClean(s) \/ Deadline(s)

Next ==
    \/ \E t \in Turns : Post(t)
    \/ \E w \in Workers : Work(w)
    \/ \E p \in Releasers : ReleaseStep(p) \/ Dies(p)
    \/ \E s \in Stoppers : Stop(s)
    \/ \E s \in Sweepers : SweepLists(s)
    \/ Lapse

Spec == Init /\ [][Next]_vars

(* A driver polls the stop until it reads it, then closes; workers and       *)
(* releasers go on; the sweep runs on a schedule. A turn nobody stopped may  *)
(* run for ever, and so may the wait of a delete.                           *)
Fairness ==
    /\ \A w \in Workers :
          /\ WF_vars(Notice(w))
          /\ WF_vars(At(w, "closing") /\ CloseTurn(w))
          /\ WF_vars(FinishJob(w))
    /\ \A p \in Releasers : WF_vars(ReleaseStep(p))
    /\ \A s \in Sweepers : WF_vars(SweepLists(s))
    /\ WF_vars(Lapse)

FairSpec == Spec /\ Fairness

-----------------------------------------------------------------------------
(* Properties *)

\* The agents that write, or are about to write, chunks of turn t.
Writers(t) ==
    {w \in Workers : agent[w].job = t /\ agent[w].pc \in {"run", "closing"}}
    \cup {p \in Releasers : agent[p].job = t /\ agent[p].pc \in {"error", "end"}}
    \cup {s \in Stoppers : agent[s].turn = t /\ agent[s].pc \in {"tell", "close"}}

(* No two of a turn's worker, the releaser that closes a killed turn and    *)
(* the stop that closes a queued one write its chunks at the same time: the *)
(* lease, the thread lock and the cancel of a job still queued keep them    *)
(* apart.                                                                   *)
OneWriterPerTurn ==
    \A t \in Turns : \A p, q \in Writers(t) : p = q

\* A row of another turn, or of none, follows the first row of turn t.
Overtaken(t) ==
    \E i, n \in DOMAIN log : i < n /\ log[i].turn = t /\ log[n].turn # t

LetsDelete(s) == agent[s].pc # "clean" /\ agent'[s].pc = "clean"

(* stop_turn_before_delete returns while a live worker still writes a turn   *)
(* only if that turn is not the newest on the log: a later message or a     *)
(* task's progress came after its first row.                                *)
DeleteWaits ==
    [][\A s \in Deleters : LetsDelete(s) =>
          \A w \in Workers, t \in Turns : w \in Writers(t) => Overtaken(t)]_vars

(* What stop_turns_and_wait says of itself: "Stop every in-flight turn on   *)
(* these threads and wait for their workers."                               *)
DeleteWaitsForWorkers ==
    [][\A s \in Deleters : LetsDelete(s) =>
          \A w \in Workers, t \in Turns : w \notin Writers(t)]_vars

\* A row of another turn follows the last row of turn t.
Buried(t) ==
    \E n \in DOMAIN log :
       /\ log[n].turn \notin {t, None}
       /\ \A i \in DOMAIN log : log[i].turn = t => i < n

(* A turn whose job is over has its closing chunk, or the message of a       *)
(* later turn came after its last one: nothing leaves a reader of the       *)
(* newest turn waiting. The worker of a killed turn is the one process that *)
(* may have died: a releaser or a stop that dies between two of its writes  *)
(* leaves the stream as it is.                                              *)
EndsClosed ==
    \A t \in Turns :
       /\ Writers(t) = {}
       /\ (job[t] = "gone" /\ faults <= 1) \/ (job[t] = "cancelled" /\ faults = 0)
       => Has(t, "done") \/ Buried(t)

(* PROTOCOL.md, section 6: a turn ends with exactly one done chunk.          *)
OneDonePerTurn ==
    \A i, n \in DOMAIN log :
       log[i].kind = "done" /\ log[n].kind = "done" /\ log[i].turn = log[n].turn => i = n

(* A turn that runs and was asked to stop ends: its worker reads the row,    *)
(* or a sweep or a stop releases the job of a dead one.                     *)
StopEndsRunningTurn ==
    \A t \in Turns : (job[t] = "doing" /\ t \in stops) ~> job[t] = "gone"
=============================================================================
