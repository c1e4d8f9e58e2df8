----------------------------- MODULE DurableTasks -----------------------------
(***************************************************************************)
(* The durable tasks of one thread: a turn parks on the calls it deferred,  *)
(* workers run their jobs one at a time under the thread lock, the last     *)
(* task to report opens the turn that answers every parked call, and a      *)
(* sweep settles the jobs of workers that died.                             *)
(*                                                                         *)
(* Code: tasks/runner.py, tasks/completion_turn.py, tasks/maintenance.py,   *)
(* tasks/service.py, tasks/decorator.py, platform/lease.py and              *)
(* persistence/repositories/background_tasks.py of assistant-core.          *)
(***************************************************************************)
EXTENDS Naturals, Sequences, FiniteSets

CONSTANTS
    Tasks,      \* ids of background_tasks rows a turn may create
    Turns,      \* chat turns the user may send
    Workers,    \* job runners
    Sweepers,   \* runs of release_stalled_jobs that may overlap
    None,       \* no job, no task
    Faults,     \* the kinds of fault this instance may inject
    MaxFaults   \* how many crashes and failed writes it injects

FaultKinds == {"crash", "io", "peek", "turn", "refuse", "stop", "age"}

ASSUME Identities ==
    /\ Tasks \cap Turns = {}
    /\ Workers \cap Sweepers = {}
    /\ None \notin Tasks \cup Turns \cup Sweepers
ASSUME FaultAssumption == Faults \subseteq FaultKinds /\ MaxFaults \in Nat

Jobs  == Tasks \cup Turns
Procs == Workers \cup Sweepers

Active   == {"pending", "running", "resuming", "result_ready"}
Reported == {"result_ready", "resuming", "complete", "failed"}
Closed   == {"complete", "failed"}
RowState == Active \cup Closed \cup {"absent"}
Verdict  == {"success", "failed"}

VARIABLES
    row,        \* background_tasks.status, "absent" when there is no row
    announced,  \* the data-task-completed chunks on the thread's log, per task
    parked,     \* the task ids of the checkpoint's pending_durable_call
    told,       \* the answers completion turns were opened with, per task
    unsent,     \* chat turns the user has not sent
    unused,     \* task ids uuid4 has not drawn
    queue,      \* unfinished jobs under the thread lock, oldest first
    busy,       \* the oldest of them is in status doing
    lease,      \* the sweeper holding release_job:<job>
    agent,      \* what each worker and each sweeper is in the middle of
    faults,     \* crashes and failed writes so far
    late,       \* history: sweepers that settled a job another had released
    spoilt      \* history: tasks a completion turn that raised closed as failed

vars == <<row, announced, parked, told, unsent, unused, queue, busy, lease, agent, faults, late,
          spoilt>>

PC == {"idle", "picked", "body", "failing", "announce", "peek", "marking", "turn",
       "finalize", "close", "finish", "sweep", "settle"}

(* hold: its job. verdict, fallback: the arguments of _answer_and_settle.   *)
(* marks: rows still to mark resuming. closing, erred: what the completion  *)
(* turn answered, and how it ended. calls, making: the deferrals of the     *)
(* running turn. seen: the jobs a sweep still has to release.               *)
Agent == [pc : PC, hold : Jobs \cup {None}, verdict : Verdict,
          fallback : SUBSET Tasks, marks : SUBSET Tasks, closing : SUBSET Tasks,
          erred : BOOLEAN, calls : SUBSET Tasks, making : Tasks \cup {None},
          seen : SUBSET Jobs]

Idle == [pc |-> "idle", hold |-> None, verdict |-> "success", fallback |-> {},
         marks |-> {}, closing |-> {}, erred |-> FALSE, calls |-> {},
         making |-> None, seen |-> {}]

TypeOK ==
    /\ row \in [Tasks -> RowState]
    /\ announced \in [Tasks -> Seq(Verdict)]
    /\ parked \in SUBSET Tasks
    /\ told \in [Tasks -> SUBSET Verdict]
    /\ unsent \in SUBSET Turns
    /\ unused \in SUBSET Tasks
    /\ queue \in Seq(Jobs)
    /\ busy \in BOOLEAN
    /\ lease \in [Jobs -> Sweepers \cup {None}]
    /\ agent \in [Procs -> Agent]
    /\ faults \in 0..MaxFaults
    /\ late \in SUBSET Sweepers
    /\ spoilt \in SUBSET Tasks

Init ==
    /\ row = [t \in Tasks |-> "absent"]
    /\ announced = [t \in Tasks |-> <<>>]
    /\ parked = {}
    /\ told = [t \in Tasks |-> {}]
    /\ unsent = Turns
    /\ unused = Tasks
    /\ queue = <<>>
    /\ busy = FALSE
    /\ lease = [j \in Jobs |-> None]
    /\ agent = [p \in Procs |-> Idle]
    /\ faults = 0
    /\ late = {}
    /\ spoilt = {}

-----------------------------------------------------------------------------
(* Helpers *)

At(p, s) == agent[p].pc = s

Become(p, a) == agent' = [agent EXCEPT ![p] = a]

Goto(p, s) == Become(p, [agent[p] EXCEPT !.pc = s])

\* UPDATE background_tasks ... WHERE id = t writes nothing when the row is gone.
SetRow(t, s) == row' = [row EXCEPT ![t] = IF @ = "absent" THEN @ ELSE s]

InQueue(j) == \E i \in DOMAIN queue : queue[i] = j

\* The job the queue shows in status doing.
Doing == IF busy /\ queue # <<>> THEN {Head(queue)} ELSE {}

\* Jobs in status doing whose worker is gone: its heartbeat stopped.
Stalled == Doing \ {agent[w].hold : w \in Workers}

\* The job leaves the queue, and the thread lock with it.
Release(j) ==
    IF j \in Doing THEN queue' = Tail(queue) /\ busy' = FALSE
                   ELSE UNCHANGED <<queue, busy>>

\* A sweep that has released job j goes on with what it listed.
SweepOn(s, j) ==
    LET left == agent[s].seen \ {j}
    IN Become(s, [Idle EXCEPT !.pc = IF left = {} THEN "idle" ELSE "sweep", !.seen = left])

-----------------------------------------------------------------------------
(* The thread's job queue *)

\* defer_chat_turn: the user's message queues a turn under the thread lock.
Send(c) ==
    /\ c \in unsent
    /\ unsent' = unsent \ {c}
    /\ queue' = Append(queue, c)
    /\ UNCHANGED <<row, announced, parked, told, unused, busy, lease, agent, faults, late, spoilt>>

\* One job per lock, oldest first.
Take(w) ==
    /\ At(w, "idle") /\ ~busy /\ queue # <<>>
    /\ busy' = TRUE
    /\ Become(w, [Idle EXCEPT !.hold = Head(queue),
                              !.pc = IF Head(queue) \in Turns THEN "turn" ELSE "picked"])
    /\ UNCHANGED <<row, announced, parked, told, unsent, unused, queue, lease, faults, late, spoilt>>

-----------------------------------------------------------------------------
(* The body, on a worker *)

StartBody(w) ==
    /\ At(w, "picked")
    /\ SetRow(agent[w].hold, "running")
    /\ Goto(w, "body")
    /\ UNCHANGED <<announced, parked, told, unsent, unused, queue, busy, lease, faults, late, spoilt>>

BodyReturns(w) ==
    /\ At(w, "body")
    /\ SetRow(agent[w].hold, "result_ready")
    /\ Become(w, [agent[w] EXCEPT !.pc = "announce", !.fallback = {agent[w].hold}])
    /\ UNCHANGED <<announced, parked, told, unsent, unused, queue, busy, lease, faults, late, spoilt>>

\* Mutant: a failure is not announced.
FailTaskSilently(p) ==
    /\ agent[p].pc \in {"body", "failing"}
    /\ SetRow(agent[p].hold, "failed")
    /\ Become(p, [agent[p] EXCEPT !.pc = "peek", !.verdict = "failed"])
    /\ UNCHANGED <<announced, parked, told, unsent, unused, queue, busy, lease, faults, late, spoilt>>

\* _fail_task: the body raised, or a sweep found a row that recorded nothing.
FailTask(p) ==
    /\ agent[p].pc \in {"body", "failing"}
    /\ SetRow(agent[p].hold, "failed")
    /\ Become(p, [agent[p] EXCEPT !.pc = "announce", !.verdict = "failed"])
    /\ UNCHANGED <<announced, parked, told, unsent, unused, queue, busy, lease, faults, late, spoilt>>

Announce(p) ==
    /\ At(p, "announce")
    /\ announced' = [announced EXCEPT ![agent[p].hold] = Append(@, agent[p].verdict)]
    /\ Goto(p, "peek")
    /\ UNCHANGED <<row, parked, told, unsent, unused, queue, busy, lease, faults, late, spoilt>>

-----------------------------------------------------------------------------
(* The completion turn: one agent, on behalf of the task it holds *)

\* The turn answered nothing, or ended: the rows that are left to close.
CloseRows(p, rows, failed) ==
    Become(p, [agent[p] EXCEPT !.pc = IF rows = {} THEN "finish" ELSE "close",
                               !.closing = rows, !.marks = {}, !.fallback = {},
                               !.erred = failed, !.calls = {}, !.making = None])

\* The answer of each parked task: the carried one, else the one its row records.
AnswerOf(p, t) ==
    IF t = agent[p].hold THEN agent[p].verdict
    ELSE IF row[t] = "failed" THEN "failed" ELSE "success"

\* Mutant: one reported task is enough to open the turn.
AnyReported(p) ==
    \E t \in parked : t = agent[p].hold \/ row[t] \in Reported

AllReported(p) ==
    \A t \in parked : t = agent[p].hold \/ row[t] \in Reported

\* Mutant: the row of a task no parked run waits for is left as it is.
NothingParkedNoFallback(p) ==
    /\ At(p, "peek") /\ agent[p].hold \notin parked
    /\ CloseRows(p, {}, FALSE)
    /\ UNCHANGED <<row, announced, parked, told, unsent, unused, queue, busy, lease, faults, late, spoilt>>

NothingParked(p) ==
    /\ At(p, "peek") /\ agent[p].hold \notin parked
    /\ CloseRows(p, agent[p].fallback, FALSE)
    /\ UNCHANGED <<row, announced, parked, told, unsent, unused, queue, busy, lease, faults, late, spoilt>>

WaitForSiblings(p) ==
    /\ At(p, "peek") /\ agent[p].hold \in parked /\ ~AllReported(p)
    /\ CloseRows(p, {}, FALSE)
    /\ UNCHANGED <<row, announced, parked, told, unsent, unused, queue, busy, lease, faults, late, spoilt>>

Gather(p) ==
    /\ At(p, "peek") /\ agent[p].hold \in parked /\ AllReported(p)
    /\ LET delivered == {t \in parked : AnswerOf(p, t) = "success"}
       IN Become(p, [agent[p] EXCEPT !.pc = IF delivered = {} THEN "turn" ELSE "marking",
                                     !.marks = delivered, !.closing = delivered])
    /\ told' = [t \in Tasks |-> IF t \in parked THEN told[t] \cup {AnswerOf(p, t)}
                                ELSE told[t]]
    /\ UNCHANGED <<row, announced, parked, unsent, unused, queue, busy, lease, faults, late, spoilt>>

MarkResuming(p, t) ==
    /\ At(p, "marking") /\ t \in agent[p].marks
    /\ SetRow(t, "resuming")
    /\ Become(p, [agent[p] EXCEPT !.marks = @ \ {t},
                                  !.pc = IF agent[p].marks = {t} THEN "turn" ELSE @])
    /\ UNCHANGED <<announced, parked, told, unsent, unused, queue, busy, lease, faults, late, spoilt>>

\* What safe_completion_turn catches before the turn's driver runs.
CompletionTurnRaises(p) ==
    /\ "peek" \in Faults
    /\ agent[p].pc \in {"peek", "marking"}
    /\ CloseRows(p, agent[p].fallback, TRUE)
    /\ UNCHANGED <<row, announced, parked, told, unsent, unused, queue, busy, lease, faults, late, spoilt>>

CloseRow(p, t) ==
    /\ At(p, "close") /\ t \in agent[p].closing
    /\ SetRow(t, IF agent[p].erred THEN "failed" ELSE "complete")
    /\ Become(p, [agent[p] EXCEPT !.closing = @ \ {t},
                                  !.pc = IF agent[p].closing = {t} THEN "finish" ELSE @])
    /\ spoilt' = IF agent[p].erred /\ row[t] # "absent" THEN spoilt \cup {t} ELSE spoilt
    /\ UNCHANGED <<announced, parked, told, unsent, unused, queue, busy, lease, faults, late>>

-----------------------------------------------------------------------------
(* A running turn, of the chat or of a completion. The durable tools of a    *)
(* toolset are registered sequential, so one call is deferred at a time.     *)

CreateRow(p, t) ==
    /\ At(p, "turn") /\ agent[p].making = None /\ t \in unused
    /\ unused' = unused \ {t}
    /\ row' = [row EXCEPT ![t] = "pending"]
    /\ Become(p, [agent[p] EXCEPT !.making = t])
    /\ UNCHANGED <<announced, parked, told, unsent, queue, busy, lease, faults, late, spoilt>>

DeferJob(p) ==
    /\ At(p, "turn") /\ agent[p].making # None
    /\ queue' = Append(queue, agent[p].making)
    /\ Become(p, [agent[p] EXCEPT !.making = None, !.calls = @ \cup {agent[p].making}])
    /\ UNCHANGED <<row, announced, parked, told, unsent, unused, busy, lease, faults, late, spoilt>>

EndTurn(p, failed) ==
    IF agent[p].hold \in Turns THEN CloseRows(p, {}, failed)
    ELSE CloseRows(p, IF agent[p].closing = {} THEN agent[p].fallback
                      ELSE agent[p].closing, failed)

\* The defer raises, and the turn with it: the row goes if it is still pending
\* and the removal does not fail too. A defer cancelled after its insert has
\* left the job in the queue.
RefuseJob(p) ==
    /\ "refuse" \in Faults
    /\ At(p, "turn") /\ agent[p].making # None
    /\ LET t == agent[p].making
       IN /\ \/ /\ row' = [row EXCEPT ![t] = IF @ = "pending" THEN "absent" ELSE @]
                /\ UNCHANGED faults
             \/ /\ "io" \in Faults /\ faults < MaxFaults
                /\ faults' = faults + 1
                /\ UNCHANGED row
          /\ queue' \in {queue, Append(queue, t)}
    /\ EndTurn(p, TRUE)
    /\ UNCHANGED <<announced, parked, told, unsent, unused, busy, lease, late, spoilt>>

\* agent_node returns: its checkpoint parks what the run deferred. A run that
\* a stop or the repetition guard ended has no result, so it parks nothing.
Checkpoint(p) ==
    /\ At(p, "turn") /\ agent[p].making = None
    /\ parked' \in {agent[p].calls} \cup (IF "stop" \in Faults THEN {{}} ELSE {})
    /\ Goto(p, "finalize")
    /\ UNCHANGED <<row, announced, told, unsent, unused, queue, busy, lease, faults, late, spoilt>>

Finalize(p) ==
    /\ At(p, "finalize")
    /\ EndTurn(p, FALSE)
    /\ UNCHANGED <<row, announced, parked, told, unsent, unused, queue, busy, lease, faults, late, spoilt>>

\* The driver raises, before the checkpoint or after it.
TurnRaises(p) ==
    /\ "turn" \in Faults
    /\ \/ At(p, "turn") /\ agent[p].making = None
       \/ At(p, "finalize")
    /\ EndTurn(p, TRUE)
    /\ UNCHANGED <<row, announced, parked, told, unsent, unused, queue, busy, lease, faults, late, spoilt>>

-----------------------------------------------------------------------------
(* The end of a job *)

FinishJob(w) ==
    /\ At(w, "finish")
    /\ Release(agent[w].hold)
    /\ Become(w, Idle)
    /\ UNCHANGED <<row, announced, parked, told, unsent, unused, lease, faults, late, spoilt>>

\* An exception nothing catches ends the job as failed, which no sweep lists.
WriteFails(w) ==
    /\ "io" \in Faults /\ faults < MaxFaults
    /\ agent[w].pc \in {"picked", "body", "announce", "peek", "close"}
    /\ faults' = faults + 1
    /\ Release(agent[w].hold)
    /\ Become(w, Idle)
    /\ UNCHANGED <<row, announced, parked, told, unsent, unused, lease, late, spoilt>>

\* The process dies: a worker's job stays in status doing, a sweeper's
\* session ends and its lease with it.
Crash(p) ==
    /\ "crash" \in Faults /\ faults < MaxFaults
    /\ ~At(p, "idle")
    /\ faults' = faults + 1
    /\ lease' = [j \in Jobs |-> IF lease[j] = p THEN None ELSE lease[j]]
    /\ Become(p, Idle)
    /\ UNCHANGED <<row, announced, parked, told, unsent, unused, queue, busy, late, spoilt>>

-----------------------------------------------------------------------------
(* The sweep *)

\* The jobs a sweep lists: those of dead workers, and, past the age timeout,
\* those of live ones too.
Listed == IF "age" \in Faults THEN Doing ELSE Stalled

List(s) ==
    /\ At(s, "idle") /\ Listed # {}
    /\ Become(s, [Idle EXCEPT !.pc = "sweep", !.seen = Listed])
    /\ UNCHANGED <<row, announced, parked, told, unsent, unused, queue, busy, lease, faults, late, spoilt>>

\* Mutant: the job is deleted before its work is settled.
TakeLeaseReleased(s, j) ==
    /\ At(s, "sweep") /\ j \in agent[s].seen
    /\ lease[j] = None
    /\ lease' = [lease EXCEPT ![j] = s]
    /\ Release(j)
    /\ Become(s, [agent[s] EXCEPT !.pc = "settle", !.hold = j])
    /\ late' = IF j \in Doing THEN late ELSE late \cup {s}
    /\ UNCHANGED <<row, announced, parked, told, unsent, unused, faults, spoilt>>

\* Mutant: no lease keeps a second sweep out.
TakeLeaseHeld(s, j) ==
    /\ At(s, "sweep") /\ j \in agent[s].seen
    /\ lease' = [lease EXCEPT ![j] = s]
    /\ Become(s, [agent[s] EXCEPT !.pc = "settle", !.hold = j])
    /\ late' = IF j \in Doing THEN late ELSE late \cup {s}
    /\ UNCHANGED <<row, announced, parked, told, unsent, unused, queue, busy, faults, spoilt>>

TakeLease(s, j) ==
    /\ At(s, "sweep") /\ j \in agent[s].seen
    /\ lease[j] = None
    /\ lease' = [lease EXCEPT ![j] = s]
    /\ Become(s, [agent[s] EXCEPT !.pc = "settle", !.hold = j])
    /\ late' = IF j \in Doing THEN late ELSE late \cup {s}
    /\ UNCHANGED <<row, announced, parked, told, unsent, unused, queue, busy, faults, spoilt>>

LeaseTaken(s, j) ==
    /\ At(s, "sweep") /\ j \in agent[s].seen
    /\ lease[j] # None
    /\ SweepOn(s, j)
    /\ UNCHANGED <<row, announced, parked, told, unsent, unused, queue, busy, lease, faults, late, spoilt>>

\* A chat turn's stream is closed; a task with no row needs nothing.
SettleNothing(s) ==
    /\ At(s, "settle")
    /\ agent[s].hold \in Tasks => row[agent[s].hold] = "absent"
    /\ Goto(s, "finish")
    /\ UNCHANGED <<row, announced, parked, told, unsent, unused, queue, busy, lease, faults, late, spoilt>>

\* Mutant: a closed row is answered as a success, whatever it records.
SettleClosedAsSuccess(s) ==
    /\ At(s, "settle") /\ agent[s].hold \in Tasks
    /\ row[agent[s].hold] \in Closed
    /\ Goto(s, "peek")
    /\ UNCHANGED <<row, announced, parked, told, unsent, unused, queue, busy, lease, faults, late, spoilt>>

\* Mutant: a closed row has nothing to settle.
SettleClosedDone(s) ==
    /\ At(s, "settle") /\ agent[s].hold \in Tasks
    /\ row[agent[s].hold] \in Closed
    /\ Goto(s, "finish")
    /\ UNCHANGED <<row, announced, parked, told, unsent, unused, queue, busy, lease, faults, late, spoilt>>

SettleClosed(s) ==
    /\ At(s, "settle") /\ agent[s].hold \in Tasks
    /\ row[agent[s].hold] \in Closed
    /\ Become(s, [agent[s] EXCEPT !.pc = "peek",
                     !.verdict = IF row[agent[s].hold] = "failed" THEN "failed" ELSE "success"])
    /\ UNCHANGED <<row, announced, parked, told, unsent, unused, queue, busy, lease, faults, late, spoilt>>

SettleReported(s) ==
    /\ At(s, "settle") /\ agent[s].hold \in Tasks
    /\ row[agent[s].hold] \in Active \cap Reported
    /\ Become(s, [agent[s] EXCEPT !.pc = "announce", !.fallback = {agent[s].hold}])
    /\ UNCHANGED <<row, announced, parked, told, unsent, unused, queue, busy, lease, faults, late, spoilt>>

\* Mutant: a row that recorded nothing is left for its worker.
SettleUnreportedDone(s) ==
    /\ At(s, "settle") /\ agent[s].hold \in Tasks
    /\ row[agent[s].hold] \in Active \ Reported
    /\ Goto(s, "finish")
    /\ UNCHANGED <<row, announced, parked, told, unsent, unused, queue, busy, lease, faults, late, spoilt>>

SettleUnreported(s) ==
    /\ At(s, "settle") /\ agent[s].hold \in Tasks
    /\ row[agent[s].hold] \in Active \ Reported
    /\ Goto(s, "failing")
    /\ UNCHANGED <<row, announced, parked, told, unsent, unused, queue, busy, lease, faults, late, spoilt>>

\* finish_job with delete_job; it raises, and ends the sweep, when the job is gone.
ReleaseJob(s) ==
    LET j == agent[s].hold
    IN /\ At(s, "finish")
       /\ Release(j)
       /\ lease' = [lease EXCEPT ![j] = None]
       /\ IF j \in Doing THEN SweepOn(s, j) ELSE Become(s, Idle)
       /\ UNCHANGED <<row, announced, parked, told, unsent, unused, faults, late, spoilt>>

-----------------------------------------------------------------------------
(* What either kind of agent does once it speaks for a task. *)
Answer(p) ==
    \/ FailTask(p) \/ Announce(p)
    \/ NothingParked(p) \/ WaitForSiblings(p) \/ Gather(p)
    \/ \E t \in Tasks : MarkResuming(p, t) \/ CloseRow(p, t) \/ CreateRow(p, t)
    \/ DeferJob(p) \/ RefuseJob(p) \/ Checkpoint(p) \/ Finalize(p)
    \/ CompletionTurnRaises(p) \/ TurnRaises(p)

Work(w) ==
    \/ Take(w) \/ StartBody(w) \/ BodyReturns(w) \/ Answer(w) \/ FinishJob(w)

Sweep(s) ==
    \/ List(s)
    \/ \E j \in Jobs : TakeLease(s, j) \/ LeaseTaken(s, j)
    \/ SettleNothing(s) \/ SettleClosed(s) \/ SettleReported(s) \/ SettleUnreported(s)
    \/ Answer(s)
    \/ ReleaseJob(s)

Next ==
    \/ \E c \in Turns : Send(c)
    \/ \E w \in Workers : Work(w) \/ WriteFails(w)
    \/ \E s \in Sweepers : Sweep(s)
    \/ \E p \in Procs : Crash(p)

Spec == Init /\ [][Next]_vars

\* A live worker goes on with its job and takes the next one; the periodic
\* sweep runs again and again. Messages and faults are never owed.
FairSpec ==
    /\ Spec
    /\ \A w \in Workers : WF_vars(Work(w))
    /\ \A s \in Sweepers : WF_vars(Sweep(s))
-----------------------------------------------------------------------------
(* Properties *)

\* The step that finds every parked call answered and opens the turn.
Opens(p)  == At(p, "peek") /\ agent'[p].pc \in {"marking", "turn"}
InTurn(p) == agent[p].pc \in {"turn", "finalize"}

\* The tasks of a thread as ParkedStep sees them.
StepState(s) ==
    IF s \in {"pending", "running"} THEN "working"
    ELSE IF s \in {"result_ready", "resuming"} THEN "ready" ELSE s

Steps == INSTANCE ParkedStep WITH state <- [t \in Tasks |-> StepState(row[t])]

\* Workers and sweeps, dying anywhere and overlapping, keep the promise of
\* ParkedStep: whichever task reports last, a step is opened only once every row
\* of it holds an outcome, with those outcomes; a closed row is never written
\* again; and no answered call is waited for again. That holds until a sweep acts
\* on an old list: the job it settles was released by another sweep, which the
\* lease does not tell (completion_turn._gathered_answers, maintenance._release_job).
KeepsSteps ==
    Steps!Init /\ [][late = {} => Steps!Next]_(Steps!vars)

\* Two turns of one thread run together only where a sweep acts on an old list:
\* every turn writes the one checkpoint thread, so chat turns, completion turns and
\* the settlements of overlapping sweeps exclude each other through the thread lock
\* and the lease, unless one of the two speaks for a job that another sweep released
\* after it was listed (chat_turn.defer_chat_turn, maintenance._release_job).
OneTurnAtATime ==
    \A p, q \in Procs : InTurn(p) /\ InTurn(q) /\ p # q =>
        \E s \in {p, q} \cap late : agent[s].hold \notin Doing

Announced(t) == {announced[t][i] : i \in DOMAIN announced[t]}
Verdicts(t)  == Announced(t) \cup told[t]

\* The thread's announcements of a task and the answers its turns were given
\* name one outcome between them, across crashes, re-settlements and overlapping
\* sweeps. The one exception is a task that announced its success and whose own
\* completion turn then failed: its row is closed as failed, a sweep that settles
\* it later answers with that, but the log is never told otherwise
\* (completion_turn.safe_completion_turn, maintenance._settle).
OneVerdict ==
    \A t \in Tasks :
        \/ \A v, u \in Verdicts(t) : v = u
        \/ t \in spoilt /\ Announced(t) \subseteq {"success"}

\* A sweep speaks for a job only while the job still holds the thread lock, so no
\* successor turn interleaves with the settlement, unless another sweep released
\* the job after this one listed it (maintenance._release_job).
SettlesUnderThreadLock ==
    \A s \in Sweepers : agent[s].hold # None => agent[s].hold \in Doing \/ s \in late

\* No worker runs a job another worker runs, and no two sweepers release one job.
OneHolder ==
    /\ \A v, w \in Workers : agent[v].hold # None /\ agent[w].hold # None => v = w
    /\ \A r, s \in Sweepers : agent[r].hold = agent[s].hold /\ agent[r].hold # None => r = s

\* A completion turn opens after the log announced the outcome of every task it
\* answers, where nothing dies (PROTOCOL.md 6.1: data-task-completed comes before
\* the next start).
AnnouncedBeforeTurn ==
    [][\A p \in Procs : Opens(p) /\ faults = 0 =>
            \A t \in parked : announced[t] # <<>>]_vars

Quiet ==
    queue = <<>> /\ \A p \in Procs : At(p, "idle")

\* When the thread has no job left and nobody works for it, no row still waits
\* with a result: a waiting row is closed with its parked step (completion_turn.
\* CompletionOutcome: "its rows keep their results until the last one arrives").
NoRowLeftWaiting ==
    Quiet => \A t \in Tasks : row[t] \notin {"result_ready", "resuming"}

\* A call the thread parked is answered, or superseded by the user, however
\* often workers and sweeps die and turns raise on the way: a turn that raises once
\* it was opened has its answers and says so in the log. Excepted is what follows a
\* sweep that settled a job another had released (SettlesUnderThreadLock).
ParkedCallIsAnswered ==
    \A t \in Tasks : t \in parked ~> t \notin parked \/ told[t] # {} \/ late # {}

\* A task whose job the queue accepted records an outcome.
DeferredTaskReports ==
    \A t \in Tasks : InQueue(t) /\ row[t] \in {"pending", "running"} ~> row[t] \in Reported

\* The task has reported and its job is done; its row keeps the result until the
\* last sibling of the parked step reports.
WaitsForSiblings(t) ==
    row[t] = "result_ready" /\ t \in parked /\ \A p \in Procs : agent[p].hold # t

\* Where nothing dies, a task a worker started reaches a closed row, its siblings'
\* failures and its own completion turn's included. The one exception is a task
\* that waits for its siblings when the user's next message supersedes their step:
\* the sibling that reports last closes its own row alone (completion_turn.
\* safe_completion_turn), and nothing closes the row that waited.
StartedTaskCloses ==
    \A t \in Tasks :
        /\ row[t] = "running" ~> row[t] \in Closed \/ faults > 0 \/ WaitsForSiblings(t)
        /\ WaitsForSiblings(t) ~> row[t] \in Closed \/ faults > 0
                                      \/ (t \notin parked /\ told[t] = {})

\* What a turn left to its tasks comes to an end, for the thread that waits, for
\* the task, and for its row, where every write succeeds and every completion turn
\* can be opened: no sweep repairs a job that ended with an exception.
WorkEnds == ParkedCallIsAnswered /\ DeferredTaskReports /\ StartedTaskCloses
=============================================================================
