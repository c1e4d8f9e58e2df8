# A TLA+ model of the assistant runtime

This directory is a verification project for `packages/assistant-core` and the
client beside it, `packages/assistant-client-ts`: TLA+ modules translated from the
source, TLC configurations that check them on small instances, and proofs TLAPS
checks for every value of the constants. `PROJECT.json` lists components, runs,
mutants, hazards, findings and theorems, and maps each definition to the lines it
models.

Python paths below are relative to `packages/assistant-core/src/assistant_core/`,
TypeScript paths to `packages/assistant-client-ts/src/`.

## 1. The system

A *thread* is a conversation. Its log (`conversation_events`) is append-only;
its *checkpoint* (langgraph) holds what the next turn resumes with. A *turn* runs
as a job of a queue (procrastinate) under a lock named after the thread, so the
jobs of one thread run one at a time, oldest first. A turn runs a model that calls
tools; a tool that needs the user's approval, or that runs as a durable task, ends
the turn *parked*, and a *completion turn* answers all parked durable calls once
every one of them has reported. A periodic *sweep* takes the place of workers that
died. Readers follow the log over an event stream; all readers of a process share
one LISTEN connection. A client folds the log into messages and resumes where its
cursor stands.

| Component | State | Operations | Interacts through | Hard because | Module |
| --- | --- | --- | --- | --- | --- |
| Durable tasks (`tasks/runner.py`, `completion_turn.py`, `maintenance.py`, `service.py`, `decorator.py`, `platform/lease.py`) | `background_tasks` rows, queue jobs, leases, the parked call | create, defer, run, report, announce, gather, open the completion turn, close, sweep, release | thread lock, advisory lease, log, checkpoint | siblings report in any order; workers, sweeps and writes die at any step; stale sweep lists | `DurableTasks`, `ParkedStep` |
| Event log and tail (`conversation/event_writer.py`, `event_stream.py`, `listen_hub.py`) | rows, readers' cursors, queues, the shared connection | append, snapshot, replay, subscribe, tail, relisten | `pg_notify`, one lock per hub | lost wakes, lost connections, commit order against id order | `EventTail` |
| Stop protocol (`conversation/cancellation.py`, `chat_turn_cancellations.py`, `tasks/maintenance.py`) | cancellation rows, the newest chunk | stop, stop and wait, close a queued turn, release a dead one | log, queue | a stop races the worker that takes or finishes the turn | `StopProtocol` |
| Message reduction and wire adapter (`conversation/_chunk_handlers.py`, `_chunk_state.py`, `open_tool_calls.py`, `empty_parts.py`, `vercel_adapter.py`; `core/reduce.ts`, `reduceTool.ts`, `snapshot.ts`) | the messages a log folds to; stream ids, open calls | one handler per chunk kind | the wire protocol | two readers in two languages must build one message; runs fail in the middle | `MessageFold` |
| Client transport (`core/cursor.ts`, `client.ts`, `ai-sdk/DurableChatTransport.ts`, `resumeDurableThread.ts`) | cursor, open message, the tail being read | load, send, answer, resume, cut, stop | the event stream, the AI SDK | one tail holds several messages, the SDK reads one message per stream | `ResumeTransport` |
| Agent graph (`graph/*`, `spec.py`, `capabilities/repetition_guard.py`) | the checkpointed state, the guard, the message rows | start, run, park, resume, fail, finalize | durable tasks, approvals, the model | what a superseded, stopped or failed turn leaves | `TurnGraph` |
| History of a thread (`conversation/history/*`, `capabilities/stable_instructions.py`) | the run's messages, the held instructions | pair, elide, compact, update sections | the model's context | three rewritings of one list, over several runs | `RunHistory` |
| Scratchpad (`scratchpad/*`, `repositories/scratchpad.py`) | notes | note, update, delete, pin, compact, fork, revert | turns, a compactor agent | a compaction reads, waits for a model and writes | `Notebook` |
| Client readers (`core/trace.ts`, `dispatch.ts`, `usage.ts`, `tasks.ts`, `subAgentSteps.ts`, `ai-sdk/messageParts.ts`) | none | read a message | both reducers' parts | sub-agents interleave; turns end with work open | `ClientTrace` |
| Threads and messages (`repositories/conversation.py`, `message.py`, `conversation/authz.py`) | `conversations`, `messages` | create, fork, rename, dismiss, delete with or without a cascade, insert and upsert a message | each request its own transaction | several statements at READ COMMITTED, row locks, foreign keys | `Threads`, `ThreadNames` |
| Task progress (`tasks/progress.py`) | buffers of an emitter and its children, the lane on the log | update, flush, append, close | the task's body, its runner, the log | concurrent calls give way at each await; the database refuses | `TaskProgress` |
| Worker heartbeat (`tasks/heartbeat.py`, `maintenance.py`, `platform/config.py`) | the worker's row, the beat thread | beat, miss, stop, sweep | the sweep of dead workers | a held event loop, slow or refused beats | `Heartbeat` |
| Quota (`quota.py`) | `monthly_usage` | accumulate, read the current status | turns of several applications | overlapping upserts, a month that ends between two readings of the clock | `Quota` |
| Memory (`memory/*`) | the store, `memory_tombstones` | write, write automatically, prune, retrieve | turns, the user | every call of the store is a transaction of its own | `Memories` |
| Platform, checkpointer, model providers, MCP, registry, conformance suite | configuration | start-up, adapters, single queries | — | little state | none |

The properties that make each correct, and the lines where each hazard bites,
are the `hazards` of `PROJECT.json`.

## 2. Plan

A module is finished with its runs, mutants and map entries.

1. `DurableTasks`, `EventTail`, `StopProtocol` — done: models, runs, theorems.
2. `ParkedStep`, what durable tasks promise a thread, and the refinement by
   `DurableTasks` — done, checked and proved.
3. `MessageFold`, `ResumeTransport`, `TurnGraph`, `RunHistory`, `Notebook`,
   `ClientTrace` — done: models and runs; `MessageFold`, `TurnGraph`, `ResumeTransport` and
   `Notebook` have theorems.
4. `Threads`, `ThreadNames`, `TaskProgress`, `Heartbeat`, `Quota`, `Memories` — done:
   models, runs and theorems.
5. Left: what section 13 says stays with TLC.

Every module is a plain next-state relation with its bounds as CONSTANTS. Each action
is the code between two points where something else can run: two awaits that
write, two chunks of a log, two parts of a message. Deadlock checking is off in
every run, because each system may be quiet: a thread with no job, a client at
rest, a bound reached.

## 3. DurableTasks and ParkedStep

### Correspondence

| Model | Code |
| --- | --- |
| `row` | `background_tasks.status`; `"absent"` before `create` and after `delete` |
| `announced` | the `data-task-completed` chunks of the log, per task |
| `parked` | `pending_durable_call` of the newest checkpoint |
| `told` | the `durable_results` completion turns were opened with |
| `queue`, `busy` | unfinished jobs under the thread's lock; whether the first is `doing` |
| `lease` | the advisory lock `assistant_core.release_job:<job>` |
| `agent[p]` | where a worker or a sweep is in the middle of its handler |
| `late` | history: sweepers that settled a job another had released since they listed it |
| `spoilt` | history: tasks whose row a completion turn that raised closed as failed |

A worker takes the head of the queue. A chat turn or a completion turn creates
rows and defers jobs one call at a time (`CreateRow`, `DeferJob`, `RefuseJob`) and
parks them in its checkpoint (`Checkpoint`). A task's job runs
`StartBody`, then `BodyReturns` or `FailTask`, `Announce`, and
the completion turn: `NothingParked`, `WaitForSiblings` or `Gather`, `MarkResuming`,
the turn, `CloseRow` for each row, `FinishJob`. Every action is the code between
two awaits that write: a process may die between any two of them. The sweep
lists the jobs of dead workers (`List`), takes the lease (`TakeLease`), settles by the
status of the row (`SettleClosed`, `SettleReported`, `SettleUnreported`,
`SettleNothing`), goes through the same completion turn and releases the job.

`ParkedStep` is the abstract specification: tasks that work, report, and are closed; a
step that is parked, and opened with the outcome of each of its tasks. `Steps` is its
instance over a mapping of rows (`StepState`): `pending` and `running` work,
`result_ready` and `resuming` are reported. Workers, jobs, leases, sweeps and
deaths are not in it.

Faults are switched on by the constant `Faults`: a process dies (`"crash"`), a
write fails (`"io"`), opening a completion turn raises (`"peek"`), a turn raises
(`"turn"`), the queue refuses a job (`"refuse"`), a run is stopped (`"stop"`), the
age timeout lists live jobs (`"age"`). `MaxFaults` bounds only deaths and failed
writes.

### What the runs check

| Run | Instance | Properties |
| --- | --- | --- |
| `tasks` | 2 tasks, 2 chat turns, 2 workers, 2 overlapping sweeps; every fault but age, two deaths or failed writes | `OneTurnAtATime`; `OneVerdict`; `OneHolder`; `KeepsSteps`, the refinement of `ParkedStep`; `AnnouncedBeforeTurn`, while nothing has died |
| `tasks_live` | 2 tasks, 2 chat turns, 1 worker, 1 sweep, 2 deaths, turns that raise, refused defers, stops; fair | `WorkEnds`: every parked call is answered or superseded (`ParkedCallIsAnswered`), every queued task reports (`DeferredTaskReports`), every started task closes where nothing dies (`StartedTaskCloses`) |

Bounds. Two tasks are the smallest step with a sibling, and a completion turn may
defer the second after the first. Two chat turns let a
message supersede a parked step and let another follow. Two workers let one be
slow while the other takes the next job; two sweeps let one act on a list the other made
old. Two deaths interrupt a settlement that itself replaces a dead worker, and leave
two jobs to sweep.

### Where a property ends

The runs reach each of these, and the property says it:

- `OneTurnAtATime`, with two sweepers and a death: a sweep settles a job another
  has released (`maintenance._release_job` takes the lease and does not ask whether the job
  is still `doing`), and opens a turn beside the thread's next one. Only a sweeper in `late`
  whose job is no longer `doing` is excepted: the turns of workers, and of every
  other sweep, still exclude each other. From then on `ParkedStep` is not kept either.
- `OneVerdict`: a completion turn that raised closed its row `failed` after the log announced a
  success; when its worker also dies, the next settlement tells that. Only a task
  in `spoilt` that was never announced otherwise is excepted.
- `StartedTaskCloses`, without any fault: a message queued between two deferrals supersedes
  the parked step, and the sibling that reported first stays `result_ready` for ever
  (`NoRowLeftWaiting` is false). Only a row that waited for its siblings, and was
  superseded before a turn was given its result, may stay open.
- `ParkedCallIsAnswered`: a turn that raises after it was opened leaves its checkpoint
  parked; its answers were given (`told`) and the log says that it failed.

These are outside of the runs:

- `OneVerdict`, with `"age"`, which the repository's backlog knows.
- `WorkEnds`, with `"peek"` or `"io"`: siblings wait for a completion turn that could not be
  opened, and no sweep lists a job that ended with an exception.
- `AnnouncedBeforeTurn` without its `faults = 0`: a death between closing a row as
  failed and announcing it leaves a task that is answered and never announced.

### Fairness

`FairSpec` asks weak fairness of each worker's steps and of each sweep's. A live
worker goes on with its job and takes the next (procrastinate's loop), and the host
runs `release_stalled_jobs` on a schedule. Sending messages and faults are never
owed. No strong fairness is needed: only the holder of the thread lock acts on the thread.

### What is proved

`DurableTasks_proofs`, for any sets of tasks, turns, workers
and sweepers and any number of faults:

- `TypeCorrect`: `Spec => []TypeOK`. `TypeOK` is not inductive: a step that writes
  the row of the task an agent holds needs a task there, so `TypeInv` adds
  `HoldsTask`, which says at which steps an agent holds a task.
- `OneHolderAlways`: `OneHolder`, without the age timeout. The invariant `LockInv` says that a
  job is queued once and a task made once, that a working agent holds the job at
  the head of the queue, that what a sweep lists was in `doing` with no live worker,
  and that a lease names the sweep that settles that job.
- `SweepUnderThreadLock` and `TurnsExclude`: a sweeper's job is still `doing` while it
  settles it, unless it is one of `late` (`LockedInv`), hence `OneTurnAtATime`.
- `TasksKeepSteps`: the initial state maps to
  the initial state, and until a sweep is late each action maps to a step of `ParkedStep` or a
  stutter. The invariant `RowInv` carries it: what an agent read of the rows it settles or answers
  still stands when it acts on it, because until then at most one agent speaks for the thread.
- `OneVerdictAlways`: `OneVerdict`, with overlapping and late sweeps and turns that raise.
  `VerdictInv` needs no lock on the thread: only the agent that holds a task reports its outcome,
  and after that its row changes only within that outcome, or becomes `spoilt`; so what an
  agent carries, means to close or is told stays true of the row.
- `AnnouncedAlways`: `AnnouncedBeforeTurn`. `HeardInv`: until
  something dies, a row that has reported is announced, or is the one whose worker is about to.

The one assumption is `"age" \notin Faults`; without it `OneHolder` and `OneVerdict` are false.
Liveness (`WorkEnds`) is out of the prover's reach and model-checked.

### Left out of DurableTasks

Deleted conversations (`assistant_id` or owner absent); retries inside a body; progress
(`TaskProgress`); host-started tasks, whose rows take the same path without the park; the chunks that close a dead chat turn's
stream. A stop is the choice of `Checkpoint` to park nothing; how a stop reaches
the turn is `StopProtocol`.

## 4. EventTail

| Model | Code |
| --- | --- |
| `log`, `committed`, `open` | `conversation_events`: rows by id, those a SELECT sees, a transaction between flush and commit |
| `reader[r]` | one event-stream request: `replay_and_tail` and the fetch it is in |
| `cursor`, `got` | the client: the last cursor it saw, how often it received each row |
| `conn`, `lost`, `listening` | the hub's connection, its scheduled termination callback, its LISTENs |
| `subs`, `woken`, `guard`, `relisten` | the hub's queues, those not empty, its lock, its relisten task |
| `wire` | notifications sent and not delivered |

A queue is a Boolean and a channel's notifications on the wire are one: a wake
carries nothing a reader uses, and a reader empties its queue before it fetches.
Reading the connection's state and acting on it is one step where the code has no
await between. A connection is opened only after the termination callback of
the one before it ran: the callback is already scheduled in the loop and
connecting takes several of its turns.

| Run | Instance | Properties |
| --- | --- | --- |
| `tail_hub` | 2 readers, 2 threads, 2 writers that may overlap, 2 rows, 2 losses; symmetric | `NoDeafReader`, `NoMissedWake`, `NeverRepeats` |
| `tail_serial` | 1 client, 1 writer, 3 rows of three kinds, 1 loss, fair | `NothingSkipped` over snapshots, tails and resumes; `TailCatchesUp` |
| `tail_overlapping_writers` | 2 overlapping writers | violated: a row that commits after a later id was sent is never sent |

The last is the project's one finding. `PROTOCOL.md` (section 2) promises a reader every
chunk after its cursor; ids are drawn before the commit, so two open transactions of one
thread can commit in the other order than their ids, and the reader's cursor
passes the row that is not there yet. The progress lanes of one task write beside each other,
and `close_queued_turn` writes from another process.

A loss is a lost or refused connection or a transaction rolled back; the second of
`tail_hub` hits the connection that replaces the first. Two readers let one leave a channel while the other subscribes, two threads let a
reopened connection listen to several channels, and three rows hold a terminator, the
prompt after it and a chunk, the cases of a snapshot's boundary.

Fairness: the event loop runs ready tasks (weak fairness of a request's steps, the
callback, the relisten task and deliveries); the hub's lock is an
`asyncio.Lock`, first come first served (strong fairness of taking it). Clients,
writers and losses are never owed, and a bounded number of losses stands for a
database that comes back.

### What is proved

`EventTail_proofs`, for any sets of threads, readers and writers, any number of rows
and of losses:

- `TypeCorrect`: `TypeOK`, which needs with it that an open transaction's id is that of
  a row (`TypeInv`).
- `GuardAlwaysUsed` and `NoDeafReaderAlways`, from `HubInv`: the lock's holder is the one
  request between acquiring and releasing it (`GuardInv`); an opening connection has LISTENed
  or will LISTEN to every channel, an open one has, and otherwise its loss is being
  dealt with (`ConnInv`); a queue is in the hub in exactly the states in which its
  request will unsubscribe (`SubsInv`). The last is what `UNLISTEN` under the lock rests on.
- `NoMissedWakeAlways`, from `WakeInv` beside it: whatever a subscribed reader has not
  fetched is owed a wake from the fetch on, also while it still yields a batch.
- `NeverRepeatsAlways`: what a batch holds is after what was sent, and that is
  not before the client's cursor (`CursorInv`).
- `NothingSkippedSerially`: `NothingSkipped` where `Overlap` is `FALSE`. An open transaction then
  commits the newest row of its thread (`OrderInv`), so what a batch lacks comes after
  all of it (`FrameInv`). `tail_overlapping_writers` shows that the assumption is needed.

`TailCatchesUp` is liveness and model-checked only.

### Left out of EventTail

Keep-alive frames, rows a schema check skips, `close` at shutdown, a
connection orphaned by a cancelled `subscribe`, `append_user_message_once`.

## 5. StopProtocol

### Correspondence

| Model | Code |
| --- | --- |
| `log` | the rows of `conversation_events` with `task_id` NULL: turn (or none) and kind |
| `stops` | `chat_turn_cancellations` |
| `post[t]` | where the host's POST of turn `t` is: stop the turn in flight, log the message, defer the job |
| `job`, `ahead` | the status of a job of the thread and the older jobs queued before it |
| `silent` | the heartbeat of the dead worker that holds the thread's job has lapsed |
| `lease` | the advisory lock of `_release_job` |
| `agent[p]` | where a worker, a caller of `stop_turn_before_delete` or `cancel_active_turn`, or a sweep is |

A stop reads the newest row (`FindsTurn`, `FindsNothing`), writes its request
(`RequestCancel`), releases the thread's chat turn if its worker is dead
(`ReleaseDead`, then the release steps), and, when it is to be followed by a
delete, takes the turn out of the queue if it is still there (`ListQueued`, `CancelJob`,
`TellStopped`, `CloseQueued`) and polls (`PollClean`, `Deadline`). A worker takes the
oldest job when none is `doing` (`Take`), writes, reads the request
(`Notice`), closes the turn and ends its job. The release of a dead
worker's job is the same code for a sweep and a stop: `TakeLease`, `Settle`,
`WriteError`, `WriteDone`, `ReleaseJob`. Each action is the code between two
awaits that read or write; `PostDies`, `Crash` and `Dies` are deaths between them. A
button that finds nothing open changes nothing and has no action.

### What the run checks

`stop_turns`: 2 messages, 1 older durable task, 1 worker, 1 delete, 1 sweep, 1 death;
fair. `OneWriterPerTurn`, `EndsClosed`, `DeleteWaits`, `StopEndsRunningTurn`.

Two messages are the least for a turn that is logged while another runs;
the durable task puts a job before them in the queue and a row of no turn between
theirs. A worker that died is idle again at once, so one worker also stands for the
one that replaces it. A chunk of text and a progress row each let one row
come between any two steps. The sweep beside the delete is the second releaser that
the lease is for; a caller of the button beside a delete is covered by the theorems.
One death is what `EndsClosed` speaks of.

Two stronger properties do not hold, because state of the thread is read for state of
a turn:

- `DeleteWaitsForWorkers` (2 messages, 1 delete, no death): the second message is logged before the
  first turn's `done`, which is then the newest row. `_open_turns` reads only that row,
  so a delete finds nothing to stop although the second turn is queued or running.
  `DeleteWaits` is what is left of the promise: the worker a delete overlooks is
  that of a turn whose rows are followed by others'.
- `OneDonePerTurn` (2 messages, 1 sweep, 1 death): a worker dies after its turn's `done` and before its
  job ends; the next message reopens the *thread's* stream, so `_close_stalled_turn`
  writes an error and a second `done` for the turn that had ended. `EndsClosed` says
  what a reader can count on: a turn whose job is over is closed or a later
  turn took its place. It excepts a stop that dies between cancelling a queued
  job and closing its turn, and a releaser that dies after the worker it replaces.

Fairness: the driver polls for the request until it reads it and then closes;
a job that ended is taken off the queue; whoever releases a job goes on; the
sweep runs on a schedule and a dead worker's heartbeat lapses. A turn
nobody stopped may run for ever, and a delete may wait until its deadline.

### What is proved

`StopProtocol_proofs`, for any sets of turns, tasks, workers, deletes, buttons and
sweeps, and any number of deaths:

- `TypeCorrect`: `TypeOK`, strengthened to `TypeInv` by which steps of an agent need
  a job, a turn, or a job that is a turn (`Phases`).
- `OneWriterAlways`, from `LockInv`: at most one job is `doing`; a working agent holds
  one that is, and a releaser one that is or is gone, with no live worker; past
  `TakeLease` it holds that job's lease; a stop that speaks for a turn has
  cancelled its job, and no other stop has. The status of the job tells the three kinds
  of writers apart.
- `DeleteWaitsAlways`, from `LogInv` beside it: a deferred turn has a row, and one that is
  queued or has a live worker has no `done`. The newest row of a log read as closed is
  a `done` or of no turn, hence not of the turn that worker runs.

- `EndsClosedAlways`, from `EndInv` beside both: a turn whose job is over is closed, was
  passed by a later turn, or has a writer left. The invariant has one part for each way a
  job is over: finished by its worker, released by another process, cancelled in the queue.

None of the three has a hypothesis beyond the exceptions their properties name.
`StopEndsRunningTurn` is liveness and model-checked.

### Left out of StopProtocol

A call for several threads at once, the visibility check of `cancel_active_turn`,
a notification nobody hears (the driver polls too), the release by age and the
settlement of a durable task's rows (`DurableTasks` has both).

## 6. MessageFold

One thread's chunks from the model's parts to the messages two programs build of them.
Each chunk is folded into everything that reads it in the step that writes it, so
every reachable log is a state.

| Model | Code |
| --- | --- |
| `turn` | the driver's turn: its phase, message, prompt, what it answers |
| `stream`, `started`, `hints` | the adapter: `_VercelStream`'s current id and pins, `PhaseStreamEmitter`'s announced and deferred calls |
| `call` | how far the run got with each tool call |
| `gate` | `EmptyPartGate`'s held starts |
| `open` | `OpenToolCalls`, and `open_tool_call_ids` read from the log |
| `srv` | the server's `_State` (`ApplyChunk`, one operator per family of handlers) |
| `cli`, `thread` | the client's accumulator and track of a call (`ReduceTurn`, `ToolDispatch`, `Write`), its `ThreadBuilder` (`LogEntry`, `Flush`) |
| `sent` | history: the deltas the model wrote |

`Emit` is the whole writer: what the adapter yields passes the emitter's
synthesized starts (`Synthesized`), the gate (`Admit`) and the writer
(`WriteThrough`). pydantic-ai's stream, its part indexes and its tool manager are
external: `PartStart`, `PartDelta`, `PartEnd`, `ToolPartStart`, `ToolArguments`, `CallTool`
interleave as they may.

`fold_thread`: 1 call, 2 indexes, 2 text or reasoning parts of one delta, 1 data part, 2 turns of
1 response each.

- `FoldsAgree`: the server's and the client's open message are the same, part by part. It
  excepts what the folds do differ on: a call whose input is still streaming, and the
  input of a call that failed before it ran.
- `DeltasReachTheirPart`: whatever opens in between, a delta is in the part whose
  start it followed, and no empty part reaches a reader. The pins are for this.
- `EndsClean`: a turn ended by a failure, also one that a worker's successor ends from the
  log, leaves no call running (`FailedTurnRunsNothing`), and a declined turn is its
  notice, its prompt gone (`WithdrawnIsAlone`).

Two indexes let parts interleave, two turns let a call be announced in one turn and
answered in the other, and one call may be asked, parked, refused, retried or
abandoned. The model takes any set of calls. A run that defers several parks some
and shows a card for each other one (`Suspend`), a parked call outranks the cards
(`Answer`), a resumed run is refused while a card of its history has no answer
(`Running`; pydantic-ai asks for a result of every deferred call), and a node that
returns replaces whatever the thread waited for (`Passed`). What two calls share is
the position of their parts and the list of open calls, so a second one multiplies
the states of the run (294 thousand for two calls alone and no text part) and brings
no step of its own.

`MessageFold_proofs` proves the three for any calls, indexes, parts, deltas, turns and responses
(`ReducersAgree`, `DeltasArrive`, `TurnsEndClean`), from `FoldBounds` (the bounds are numbers) and
`FoldIds` (the calls are finitely many, and `None` is no part and no message). None of the three is
inductive. `FoldInv` adds what makes them so:

- `Sim`: besides agreeing part by part, the client's track of a call knows the position, input and
  summary the server reads off the part (`Tracks`), and both find a text, reasoning or data part in one
  place (`Placed`).
- `Streams` and `Texts`: a part the model writes is held back by the gate with nothing logged of it, or is
  logged and open in the server's fold, under its own pin; and each id is in one part, which holds its
  deltas and no others.
- `CallOK`: what the run did with a call (`call`, `open`, `turn.answer`) and what both folds show of it
  (`View`), so that the chunks that close a turn find every call that still runs.
- `Pending` and `Cuts`: the chunks not yet cut are the turn's, and a withdrawn part is alone in the message
  it was cut into.

A step writes a list of chunks (one call's start, arguments and result; a failure for every open call) and
`LogAll` folds it. `LogAllSteps` and `UpTo` give the states between: a property that holds before the first
chunk, and after a chunk if it held before it, holds after the last. So each action's lemma is about single
chunks, and those about a chunk have one lemma for the call's part and one for the others.

Left out: dynamic tools, source parts, provider metadata, `follows_text`, the
split of stored rows into messages on the server (its fold starts anew at a
message), history deltas.

## 7. ResumeTransport

| Model | Code |
| --- | --- |
| `log`, `host` | the thread's entries; the turn that runs or what the thread waits for |
| `store` | `CursorStore`: cursor, open message, cursor before its start |
| `chat` | the SDK's messages, each with the entries it was built from |
| `tail` | one response of the tail endpoint |
| `read` | one stream the SDK reads: `acceptedPayloads` with its hold-back and its replay |

A tail ends at each `done`; `tailChain` opens the next while a message is open and the
host still works. `Deliver` is one frame: the cursor is recorded (`RecordFrameCursor`),
a start of another message is held for the next read (`HoldTurn`), and a
replay is buffered until it has passed what the chat already shows
(`Flush`, `FlushReplayed`). `LoadSnapshot` polls until the server's snapshot has a
boundary. The SDK's reader is modelled from
`docs/knowledge/decisions/a-resumed-stream-reads-one-turn.md` and from how the transport
uses it. The host's turns are external.

`resume_turns`: a log of at most 11 entries, 2 parts per turn, 2 faults (a cut connection, a stop, a
reload). Eleven entries hold two turns, a gap of task parts and a completion turn that goes on
in the first message; two faults let a resume be cut again. A message may be sent while a task still
reports, and a connection may be lost after any frame.

- `OwnParts`: a message holds only its own parts, each once, in the log's order.
- `CursorCovers`: once the chat holds a message, it shows every part of it the cursor passed.
- `LiveIsReload`: at rest at the last `done`, the chat shows what a reload would.

Two cases of the code break the bare statements. The run reaches both, and the properties name them:

- a part a task reports where no message is open for it (`Stray`: behind a prompt, or
  after a message that is closed) has no start to place it by (`core/snapshot.ts:119`), and the message
  that starts next takes it;
- a connection lost between a turn's `finish` and its `done` (`split`, a history variable):
  `finish` has closed the open message and the cursor has not moved, so the next tail builds the message from
  the cursor on, without what earlier turns of it wrote, until the page is loaded again.

Assumed: a client sends once it has read to the last `done` (`UpToDate`). Left out: two
reads of one transport at once, headers, malformed frames.

### What is proved

`ResumeTransport_proofs`, from `ResumeBounds` alone (the bounds are numbers), for logs of any length and any number of turns, parts and
faults: `TypeCorrect` and `OwnPartsAlways`.

Both follow from one invariant, `Inv`. `OwnParts` is not inductive: what a stream writes
next depends on what the server will frame, and that on what the host may log. `Inv` has

- the log (`LogOK`): what may stand after what. A start or a prompt stands where no turn runs, a text, a finish
  and a done in a turn, a done after its finish, a gap after some done.
- the host (`HostOK`): the end of the log tells what the host does next, and a thread that waits for an answer
  has no prompt after its last turn.
- the store (`StoreOK`): the cursor stands at a done or a prompt. From the cursor kept for the open message to the
  cursor the log has turns of that message only, none of which closes it (`OpenSince`); with none open the last
  message is closed, or split (`Settled`), or its `finish` is the frame read last.
- the chat (`Shown`): its messages hold their own parts in order, and the message an answer would continue has the parts a
  task reported since its turn (`InOrder`), so that what the answer's stream appends comes after them.
- the stream (`ReadForm`): it waits for its message's start (`Awaits`), has no name yet and holds what was reported
  since the cursor (`Bare`), is an answer's before the start that continues the message (`Answers`), or builds
  the message whose turn is read (`Builds`).

The host's steps only extend the log, and every part of `Inv` about the client survives that
(`HostStep`). The client's steps are one lemma each, a delivered frame one for each kind of entry and of stream. The folds
(`ReduceSnapshot`, `OneEntryPerId`) are recursive functions: `RecursionExists` gives them their values, and what
they compute is shown by a smallest number at which it would fail (`UpTo`).

`CursorCovers` and `LiveIsReload` are model-checked.

## 8. TurnGraph

One thread of a one-agent assistant: the checkpoint a turn starts from, what it starts
its run with, the run's calls under the repetition guard, and what the turn leaves.

| Model | Code |
| --- | --- |
| `cp` | `TurnState` as the checkpointer holds it: prompt, thread history, parked approval and durable call, answers, tokens |
| `turn` | the running turn: `TurnStart`'s input, the run's messages and calls, `_RunCapture` (`kept`, `approval`, `durable`) |
| `guard` | `ToolRepetitionGuard`, new in each turn |
| `kind`, `ran`, `asked`, `reported` | what each call is, how often its tool ran, whether a card asks about it, whether its task reported |
| `rows`, `open`, `charged` | the message rows' tokens, the message a parked turn left open, the user's charge |
| `ghost` | history: cards passed over (`superseded` by a message, `dropped` once its turn ended), calls refused |

`Start` is `_turn_for` behind `TurnStart`; `RunCall` is `wrap_tool_execute` with `Check`,
the guard's cap and streak; `EndStep` and `Absorb` are the run's result; `RunFails` is a run that
raised, whose node goes on without one; `EndAgent` is the
charge and the state the node returns (`SettledHistory`); `Finalize` is the row. The model and
pydantic-ai's loop are external: any response of `Responses`, calls in any order, a
resumed run that is refused unless each outstanding call is given a result.

`graph_turns`: 3 turns, 4 calls, 3 requests per turn; responses with two identical read-only calls, two
capped ones, one approval, an approval beside an edit, two approvals, an approval beside a
durable call, two durable calls; stops, and clicks on stale cards. 1,914,144 states. Three
turns are the least for ask, pass over, answer.

- `ThreadAccepted`: the history a prompt is appended to ends on an answer or on
  results, and every call in it has its result.
- `ResumesWhole`: a re-entered run is given results for outstanding calls only, and for each
  of them unless its last response has a card beside another deferred call (`Crowded`): there
  the park keeps the first card, or the durable calls, alone (`approvals.py:89-98`), and
  pydantic-ai refuses the run. The run reaches that exception.
- `WarnedBeforeStopped`: the guard stops a run only on a call the model made again after it
  read the refusal.
- `OnlyApprovedRuns`: a tool that needs approval runs only in the turn that carries the yes,
  once, and never after a user's turn ended over its card.

Where a property ends: `DroppedNeverRuns` fails with `Faults = {}` (a message
sent while a card waits drops the card only at its node's end, so after that node raises a
click runs the call); `RowsHoldCharges` fails for every turn together, because a turn that
continues a parked message replaces its row's tokens with its own, while both were charged.

### What is proved

`TurnGraph_proofs`, for any responses, threshold and cap, and any number of turns, calls and
requests, several cards in one response included:

- `TypeCorrect`: `TypeOK`.
- `OnlyApprovedAlways`, from `Inv`: a call on a card has not run, and a card passed over is not
  the one the thread waits on (`CardInv`); the run's clicks are the turn's answers
  to the parked card (`ClickInv`); a call the run has still to run or to wait for has not run
  and was not passed over, and a run that began with a prompt does not hold the
  card it passes over (`CallInv`, for a run the loop accepts; one it refuses defers
  nothing); what the run parks is none of those (`ParkInv`). Only `RunCall` runs a tool:
  a response adds calls behind all there are.
- `WarnedAlways`, from `WarnInv`: the refusal behind each warning the guard remembers
  is among the run's refusals, with its step.

- `ThreadAcceptedAlways`, from `HistInv`. The notion it turns on is `Orderly`: each call has its
  result, but for some of a last response that nothing but results follows. The thread is
  `Whole` (nothing waits), both parks are orderly (`ThreadInv`); a run requests with a whole
  history, and in a step the outstanding calls are exactly those still to run, those with a
  result and those deferred (`Parted`); what a run keeps or parks is orderly
  (`RunHistInv`). Behind it: appending a prompt, a response or results keeps
  `Orderly` and says what is then outstanding (`AppendOther`, `AppendCalls`,
  `AppendReturns`), and the longest settled prefix of an orderly history is whole
  (`SettledHistoryWhole`).
- `ResumesWholeAlways`, from `ParkedInv` with `HistInv`: what a park names agrees with what the
  history parked with it waits for (`Agrees`): it is outstanding there, and it is all of it
  unless a card stands among the outstanding calls beside another one. A step that parks
  durable calls names all of those, so what it leaves out are cards; one that parks a card has
  nothing but cards (`AbsorbNames`).

Left out: sub-agents, the summaries and chunks a tool emits, pre-turn hooks,
question cards; a charge before the node ends.

## 9. RunHistory

| Model | Code |
| --- | --- |
| `history`, `sent` | the messages a run carries, and those of its last request |
| `sections` | what each instruction section reads now |
| `run` | the run: `_RunSections` (`held`, `latest`), its calls and their results |
| `setting` | how pydantic-ai is put together: whether it keeps what processors return, and whether the notes' hook comes first |

`Processed` is `pair_orphans`, `elide_consumed`, `compact_history` in their order
(`PairOrphans`, `ElideConsumed`, `CompactHistory`); `Send` is a model request through
them and `before_model_request` (`Notes`); `Execute` is `after_tool_execute`. Texts are
version numbers and sizes are units: a bulky result 2, every other part 1.

`run_history`: one section, two runs, four calls, a new thread or one of three damaged histories;
limits such that elision and compaction both happen (block 2, keep 1, compact at 7).

- `BriefingCurrent`: what the model reads as each section is what the run's last successful call
  left, through elision, compaction and earlier notes, but for `run.misled`.
- `NothingLost`: every call sent is answered once before the next response (`PairsKept`), and what the
  user said is before the model, as a message or in the digest (`WordsKept`).
- `RequestsExtend`: between two edges a request extends the one before.

A response's calls run beside each other and end in any order (`Execute`), and a run may re-enter a
parked one (`Resume`). Two cases of them leave the briefing stale, both reached by the run, and `run.misled`
holds just the sections they concern, until the section's next update. Of two calls of one
response that change a section, the update of the one that stands later is sent last, though the
other ended last. And a run that re-enters a parked one takes the parked run's last update for
its own, because that is still in the user's voice.

Left out: the wording and nested headings of sections, files, thinking and provider
compaction parts, renders that wait.

## 10. The stores: Notebook, Threads, TaskProgress, Memories, Quota

What the database keeps of a user beside the logs. The five share no row and no transaction:
an interleaving of two of them says no more than each alone. `MCStores` holds them side by side, and a
behaviour follows the one it begins with while the others stand still, so the run
`stores` checks each by itself. A property of one speaks of variables only that one changes.

### Notebook

| Model | Code |
| --- | --- |
| `notes` | the rows of the thread's `scratchpad_notes`, their `id` in the order they were written; the words are the facts they hold |
| `now` | the turn a row is written in |
| `compaction` | where `compact_scratchpad` is: at its gate, or waiting for the compactor agent |

The tools are `Note`, `UpdateNote`, `DeleteNote`, `SetPin`, each one transaction.
A compaction is three (`OpenGate`, `ReadNotes`, `CommitCompaction` or `FailCompaction`), with
tools between them. `ForkNotes` and `RevertNotes` are the repository's; the model follows the branch of a fork.
The compactor agent is external and taken to keep every fact it is shown, once, in at most
`MaxCompacted` notes (`CompactionResults`).

Bounds: 3 facts, 2 turns, 1 compaction of at most 2 notes, ceilings of 2 notes and 3 tokens, so that either
ceiling may be the one that is passed. `NotesKept` has three parts:

- `KeepsWhatStood`: a compaction keeps every note pinned at its commit, and every fact it read
  that still stands. With a `ReadLimit` below the number of notes it fails: notes that were
  not read are replaced. The code's limit is far above its ceiling.
- `GateCloses`: after a commit the gate is closed, whatever was written beside it.
- `RevertCuts`: a revert keeps the notes first written before its turn and no others, also in a fork. What an
  update changed later stays changed: an update keeps a note's time.

`Stores_proofs` proves `NotesTypeCorrect`, `GateClosesAndRevertCuts` and `NotesAlwaysKept` for any ceilings,
limits, sizes and results of the agent. `NotebookAssumption` asks that an agent may not answer with more notes than the count
ceiling: the code's 20 and 50. A host that passed `compact_scratchpad` a `count_threshold` below 20 could
see its gate stay open. `KeepsWhatStood` has one hypothesis, `ReadsAll`: no more notes stand unpinned than one listing
returns, 1000 in the code. It is what fails with a low `ReadLimit`, and the run keeps it with 6. The
invariant: rows are typed, finitely many, and dated by the turn they were first written in (`Dated`); while the
compactor writes, all that stood was shown to it (`ShownAll`), because a note has fewer newer ones than the
limit (`ReadsEveryNote`). That a commit closes the token gate is a fact about sums: the tokens of a part are
no more than those of the whole (`TotalShrinks`).

`PinnedNeverMerged` fails: a note pinned between the read and the commit is kept and merged.
A pinned note that is unpinned while the compactor writes is replaced unread; `stood`
excludes it.

Left out: reading, searching and rendering notes, the reading tools the toolset hides, promotion to memory.

### Threads

| Model | Code |
| --- | --- |
| `live`, `used`, `row` | the rows of `conversations`: the ids there are, those there ever were, `parent_conversation_id` and `parent_message_id` |
| `message` | the rows of `messages`: their thread, and the thread whose turn wrote their metadata |
| `req[r]` | a transaction: what it has read, what it has written and not committed |
| `line`, `raced` | history: the threads one was forked under; those forked under a thread whose deletion had passed its children |

A deletion is three statements (`Delete` reads the parent, `MoveChildren` updates the
children, `RemoveThread` deletes and commits), a cascade two (`Cascade`, `RemoveSubtree`), a
creation two (`Create`, `InsertThread`). What one has updated and not committed
locks those rows and, through the foreign key, their new parent: `Blocks` says who waits for whom, and
`BreakDeadlock` is the database's. `ON DELETE CASCADE` and `ON DELETE SET NULL` are `Without` and `Unlinked`.

Bounds: 3 threads (a thread, its parent, its child, of which two are deleted at once), 1 message, 2 requests.

- `ReferencesHold`: a thread's parent is a thread that is there and that it was forked under
  (`ParentAbove`: no cycle, no thread lost), its fork point is a message of that parent
  (`ForkPoint`), and a message holds what a turn of its own thread wrote (`OwnMetadata`).
- `KeepsPlace`: a thread hangs under the nearest surviving thread it was forked under. Threads
  in `raced`, and those forked under them, are excepted: a thread forked between
  the two writes of its parent's deletion becomes a root.

Assumed: the host commits each request's transaction at once at its end, and an id names one thread
ever (they are random). Left out: `update_thread`'s columns other than the name, sums of usage.

### TaskProgress

| Model | Code |
| --- | --- |
| `buffer[e]`, `lane[e]` | `_buffer` and the `_ThreadLog` of an emitter: the task's, or one scoped from it |
| `rows`, `log` | `task_progress`; the `data-task-progress` chunks of the thread |
| `call[c]` | a call of the body that waits for a commit or an append; the runner's own |
| `onThread` | false for a task the host started, whose progress has no thread |

All calls run on one event loop, so a step goes from one await to the next: `Update` and `Close` up to the
flush or the append, `Commit` from the flush to the lane, `AppendToThread` to the end. The
interval of a buffer and the ten seconds of a lane are choices.

Bounds: 2 emitters, 2 calls at once, 3 updates in batches of 2, percentages 10 and 20 with
an advance of 5, 1 refused write. `ReportsKept` has two parts:

- `EveryRowOnce`: no update becomes two rows, and where nothing is refused each is a row, on its way to be
  one, or in a buffer.
- `LastOfferedHeld`: once the runner has closed the emitter, the log holds the update the lane was offered last.

`NewestHeld` fails: an update is offered to the log after its flush, so of two concurrent calls the one
whose commit is slower offers its older update last, and the thread shows that for ever.

`Stores_proofs` proves `ProgressTypeCorrect` and `ReportsKeptAlways` for any emitters, calls, batch sizes and
refused writes, from `ProgressAssumption`. `EveryRowOnce` follows from `Once`: what is in the rows, in the
buffers and under commit is pairwise apart and was reported, and only a commit carries updates, so a flush
and a commit each move a batch whole. `LastOfferedHeld` needs two invariants: `Lanes`, a lane knows of no
update but the one it was offered last and forgets it only once the log holds it; and `RunnerLast`, the
runner's close is the last open call and ends with nothing left to append.

### Memories

| Model | Code |
| --- | --- |
| `entries` | the store's rows, each stamped `at` its write; `auto` is history |
| `tombs` | `memory_tombstones`: application, kind, content hash |
| `writer` | `auto_write_memories` between its one read of the tombstones and its last put |
| `reader`, `answer` | `retrieve_relevant_memories` between the listing and the search; what it returned |

Every call of the store or the tombstone index is a step. Which rows are nearest is the
embedding's choice (`Nearest`), and an embedding that cannot be reached finds none.

Bounds: 2 applications, a listed and a ranked kind, 1 key, 2 contents of which 1 is admitted, budgets of 1,
2 candidates, 2 puts.

- `PrunedBeforeStaysGone`: what was tombstoned before a turn read the tombstones is not written
  back by it, for any of its candidates and whatever fails.
- `AnswerInScope`: an answer is of the caller's application and of what its scope admits, no memory
  twice, inside both budgets, whatever is written between its two reads.

`PrunedStaysGone` fails: a tombstone written while a turn writes is not seen by it.
`ListingIsNewest` fails: the listing's budget is applied before its filter, so rows the scope
does not admit push out rows it does. What is left of it, `ListingMissesForNewer`, is proved: an
admitted memory is missed only for a budget of newer rows of the always-kinds.

`Stores_proofs` proves `MemoryTypeCorrect`, `AnswerAlwaysInScope`, `PrunedStays` and
`ListingAlwaysMissesForNewer` from `MemoriesAssumption`. The invariant: no two rows have one key or one
stamp (`StoreRows`); what the turn has still to write, and was tombstoned before it read the tombstones,
it has read as dead (`WriterFound`); a listing is in scope and in its budget when it is taken, and stays so
whatever is written before the search (`ListingInScope`). That the rows newer than fewer than n others
are at most n is `NewestBounded`, by a smallest counterexample.

Assumed: a host stamps a memory when it writes it, so recency is the order of writes. Left out:
scores and their order, the deadline of a call (it raises, as `WriteFails` does), a store bound to an application
other than the caller's.

### Quota

| Model | Code |
| --- | --- |
| `usage` | `total_cost_usd` of `monthly_usage` by application, month and payer |
| `turn[t]` | the recording of one turn's cost: its upsert, waiting for or holding the row |
| `reading`, `status` | `get_current` between its two readings of the clock; the status it returned |
| `month` | the clock |

Bounds: 2 applications, 3 turns of cost 1, one month's end: two turns meet on one row while the third has another
application, month or payer. `BudgetHolds` has two parts:

- `SpendCounted`: a row holds the cost of every turn recorded under its key, each once.
- `CapIsDeployment`: what a status holds the user to is no more than the deployment paid in its
  month, over all applications; the user's own key does not count.

`StatusOfOneMonth` fails: `get_current` reads the clock again after its query, so at a month's end it
returns last month's spend with next month's reset.

`Stores_proofs` proves `QuotaTypeCorrect` and `BudgetAlwaysHolds` for any finite sets of turns and applications
and any costs (`QuotaAssumption`). A turn is recorded under its key once, when its upsert commits
(`Recording`); `SpendCounted` needs that adding one turn to a finite sum adds its cost and that a sum
over other turns stays; `CapIsDeployment` needs `ReadingIsSpend`, what an open reading has summed was paid, and that
what the deployment paid in a month only grows.

Left out: token columns, which are counted like the cost; what a host does with a status.

## 11. The services: ThreadNames, Heartbeat, ClientTrace

Three components with no state in common, put side by side in `MCServices` like the stores. The run
`services` is symmetric in the requests, the dispatches and the phases, which no definition tells apart.

### ThreadNames

| Model | Code |
| --- | --- |
| `shelf`, `name`, `dismissed` | whose thread it is and its site; the columns `name` and `dismissed_at` |
| `req[r]` | a naming between the query for the names of its shelf and its write |
| `raced` | history: pairs of threads of which one was named while the other's request had read the names |

`Create` and `Rename` read and choose (`deduplicate_name`), `Insert` and `WriteName` write. `Visible` is
`get_visible_conversation`: `Delete`, `Dismiss` and `Restore` act for the owner only.

Bounds: 3 threads, 2 owners, 1 site, 2 requests, 1 base name with suffixes up to 2.

- `NamesApart`: two threads of a listing share a name only when each was named before the
  other's request wrote.

`NamesUnique`, which is what `deduplicate_name` says of itself, fails for two requests at once: there is no
unique index and no lock.

### Heartbeat

| Model | Code |
| --- | --- |
| `worker`, `blocked` | the process; whether a job holds its event loop |
| `beat`, `elapsed`, `lost` | `HeartbeatThread._run`: waiting, writing, ended in order or died on an exception; for how long; beats refused in a row, more than `MaxLost` also where a write hung |
| `age`, `released` | the age of `procrastinate_workers.last_heartbeat`; whether a sweep took the worker's jobs |

Time is ticks; a tick does not pass while the thread has to go on (`Due`). A write lands, is refused with an
error `_beat` catches (`BeatFails`), hangs (`Tick`: it has no timeout of its own) or raises another
exception, which leaves `_run`: the thread is gone and the worker lives on (`BeatRaises`).
`HeartbeatAssumption` has the bound of `platform/config.py` (three intervals inside the window) and defines
`MaxLost`, the refused beats in a row the window has room for when one takes at most `Delay`. Nothing bounds
how many are refused.

Bounds: interval 4, window 12, delay 2, room for one lost beat: (1 + 1)(4 + 2) is the whole window.

- `LiveIsNotDead`: a sweep takes the jobs of a worker that is alive only where its beat is gone: the thread
  died, a write hung, or more than `MaxLost` beats in a row were refused. The exceptions are the code's, and
  the run reaches each of them. What is left is what the thread is for: a job that holds the loop, for
  however long, costs the worker nothing.

Left out: procrastinate's own beat on the worker's loop (a second writer of the same row, so the one
modelled is the only one while the loop is held).

### ClientTrace

| Model | Code |
| --- | --- |
| `folded` | the message's parts as `core/reduce.ts` holds them: a tool's line on its call |
| `beside` | as the AI SDK holds them: the line a part of its own |
| `turn` | running, or how it ended |
| `spent`, `newest` | history: what each agent and lane last reported |

The readers are operators: `BuildTrace` (a left-to-right walk over the parts, then
`Closed` and `Lined`), `ToTraceParts`, `RunningPhase`, `TurnUsage`, `TaskLifecycle`. They are
evaluated after every part, as the interface does. The lead and its sub-agents are
external, from `PROTOCOL.md` section 6 and `agent_topology.py`: the lead speaks
only while no dispatch is open, sub-agents interleave.

Bounds: 2 dispatches, 2 lanes, 5 parts, 2 phases.

- `ReadersAgree`: both reducers' shapes give one trace, and the status line's phase is the one
  the trace shows. It excepts the moment in which the SDK shows an answer to a card that the server has not read.
- `NothingRunsOn`: after a turn's end no dispatch is shown as started, nor a call of one it left open
  as running. Rows of the lead itself are not claimed.
- `ShownWhole`: each call is in one row of one group (`EveryCallShown`), and usage and lanes show the last
  report of each agent and lane (`LastReportStands`).

`FailedWorkStops` fails: a dispatch that reported `failed` with a call open keeps that row running
(`PROTOCOL.md` section 6 says such a call must not be shown so).

Left out: summaries and outputs as texts, text and reasoning steps, dynamic tools, malformed
payloads, `orderedLanes`, `threadUsage`.

### What is proved

For any numbers of threads, messages, requests, owners, sites and names, and any values of the
heartbeat's constants that its assumption admits, with no other hypothesis:

- `Stores_proofs`, of `Threads`: `ThreadsTypeCorrect`, `ReferencesAlways`, `KeepsPlaceAlways`. The lines are closed
  under ancestors (`Lines`); what a deletion has read of its thread stays so, or the
  parent it read is gone and its next statement fails (`Reads`); what it updated waits for it
  unchanged (`Holds`, `UpdatesApart`); a thread under one it removes is held, removed or raced
  (`Gathers`). From these the invariant `Placed` says of each thread that nothing it was
  forked under stands between it and its parent.
- `Services_proofs`, of `ThreadNames`: `TypeCorrect`, `NamesApartAlways`. A thread that has the name a request is
  about to write was named after the request read (`TakenByRivals`).
- `Services_proofs`, of `Heartbeat`: `LiveIsNeverDead`. `Young` bounds the age of a live worker's row by one
  cycle for each beat refused since the last that landed, and `OnTime` bounds the step the beat is in.

The rest of `Stores_proofs` is described with its modules in section 10. `ClientTrace` is model-checked. Liveness is not claimed of the
stores and services: a host's request may be given up at any step.

## 12. Not modelled

- Task plumbing, checkpointer, model and embedding providers, platform, registry and migrations: start-up and
  pure I/O, with no state a later step reads.
- MCP sources: a session belongs to one turn; admission is a check at start-up.
- Capabilities other than the repetition guard (`TurnGraph`) and the stable instructions (`RunHistory`): they rewrite or
  screen a text and keep nothing between calls.
- The client's type guards, its legacy frames, the conformance suite.

procrastinate, langgraph, pydantic-ai, the AI SDK, PostgreSQL and the host's chat handler are not in this
repository; what the models assume of them is marked external in the map. The modules are not
composed into one: each takes from the others the promise that its neighbour's section states
(`TurnGraph` that tasks report, `ResumeTransport` that a tail sends every row, `DurableTasks` that
a stop ends a turn), because their states meet only in the log and the checkpoint.

## 13. Proofs at a glance

| Module | Theorems | Hypotheses |
| --- | --- | --- |
| `DurableTasks_proofs` | `TypeCorrect`; `OneHolderAlways`; `SweepUnderThreadLock`, `TurnsExclude`, `TasksKeepSteps`, `AnnouncedAlways`, `OneVerdictAlways` | none; no age timeout for all the others |
| `EventTail_proofs` | `TypeCorrect`, `GuardAlwaysUsed`, `NoDeafReaderAlways`, `NoMissedWakeAlways`, `NeverRepeatsAlways`; `NothingSkippedSerially` | none; no overlapping writers |
| `StopProtocol_proofs` | `TypeCorrect`, `OneWriterAlways`, `DeleteWaitsAlways`, `EndsClosedAlways` | none |
| `TurnGraph_proofs` | `TypeCorrect`, `OnlyApprovedAlways`, `WarnedAlways`, `ThreadAcceptedAlways`, `ResumesWholeAlways` | none |
| `ResumeTransport_proofs` | `TypeCorrect`, `OwnPartsAlways` | `ResumeBounds` |
| `MessageFold_proofs` | `FoldInvariant`, `ReducersAgree`, `DeltasArrive`, `TurnsEndClean` | `FoldBounds`, `FoldIds` |
| `Stores_proofs` | `ThreadsTypeCorrect`, `ThreadsInvariance`, `ReferencesAlways`, `KeepsPlaceAlways`; `ProgressTypeCorrect`, `ReportsKeptAlways`; `MemoryTypeCorrect`, `AnswerAlwaysInScope`, `PrunedStays`, `ListingAlwaysMissesForNewer`; `QuotaTypeCorrect`, `BudgetAlwaysHolds`; `NotesTypeCorrect`, `GateClosesAndRevertCuts`; `NotesAlwaysKept` | none; `ProgressAssumption`; `MemoriesAssumption`; `QuotaAssumption`; `NotebookAssumption`; and `[]ReadsAll` |
| `Services_proofs` | `TypeCorrect`, `NamesApartAlways`; `LiveIsNeverDead` | none; `HeartbeatAssumption` |

Where a hypothesis excludes a case in which the property fails, its module's section says how it fails. Each module states an inductive
invariant, one lemma per action (or per family of actions that leave a part alone), and theorems that combine
them with PTL.

What stays with TLC:

- Liveness: `WorkEnds`, `TailCatchesUp`, `StopEndsRunningTurn`.
- `CursorCovers`, which has no proof here.
- `RunHistory` and `ClientTrace` whole, and `LiveIsReload`: each compares what two folds make of the same
  sequence of any length, and their folds are operators of the library that are recursive or have no theorem to
  cite (`SelectSeq`). The library's induction theorems take an operator, which the provers cannot instantiate;
  where a fold is a recursive function (`ResumeTransport`, `MessageFold`) or a sum over a finite set (`Quota`,
  `Notebook`), the proofs argue by a smallest counterexample instead.
