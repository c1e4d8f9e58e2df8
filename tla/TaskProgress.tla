---------------------------- MODULE TaskProgress ----------------------------
(***************************************************************************)
(* The progress a durable task reports while it runs: TaskProgressEmitter  *)
(* and _ThreadLog of tasks/progress.py, as the runner opens and closes     *)
(* them (tasks/runner.py).                                                 *)
(*                                                                         *)
(* An update takes two ways: rows of `task_progress`, buffered and         *)
(* committed in batches, and a coalesced subset on the thread's log, one   *)
(* lane per emitter.  Everything runs on one event loop: a call gives way  *)
(* only where it awaits the database, so a step here runs from one await   *)
(* to the next.                                                            *)
(***************************************************************************)
EXTENDS Naturals, Sequences, FiniteSets

CONSTANTS
    Emitters,       \* the task's emitter and the children scoped from it
    Root,           \* the emitter the runner makes
    Calls,          \* calls of the task's body that are open at once
    Points,         \* the percentages it reports, as points
    Advance,        \* _LOG_ADVANCE_POINTS
    BatchSize,      \* batch_size
    MaxUpdates,     \* bound on the updates of a run
    MaxFaults,      \* bound on the commits and appends the database refuses
    Runner,         \* the call the runner makes
    None            \* no chunk is written yet

ASSUME ProgressAssumption ==
    /\ Root \in Emitters
    /\ Points \subseteq Nat
    /\ Advance \in Nat
    /\ BatchSize \in Nat \ {0}
    /\ MaxUpdates \in Nat
    /\ MaxFaults \in Nat
    /\ None \notin Nat
    /\ Runner \notin Calls

VARIABLES
    onThread,   \* on_thread: false for a task the host started
    updates,    \* the updates so far, in the order update() was called
    buffer,     \* _buffer: the updates an emitter has not committed
    rows,       \* the rows of task_progress, oldest first
    log,        \* the data-task-progress chunks of the thread, oldest first
    lane,       \* the _ThreadLog of an emitter
    offered,    \* history: the update an emitter's _ThreadLog was last offered
    call,       \* what each open call waits for
    task,       \* "running", "closing" (the runner's aclose), "done", "failed"
    faults

progressVars == <<onThread, updates, buffer, rows, log, lane, offered, call, task, faults>>

Number == 1..MaxUpdates

NoCall == [step |-> "idle", by |-> Root, update |-> 0, pending |-> <<>>]

Call == [step : {"idle", "commit", "append"}, by : Emitters, update : 0..MaxUpdates,
         pending : Seq(Number)]

\* The calls of the body and the runner's own.
Callers == Calls \cup {Runner}

ProgressTypeOK ==
    /\ onThread \in BOOLEAN
    /\ updates \in Seq([by : Emitters, points : Points])
    /\ Len(updates) <= MaxUpdates
    /\ buffer \in [Emitters -> Seq(Number)]
    /\ rows \in Seq(Number)
    /\ log \in Seq(Number)
    /\ lane \in [Emitters -> [written : Points \cup {None}, unwritten : 0..MaxUpdates]]
    /\ offered \in [Emitters -> 0..MaxUpdates]
    /\ call \in [Callers -> Call]
    /\ task \in {"running", "closing", "done", "failed"}
    /\ faults \in 0..MaxFaults

ProgressInit ==
    /\ onThread \in BOOLEAN
    /\ updates = <<>>
    /\ buffer = [e \in Emitters |-> <<>>]
    /\ rows = <<>>
    /\ log = <<>>
    /\ lane = [e \in Emitters |-> [written |-> None, unwritten |-> 0]]
    /\ offered = [e \in Emitters |-> 0]
    /\ call = [c \in Callers |-> NoCall]
    /\ task = "running"
    /\ faults = 0

-----------------------------------------------------------------------------
\* _ThreadLog._is_due; `silent` is whether the last chunk is ten seconds old.
IsDue(e, points, silent) ==
    \/ lane[e].written = None
    \/ points >= lane[e].written + Advance
    \/ silent

\* A call of an emitter offers its update to the lane: it is the newest the log
\* does not hold, and is appended when it is due.  Nothing awaits in between.
Offer(c, e, n, points) ==
    IF ~onThread
    THEN /\ call' = [call EXCEPT ![c] = NoCall]
         /\ UNCHANGED <<lane, offered>>
    ELSE /\ lane' = [lane EXCEPT ![e].unwritten = n]
         /\ offered' = [offered EXCEPT ![e] = n]
         /\ \E silent \in BOOLEAN :
               call' = [call EXCEPT ![c] =
                   IF IsDue(e, points, silent)
                   THEN [NoCall EXCEPT !.step = "append", !.by = e, !.update = n]
                   ELSE NoCall]

\* Mutant: the buffer is emptied only when the next batch is.
FlushAndKeep(c, e, n, held) ==
    /\ buffer' = [buffer EXCEPT ![e] = held]
    /\ call' = [call EXCEPT ![c] =
                   [step |-> "commit", by |-> e, update |-> n, pending |-> held]]

\* The commit of everything an emitter holds: the buffer is emptied first.
Flush(c, e, n, held) ==
    /\ buffer' = [buffer EXCEPT ![e] = <<>>]
    /\ call' = [call EXCEPT ![c] =
                   [step |-> "commit", by |-> e, update |-> n, pending |-> held]]

\* update(): a full buffer is flushed, and one whose interval is over.
Update(c, e, points) ==
    LET n    == Len(updates) + 1
        held == Append(buffer[e], n) IN
    /\ task = "running"
    /\ call[c].step = "idle"
    /\ n <= MaxUpdates
    /\ updates' = Append(updates, [by |-> e, points |-> points])
    /\ \/ /\ Flush(c, e, n, held)
          /\ UNCHANGED <<lane, offered>>
       \/ /\ Len(held) < BatchSize
          /\ buffer' = [buffer EXCEPT ![e] = held]
          /\ Offer(c, e, n, points)
    /\ UNCHANGED <<onThread, rows, log, task, faults>>

\* aclose() once there is nothing to flush: the newest update the log does not
\* hold is appended.
WriteLast(c, e) ==
    /\ call' = [call EXCEPT ![c] =
           IF onThread /\ lane[e].unwritten # 0
           THEN [NoCall EXCEPT !.step = "append", !.by = e, !.update = lane[e].unwritten]
           ELSE NoCall]
    /\ UNCHANGED <<lane, offered>>

\* aclose(), by the body on an emitter it scoped or by the runner on its own.
Close(c, e) ==
    \/ /\ buffer[e] # <<>>
       /\ Flush(c, e, 0, buffer[e])
       /\ UNCHANGED <<lane, offered>>
    \/ /\ buffer[e] = <<>>
       /\ WriteLast(c, e)
       /\ UNCHANGED buffer

CloseChild(c, e) ==
    /\ task = "running"
    /\ e # Root
    /\ call[c].step = "idle"
    /\ Close(c, e)
    /\ UNCHANGED <<onThread, updates, rows, log, task, faults>>

\* The body returned or raised, with no call of its own left open.  The runner
\* closes the emitter it made, and no other, in either case.
CloseRoot ==
    /\ task = "running"
    /\ \A c \in Calls : call[c].step = "idle"
    /\ task' = "closing"
    /\ Close(Runner, Root)
    /\ UNCHANGED <<onThread, updates, rows, log, faults>>

\* The rows are committed; an update goes on to the lane, a close to its end.
Commit(c) ==
    LET e == call[c].by
        n == call[c].update IN
    /\ call[c].step = "commit"
    /\ rows' = rows \o call[c].pending
    /\ IF n = 0 THEN WriteLast(c, e) ELSE Offer(c, e, n, updates[n].points)
    /\ UNCHANGED <<onThread, updates, buffer, log, task, faults>>

\* Mutant: an append settles the lane, whatever was offered meanwhile.
AppendAndForget(c) ==
    LET e == call[c].by
        n == call[c].update IN
    /\ call[c].step = "append"
    /\ log' = Append(log, n)
    /\ lane' = [lane EXCEPT ![e] = [written |-> updates[n].points, unwritten |-> 0]]
    /\ call' = [call EXCEPT ![c] = NoCall]
    /\ UNCHANGED <<onThread, updates, buffer, rows, offered, task, faults>>

\* _ThreadLog._append: the chunk is on the thread.  What was offered in the
\* meantime stays unwritten.
AppendToThread(c) ==
    LET e == call[c].by
        n == call[c].update IN
    /\ call[c].step = "append"
    /\ log' = Append(log, n)
    /\ lane' = [lane EXCEPT ![e] =
                   [written   |-> updates[n].points,
                    unwritten |-> IF @.unwritten = n THEN 0 ELSE @.unwritten]]
    /\ call' = [call EXCEPT ![c] = NoCall]
    /\ UNCHANGED <<onThread, updates, buffer, rows, offered, task, faults>>

\* The database refuses a commit or an append: the call raises.  Out of the
\* runner's close that fails the task; the body may handle its own.
Refuse(c) ==
    /\ call[c].step # "idle"
    /\ faults < MaxFaults
    /\ faults' = faults + 1
    /\ call' = [call EXCEPT ![c] = NoCall]
    /\ task' = IF c = Runner THEN "failed" ELSE task
    /\ UNCHANGED <<onThread, updates, buffer, rows, log, lane, offered>>

\* The runner goes on to record the task's result.
Settle ==
    /\ task = "closing"
    /\ call[Runner].step = "idle"
    /\ task' = "done"
    /\ UNCHANGED <<onThread, updates, buffer, rows, log, lane, offered, call, faults>>

ProgressNext ==
    \/ \E c \in Calls, e \in Emitters :
          (\E p \in Points : Update(c, e, p)) \/ CloseChild(c, e)
    \/ CloseRoot
    \/ \E c \in Callers : Commit(c) \/ AppendToThread(c) \/ Refuse(c)
    \/ Settle

ProgressSpec == ProgressInit /\ [][ProgressNext]_progressVars

-----------------------------------------------------------------------------
(* Properties.                                                              *)

Occurrences(s, n) == {i \in DOMAIN s : s[i] = n}

\* In how many places an update is: a buffer, a batch under commit, the rows.
Places(n) ==
    Cardinality(Occurrences(rows, n))
      + Cardinality({e \in Emitters : Occurrences(buffer[e], n) # {}})
      + Cardinality({c \in Callers : Occurrences(call[c].pending, n) # {}})

\* "Records a durable task's incremental progress": no update becomes two rows,
\* however calls overlap between a flush and its commit, and while the database
\* refuses nothing each one is a row, on its way to be one, or in a buffer.
EveryRowOnce ==
    \A n \in 1..Len(updates) : Places(n) <= 1 /\ (faults = 0 => Places(n) = 1)

\* "Append the newest update the log does not hold yet": once the runner has
\* closed the emitter, the log holds the update the emitter's lane was offered
\* last, also when it was offered while another one was being appended.
LastOfferedHeld ==
    task = "done" /\ offered[Root] # 0 => Occurrences(log, offered[Root]) # {}

\* What the body reported reaches what reads it, as a row and on the thread.
ReportsKept == EveryRowOnce /\ LastOfferedHeld

\* What the runner's emitter was given, once it is closed and was refused nothing.
Given ==
    IF task = "done" /\ onThread /\ faults = 0
    THEN {n \in 1..Len(updates) : updates[n].by = Root} ELSE {}

Newest(n) == n \in Given /\ \A k \in Given : k <= n

\* "Append the newest update the log does not hold yet": the newest update of the
\* task is on the thread once the emitter is closed.
NewestHeld == \A n \in Given : Newest(n) => Occurrences(log, n) # {}

=============================================================================
