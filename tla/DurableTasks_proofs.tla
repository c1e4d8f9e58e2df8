------------------------- MODULE DurableTasks_proofs -------------------------
(***************************************************************************)
(* What holds of the durable tasks of a thread for every number of tasks,   *)
(* chat turns, workers and sweeps, proved from DurableTasks.                *)
(***************************************************************************)
EXTENDS DurableTasks, SequenceTheorems, TLAPS

-----------------------------------------------------------------------------
(* Types *)

\* Only a task's job is picked and given to a body.
HoldsTask ==
    \A p \in Procs : agent[p].pc \in {"picked", "body"} => agent[p].hold \in Tasks

TypeInv == TypeOK /\ HoldsTask

LEMMA IdleType == Idle \in Agent
  BY DEF Idle, Agent, PC, Verdict

\* A handler that gives its process a well-typed record keeps the type.
LEMMA BecomeType ==
    ASSUME TypeInv, NEW p \in Procs, NEW a \in Agent, Become(p, a),
           a.pc \in {"picked", "body"} => a.hold \in Tasks
    PROVE  agent' \in [Procs -> Agent] /\ HoldsTask'
  BY DEF TypeInv, TypeOK, HoldsTask, Become

LEMMA SetRowType ==
    ASSUME TypeInv, NEW t, NEW s \in RowState, SetRow(t, s)
    PROVE  row' \in [Tasks -> RowState]
  BY DEF TypeInv, TypeOK, SetRow

LEMMA ReleaseType ==
    ASSUME TypeInv, NEW j, Release(j)
    PROVE  queue' \in Seq(Jobs) /\ busy' \in BOOLEAN
  <1>1. CASE j \in Doing
    <2>1. queue \in Seq(Jobs) /\ queue # <<>> /\ queue' = Tail(queue) /\ busy' = FALSE
      BY <1>1 DEF TypeInv, TypeOK, Release, Doing
    <2> QED
      BY <2>1, HeadTailProperties
  <1>2. CASE j \notin Doing
    BY <1>2 DEF TypeInv, TypeOK, Release
  <1> QED
    BY <1>1, <1>2

LEMMA AppendType ==
    ASSUME TypeInv, NEW j \in Jobs
    PROVE  Append(queue, j) \in Seq(Jobs)
  BY AppendProperties DEF TypeInv, TypeOK

LEMMA TypeInit == Init => TypeInv
  <1> SUFFICES ASSUME Init PROVE TypeInv
    OBVIOUS
  <1>1. row \in [Tasks -> RowState] /\ announced \in [Tasks -> Seq(Verdict)]
    BY EmptySeq DEF Init, RowState
  <1>2. lease \in [Jobs -> Sweepers \cup {None}] /\ agent \in [Procs -> Agent]
    BY IdleType DEF Init
  <1>3. faults \in 0..MaxFaults
    BY FaultAssumption DEF Init
  <1>4. HoldsTask
    BY DEF Init, HoldsTask, Idle
  <1>5. queue \in Seq(Jobs) /\ busy \in BOOLEAN
    BY EmptySeq DEF Init
  <1>6. parked \in SUBSET Tasks /\ told \in [Tasks -> SUBSET Verdict]
        /\ unsent \in SUBSET Turns /\ unused \in SUBSET Tasks
        /\ late \in SUBSET Sweepers /\ spoilt \in SUBSET Tasks
    BY DEF Init
  <1> QED
    BY <1>1, <1>2, <1>3, <1>4, <1>5, <1>6 DEF TypeInv, TypeOK

\* What an action leaves alone, and what it hands to its process.
LEMMA TypeSend == ASSUME TypeInv, NEW c \in Turns, Send(c) PROVE TypeInv'
  BY AppendType DEF Send, TypeInv, TypeOK, HoldsTask, Jobs

LEMMA TypeTake == ASSUME TypeInv, NEW w \in Workers, Take(w) PROVE TypeInv'
  <1>1. Head(queue) \in Jobs
    BY HeadTailProperties DEF Take, TypeInv, TypeOK
  <1>2. agent' \in [Procs -> Agent] /\ HoldsTask'
    BY <1>1, BecomeType, IdleType DEF Take, Procs, Idle, Agent, PC, Jobs
  <1> QED
    BY <1>2 DEF Take, TypeInv, TypeOK

LEMMA GotoType ==
    ASSUME TypeInv, NEW p \in Procs, NEW s \in PC, Goto(p, s),
           s \in {"picked", "body"} => agent[p].hold \in Tasks
    PROVE  agent' \in [Procs -> Agent] /\ HoldsTask'
  <1>1. agent[p] \in Agent
    BY DEF TypeInv, TypeOK
  <1>2. /\ [agent[p] EXCEPT !.pc = s] \in Agent
        /\ [agent[p] EXCEPT !.pc = s].pc = s
        /\ [agent[p] EXCEPT !.pc = s].hold = agent[p].hold
    BY <1>1 DEF Agent
  <1> QED
    BY <1>2, BecomeType DEF Goto

LEMMA CloseRowsType ==
    ASSUME TypeInv, NEW p \in Procs, NEW rows \in SUBSET Tasks, NEW failed \in BOOLEAN,
           CloseRows(p, rows, failed)
    PROVE  agent' \in [Procs -> Agent] /\ HoldsTask'
  <1> DEFINE s == IF rows = {} THEN "finish" ELSE "close"
             a == [agent[p] EXCEPT !.pc = s, !.closing = rows, !.marks = {}, !.fallback = {},
                                   !.erred = failed, !.calls = {}, !.making = None]
  <1>1. agent[p] \in Agent /\ s \in PC /\ s \notin {"picked", "body"}
    BY DEF TypeInv, TypeOK, PC
  <1> HIDE DEF s
  <1>2. a \in Agent /\ a.pc = s
    BY <1>1 DEF Agent
  <1>3. Become(p, a)
    BY DEF CloseRows, s
  <1> HIDE DEF a
  <1> QED
    BY <1>1, <1>2, <1>3, BecomeType

LEMMA EndTurnType ==
    ASSUME TypeInv, NEW p \in Procs, NEW failed \in BOOLEAN, EndTurn(p, failed)
    PROVE  agent' \in [Procs -> Agent] /\ HoldsTask'
  <1>1. agent[p].closing \in SUBSET Tasks /\ agent[p].fallback \in SUBSET Tasks
    BY DEF TypeInv, TypeOK, Agent
  <1> QED
    BY <1>1, CloseRowsType DEF EndTurn

LEMMA SweepOnType ==
    ASSUME TypeInv, NEW s \in Sweepers, NEW j, SweepOn(s, j)
    PROVE  agent' \in [Procs -> Agent] /\ HoldsTask'
  <1> DEFINE left == agent[s].seen \ {j}
             a == [Idle EXCEPT !.pc = IF left = {} THEN "idle" ELSE "sweep", !.seen = left]
  <1>1. s \in Procs /\ left \in SUBSET Jobs
    BY DEF TypeInv, TypeOK, Agent, Procs
  <1> HIDE DEF left
  <1>2. a \in Agent /\ a.pc \notin {"picked", "body"}
    BY <1>1 DEF Idle, Agent, PC, Verdict
  <1>3. Become(s, a)
    BY DEF SweepOn, left
  <1> HIDE DEF a
  <1> QED
    BY <1>1, <1>2, <1>3, BecomeType

LEMMA IdlesType ==
    ASSUME TypeInv, NEW p \in Procs, Become(p, Idle)
    PROVE  agent' \in [Procs -> Agent] /\ HoldsTask'
  <1>1. Idle.pc \notin {"picked", "body"}
    BY DEF Idle
  <1> QED
    BY <1>1, IdleType, BecomeType

-----------------------------------------------------------------------------
(* Types: one lemma per action *)

LEMMA TypeStartBody == ASSUME TypeInv, NEW w \in Workers, StartBody(w) PROVE TypeInv'
  <1>1. w \in Procs /\ agent[w].hold \in Tasks /\ "body" \in PC /\ "running" \in RowState
    BY DEF StartBody, At, TypeInv, TypeOK, HoldsTask, Procs, PC, RowState, Active
  <1>2. agent' \in [Procs -> Agent] /\ HoldsTask'
    BY <1>1, GotoType DEF StartBody
  <1>3. row' \in [Tasks -> RowState]
    BY <1>1, SetRowType DEF StartBody
  <1> QED
    BY <1>2, <1>3 DEF StartBody, TypeInv, TypeOK

LEMMA TypeBodyReturns == ASSUME TypeInv, NEW w \in Workers, BodyReturns(w) PROVE TypeInv'
  <1> DEFINE a == [agent[w] EXCEPT !.pc = "announce", !.fallback = {agent[w].hold}]
  <1>1. /\ w \in Procs /\ agent[w] \in Agent /\ agent[w].hold \in Tasks
        /\ "announce" \in PC /\ "result_ready" \in RowState
    BY DEF BodyReturns, At, TypeInv, TypeOK, HoldsTask, Procs, PC, RowState, Active
  <1>2. a \in Agent /\ a.pc = "announce"
    BY <1>1 DEF Agent
  <1>3. agent' \in [Procs -> Agent] /\ HoldsTask'
    BY <1>1, <1>2, BecomeType DEF BodyReturns
  <1>4. row' \in [Tasks -> RowState]
    BY <1>1, SetRowType DEF BodyReturns
  <1> QED
    BY <1>3, <1>4 DEF BodyReturns, TypeInv, TypeOK

LEMMA TypeFailTask == ASSUME TypeInv, NEW p \in Procs, FailTask(p) PROVE TypeInv'
  <1> DEFINE a == [agent[p] EXCEPT !.pc = "announce", !.verdict = "failed"]
  <1>1. agent[p] \in Agent /\ "announce" \in PC /\ "failed" \in Verdict /\ "failed" \in RowState
    BY DEF TypeInv, TypeOK, PC, Verdict, RowState, Closed
  <1>2. a \in Agent /\ a.pc = "announce"
    BY <1>1 DEF Agent
  <1>3. agent' \in [Procs -> Agent] /\ HoldsTask'
    BY <1>2, BecomeType DEF FailTask
  <1>4. row' \in [Tasks -> RowState]
    BY <1>1, SetRowType DEF FailTask
  <1> QED
    BY <1>3, <1>4 DEF FailTask, TypeInv, TypeOK

LEMMA TypeAnnounce == ASSUME TypeInv, NEW p \in Procs, Announce(p) PROVE TypeInv'
  <1>1. agent' \in [Procs -> Agent] /\ HoldsTask'
    BY GotoType DEF Announce, PC
  <1>2. agent[p].verdict \in Verdict
    BY DEF TypeInv, TypeOK, Agent
  <1>3. announced' \in [Tasks -> Seq(Verdict)]
    BY <1>2, AppendProperties DEF Announce, TypeInv, TypeOK
  <1> QED
    BY <1>1, <1>3 DEF Announce, TypeInv, TypeOK

LEMMA TypeNothingParked == ASSUME TypeInv, NEW p \in Procs, NothingParked(p) PROVE TypeInv'
  <1>1. agent[p].fallback \in SUBSET Tasks
    BY DEF TypeInv, TypeOK, Agent
  <1>2. agent' \in [Procs -> Agent] /\ HoldsTask'
    BY <1>1, CloseRowsType DEF NothingParked
  <1> QED
    BY <1>2 DEF NothingParked, TypeInv, TypeOK

LEMMA TypeWaitForSiblings == ASSUME TypeInv, NEW p \in Procs, WaitForSiblings(p) PROVE TypeInv'
  <1>1. agent' \in [Procs -> Agent] /\ HoldsTask'
    BY CloseRowsType DEF WaitForSiblings
  <1> QED
    BY <1>1 DEF WaitForSiblings, TypeInv, TypeOK

LEMMA TypeGather == ASSUME TypeInv, NEW p \in Procs, Gather(p) PROVE TypeInv'
  <1> DEFINE delivered == {t \in parked : AnswerOf(p, t) = "success"}
             s == IF delivered = {} THEN "turn" ELSE "marking"
             a == [agent[p] EXCEPT !.pc = s, !.marks = delivered, !.closing = delivered]
  <1>1. /\ agent[p] \in Agent /\ delivered \in SUBSET Tasks
        /\ s \in PC /\ s \notin {"picked", "body"}
    BY DEF TypeInv, TypeOK, PC
  <1>2. Become(p, a)
    BY DEF Gather
  <1>3. told' \in [Tasks -> SUBSET Verdict]
    <2>1. \A t \in Tasks : AnswerOf(p, t) \in Verdict
      BY <1>1 DEF AnswerOf, Agent, Verdict
    <2> QED
      BY <2>1 DEF Gather, TypeInv, TypeOK
  <1> HIDE DEF delivered, s
  <1>4. a \in Agent /\ a.pc = s
    BY <1>1 DEF Agent
  <1> HIDE DEF a
  <1>5. agent' \in [Procs -> Agent] /\ HoldsTask'
    BY <1>1, <1>2, <1>4, BecomeType
  <1> QED
    BY <1>3, <1>5 DEF Gather, TypeInv, TypeOK

LEMMA TypeMarkResuming ==
    ASSUME TypeInv, NEW p \in Procs, NEW t \in Tasks, MarkResuming(p, t) PROVE TypeInv'
  <1> DEFINE s == IF agent[p].marks = {t} THEN "turn" ELSE agent[p].pc
             a == [agent[p] EXCEPT !.marks = @ \ {t},
                                   !.pc = IF agent[p].marks = {t} THEN "turn" ELSE @]
  <1>1. agent[p] \in Agent /\ agent[p].pc = "marking" /\ "resuming" \in RowState
    BY DEF MarkResuming, At, TypeInv, TypeOK, RowState, Active
  <1>2. a \in Agent /\ a.pc \in {"turn", "marking"}
    BY <1>1 DEF Agent, PC
  <1>3. Become(p, a)
    BY DEF MarkResuming
  <1>4. row' \in [Tasks -> RowState]
    BY <1>1, SetRowType DEF MarkResuming
  <1> HIDE DEF a
  <1>5. agent' \in [Procs -> Agent] /\ HoldsTask'
    BY <1>2, <1>3, BecomeType
  <1> QED
    BY <1>4, <1>5 DEF MarkResuming, TypeInv, TypeOK

LEMMA TypeCompletionTurnRaises ==
    ASSUME TypeInv, NEW p \in Procs, CompletionTurnRaises(p) PROVE TypeInv'
  <1>1. agent[p].fallback \in SUBSET Tasks
    BY DEF TypeInv, TypeOK, Agent
  <1>2. agent' \in [Procs -> Agent] /\ HoldsTask'
    BY <1>1, CloseRowsType DEF CompletionTurnRaises
  <1> QED
    BY <1>2 DEF CompletionTurnRaises, TypeInv, TypeOK

LEMMA TypeCloseRow ==
    ASSUME TypeInv, NEW p \in Procs, NEW t \in Tasks, CloseRow(p, t) PROVE TypeInv'
  <1> DEFINE a == [agent[p] EXCEPT !.closing = @ \ {t},
                                   !.pc = IF agent[p].closing = {t} THEN "finish" ELSE @]
  <1>1. agent[p] \in Agent /\ agent[p].pc = "close" /\ {"failed", "complete"} \subseteq RowState
    BY DEF CloseRow, At, TypeInv, TypeOK, RowState, Closed
  <1>2. a \in Agent /\ a.pc \in {"finish", "close"}
    BY <1>1 DEF Agent, PC
  <1>3. Become(p, a)
    BY DEF CloseRow
  <1>4. row' \in [Tasks -> RowState]
    BY <1>1, SetRowType DEF CloseRow
  <1> HIDE DEF a
  <1>5. agent' \in [Procs -> Agent] /\ HoldsTask'
    BY <1>2, <1>3, BecomeType
  <1> QED
    BY <1>4, <1>5 DEF CloseRow, TypeInv, TypeOK

LEMMA TypeCreateRow ==
    ASSUME TypeInv, NEW p \in Procs, NEW t \in Tasks, CreateRow(p, t) PROVE TypeInv'
  <1> DEFINE a == [agent[p] EXCEPT !.making = t]
  <1>1. agent[p] \in Agent /\ agent[p].pc = "turn" /\ "pending" \in RowState
    BY DEF CreateRow, At, TypeInv, TypeOK, RowState, Active
  <1>2. a \in Agent /\ a.pc = "turn"
    BY <1>1 DEF Agent
  <1>3. agent' \in [Procs -> Agent] /\ HoldsTask'
    BY <1>2, BecomeType DEF CreateRow
  <1> QED
    BY <1>1, <1>3 DEF CreateRow, TypeInv, TypeOK

LEMMA TypeDeferJob == ASSUME TypeInv, NEW p \in Procs, DeferJob(p) PROVE TypeInv'
  <1> DEFINE a == [agent[p] EXCEPT !.making = None, !.calls = @ \cup {agent[p].making}]
  <1>1. agent[p] \in Agent /\ agent[p].pc = "turn" /\ agent[p].making \in Tasks
    BY DEF DeferJob, At, TypeInv, TypeOK, Agent
  <1>2. a \in Agent /\ a.pc = "turn"
    BY <1>1 DEF Agent
  <1>3. agent' \in [Procs -> Agent] /\ HoldsTask'
    BY <1>2, BecomeType DEF DeferJob
  <1>4. queue' \in Seq(Jobs)
    BY <1>1, AppendType DEF DeferJob, Jobs
  <1> QED
    BY <1>3, <1>4 DEF DeferJob, TypeInv, TypeOK

LEMMA TypeRefuseJob == ASSUME TypeInv, NEW p \in Procs, RefuseJob(p) PROVE TypeInv'
  <1>1. agent[p].making \in Tasks
    BY DEF RefuseJob, TypeInv, TypeOK, Agent
  <1>2. agent' \in [Procs -> Agent] /\ HoldsTask'
    BY EndTurnType DEF RefuseJob
  <1>3. queue' \in Seq(Jobs)
    BY <1>1, AppendType DEF RefuseJob, Jobs, TypeInv, TypeOK
  <1>4. row' \in [Tasks -> RowState]
    BY DEF RefuseJob, TypeInv, TypeOK, RowState
  <1>5. faults' \in 0..MaxFaults
    BY FaultAssumption DEF RefuseJob, TypeInv, TypeOK
  <1> QED
    BY <1>2, <1>3, <1>4, <1>5 DEF RefuseJob, TypeInv, TypeOK

LEMMA TypeCheckpoint == ASSUME TypeInv, NEW p \in Procs, Checkpoint(p) PROVE TypeInv'
  <1>1. agent[p].calls \in SUBSET Tasks
    BY DEF TypeInv, TypeOK, Agent
  <1>2. agent' \in [Procs -> Agent] /\ HoldsTask'
    BY GotoType DEF Checkpoint, PC
  <1>3. parked' \in SUBSET Tasks
    BY <1>1 DEF Checkpoint
  <1> QED
    BY <1>2, <1>3 DEF Checkpoint, TypeInv, TypeOK

LEMMA TypeFinalize == ASSUME TypeInv, NEW p \in Procs, Finalize(p) PROVE TypeInv'
  BY EndTurnType DEF Finalize, TypeInv, TypeOK

LEMMA TypeTurnRaises == ASSUME TypeInv, NEW p \in Procs, TurnRaises(p) PROVE TypeInv'
  BY EndTurnType DEF TurnRaises, TypeInv, TypeOK

LEMMA TypeFinishJob == ASSUME TypeInv, NEW w \in Workers, FinishJob(w) PROVE TypeInv'
  <1>1. w \in Procs
    BY DEF Procs
  <1>2. agent' \in [Procs -> Agent] /\ HoldsTask'
    BY <1>1, IdlesType DEF FinishJob
  <1>3. queue' \in Seq(Jobs) /\ busy' \in BOOLEAN
    BY ReleaseType DEF FinishJob
  <1> QED
    BY <1>2, <1>3 DEF FinishJob, TypeInv, TypeOK

LEMMA TypeWriteFails == ASSUME TypeInv, NEW w \in Workers, WriteFails(w) PROVE TypeInv'
  <1>1. w \in Procs
    BY DEF Procs
  <1>2. agent' \in [Procs -> Agent] /\ HoldsTask'
    BY <1>1, IdlesType DEF WriteFails
  <1>3. queue' \in Seq(Jobs) /\ busy' \in BOOLEAN
    BY ReleaseType DEF WriteFails
  <1>4. faults' \in 0..MaxFaults
    BY FaultAssumption DEF WriteFails, TypeInv, TypeOK
  <1> QED
    BY <1>2, <1>3, <1>4 DEF WriteFails, TypeInv, TypeOK

LEMMA TypeCrash == ASSUME TypeInv, NEW p \in Procs, Crash(p) PROVE TypeInv'
  <1>1. agent' \in [Procs -> Agent] /\ HoldsTask'
    BY IdlesType DEF Crash
  <1>2. faults' \in 0..MaxFaults
    BY FaultAssumption DEF Crash, TypeInv, TypeOK
  <1>3. lease' \in [Jobs -> Sweepers \cup {None}]
    BY DEF Crash, TypeInv, TypeOK
  <1> QED
    BY <1>1, <1>2, <1>3 DEF Crash, TypeInv, TypeOK

LEMMA TypeList == ASSUME TypeInv, NEW s \in Sweepers, List(s) PROVE TypeInv'
  <1> DEFINE a == [Idle EXCEPT !.pc = "sweep", !.seen = Listed]
  <1>1. Doing \in SUBSET Jobs
    BY HeadTailProperties DEF Doing, TypeInv, TypeOK
  <1>2. s \in Procs /\ Listed \in SUBSET Jobs
    BY <1>1 DEF Listed, Stalled, Procs
  <1>3. a \in Agent /\ a.pc = "sweep"
    BY <1>2 DEF Idle, Agent, PC, Verdict
  <1>4. Become(s, a)
    BY DEF List
  <1> HIDE DEF a
  <1>5. agent' \in [Procs -> Agent] /\ HoldsTask'
    BY <1>2, <1>3, <1>4, BecomeType
  <1> QED
    BY <1>5 DEF List, TypeInv, TypeOK

LEMMA TypeTakeLease ==
    ASSUME TypeInv, NEW s \in Sweepers, NEW j \in Jobs, TakeLease(s, j) PROVE TypeInv'
  <1> DEFINE a == [agent[s] EXCEPT !.pc = "settle", !.hold = j]
  <1>1. s \in Procs /\ agent[s] \in Agent
    BY DEF Procs, TypeInv, TypeOK
  <1>2. a \in Agent /\ a.pc = "settle"
    BY <1>1 DEF Agent, PC
  <1>3. Become(s, a)
    BY DEF TakeLease
  <1> HIDE DEF a
  <1>4. agent' \in [Procs -> Agent] /\ HoldsTask'
    BY <1>1, <1>2, <1>3, BecomeType
  <1> QED
    BY <1>4 DEF TakeLease, TypeInv, TypeOK

LEMMA TypeLeaseTaken ==
    ASSUME TypeInv, NEW s \in Sweepers, NEW j \in Jobs, LeaseTaken(s, j) PROVE TypeInv'
  BY SweepOnType DEF LeaseTaken, TypeInv, TypeOK

\* What a sweep finds of the job it holds decides where it goes on.
LEMMA TypeSettle ==
    ASSUME TypeInv, NEW s \in Sweepers,
           SettleNothing(s) \/ SettleClosed(s) \/ SettleReported(s) \/ SettleUnreported(s)
    PROVE  TypeInv'
  <1>1. s \in Procs /\ agent[s] \in Agent
    BY DEF Procs, TypeInv, TypeOK
  <1>2. CASE SettleNothing(s) \/ SettleUnreported(s)
    <2>1. agent' \in [Procs -> Agent] /\ HoldsTask'
      BY <1>1, <1>2, GotoType DEF SettleNothing, SettleUnreported, PC
    <2> QED
      BY <1>2, <2>1 DEF SettleNothing, SettleUnreported, TypeInv, TypeOK
  <1>3. CASE SettleClosed(s)
    <2> DEFINE v == IF row[agent[s].hold] = "failed" THEN "failed" ELSE "success"
               a == [agent[s] EXCEPT !.pc = "peek", !.verdict = v]
    <2>1. v \in Verdict
      BY DEF Verdict
    <2>2. Become(s, a)
      BY <1>3 DEF SettleClosed
    <2> HIDE DEF v
    <2>3. a \in Agent /\ a.pc = "peek"
      BY <1>1, <2>1 DEF Agent, PC
    <2> HIDE DEF a
    <2>4. agent' \in [Procs -> Agent] /\ HoldsTask'
      BY <1>1, <2>2, <2>3, BecomeType
    <2> QED
      BY <1>3, <2>4 DEF SettleClosed, TypeInv, TypeOK
  <1>4. CASE SettleReported(s)
    <2> DEFINE a == [agent[s] EXCEPT !.pc = "announce", !.fallback = {agent[s].hold}]
    <2>1. agent[s].hold \in Tasks /\ Become(s, a)
      BY <1>4 DEF SettleReported
    <2>2. a \in Agent /\ a.pc = "announce"
      BY <1>1, <2>1 DEF Agent, PC
    <2> HIDE DEF a
    <2>3. agent' \in [Procs -> Agent] /\ HoldsTask'
      BY <1>1, <2>1, <2>2, BecomeType
    <2> QED
      BY <1>4, <2>3 DEF SettleReported, TypeInv, TypeOK
  <1> QED
    BY <1>2, <1>3, <1>4

LEMMA TypeReleaseJob == ASSUME TypeInv, NEW s \in Sweepers, ReleaseJob(s) PROVE TypeInv'
  <1>1. s \in Procs
    BY DEF Procs
  <1>2. agent' \in [Procs -> Agent] /\ HoldsTask'
    BY <1>1, IdlesType, SweepOnType DEF ReleaseJob
  <1>3. queue' \in Seq(Jobs) /\ busy' \in BOOLEAN
    BY ReleaseType DEF ReleaseJob
  <1>4. lease' \in [Jobs -> Sweepers \cup {None}]
    BY DEF ReleaseJob, TypeInv, TypeOK
  <1> QED
    BY <1>2, <1>3, <1>4 DEF ReleaseJob, TypeInv, TypeOK

LEMMA TypeAnswer == ASSUME TypeInv, NEW p \in Procs, Answer(p) PROVE TypeInv'
  BY TypeFailTask, TypeAnnounce, TypeNothingParked, TypeWaitForSiblings, TypeGather,
     TypeMarkResuming, TypeCloseRow, TypeCreateRow, TypeDeferJob, TypeRefuseJob,
     TypeCheckpoint, TypeFinalize, TypeCompletionTurnRaises, TypeTurnRaises
  DEF Answer

LEMMA TypeNext == TypeInv /\ [Next]_vars => TypeInv'
  <1> SUFFICES ASSUME TypeInv, [Next]_vars PROVE TypeInv'
    OBVIOUS
  <1>1. ASSUME NEW c \in Turns, Send(c) PROVE TypeInv'
    BY <1>1, TypeSend
  <1>2. ASSUME NEW w \in Workers, Work(w) \/ WriteFails(w) PROVE TypeInv'
    <2>1. w \in Procs
      BY DEF Procs
    <2> QED
      BY <1>2, <2>1, TypeTake, TypeStartBody, TypeBodyReturns, TypeAnswer, TypeFinishJob,
         TypeWriteFails DEF Work
  <1>3. ASSUME NEW s \in Sweepers, Sweep(s) PROVE TypeInv'
    <2>1. s \in Procs
      BY DEF Procs
    <2> QED
      BY <1>3, <2>1, TypeList, TypeTakeLease, TypeLeaseTaken, TypeSettle, TypeAnswer,
         TypeReleaseJob DEF Sweep
  <1>4. ASSUME NEW p \in Procs, Crash(p) PROVE TypeInv'
    BY <1>4, TypeCrash
  <1>5. CASE UNCHANGED vars
    BY <1>5 DEF vars, TypeInv, TypeOK, HoldsTask
  <1> QED
    BY <1>1, <1>2, <1>3, <1>4, <1>5 DEF Next

\* Every reachable state is well typed: rows keep to the schema's statuses, the
\* queue to the jobs of the thread, and no body is given a job with no task.
THEOREM TypeCorrect == Spec => []TypeOK
  <1>1. TypeInv => TypeOK
    BY DEF TypeInv
  <1> QED
    BY <1>1, TypeInit, TypeNext, PTL DEF Spec

-----------------------------------------------------------------------------
(* The thread lock                                                          *)
(*                                                                         *)
(* A job enters the queue once, so a job a sweep once saw stalled is either *)
(* still the one in status doing, with no worker on it, or gone for good.   *)
(* That is what a sweep working from an old list relies on.                 *)

\* A job no one queued yet.
Fresh(j) == j \in unsent \cup unused \/ \E p \in Procs : agent[p].making = j

QueuedOnce ==
    /\ \A i, k \in DOMAIN queue : queue[i] = queue[k] => i = k
    /\ busy => queue # <<>>
    /\ \A j \in Jobs : InQueue(j) => ~Fresh(j)

MadeOnce ==
    \A p \in Procs : agent[p].making # None =>
        /\ agent[p].making \notin unused
        /\ \A q \in Procs : agent[q].making = agent[p].making => q = p

WorkerHolds ==
    /\ \A w \in Workers : agent[w].hold # None => agent[w].hold \in Doing
    /\ \A v, w \in Workers : agent[v].hold # None /\ agent[w].hold # None => v = w

Lists(s, j) == j \in agent[s].seen \/ j = agent[s].hold

SweepLists ==
    \A s \in Sweepers, j \in Jobs : Lists(s, j) =>
        /\ ~Fresh(j)
        /\ InQueue(j) => j \in Doing /\ \A w \in Workers : agent[w].hold # j

LeaseHeld ==
    \A s \in Sweepers : agent[s].hold # None => lease[agent[s].hold] = s

Resting(p) == agent[p].pc \in {"idle", "sweep"}

HasJob == \A p \in Procs : ~Resting(p) => agent[p].hold # None

LockInv == QueuedOnce /\ MadeOnce /\ WorkerHolds /\ SweepLists /\ LeaseHeld /\ HasJob

LEMMA DoingQueued ==
    ASSUME TypeInv
    PROVE  /\ \A j \in Doing : j \in Jobs /\ InQueue(j)
           /\ \A i, j \in Doing : i = j
  <1>1. CASE queue = <<>>
    BY <1>1 DEF Doing
  <1>2. CASE queue # <<>>
    <2>1. Head(queue) \in Jobs /\ Head(queue) = queue[1] /\ 1 \in DOMAIN queue
      BY <1>2, HeadTailProperties, LenProperties, EmptySeq DEF TypeInv, TypeOK
    <2> QED
      BY <2>1 DEF Doing, InQueue
  <1> QED
    BY <1>1, <1>2

LEMMA QueueAppends ==
    ASSUME TypeInv, QueuedOnce, NEW j \in Jobs, ~InQueue(j),
           queue' = Append(queue, j), busy' = busy
    PROVE  /\ \A x : InQueue(x)' <=> InQueue(x) \/ x = j
           /\ Doing' = Doing
           /\ \A i, k \in DOMAIN queue' : queue'[i] = queue'[k] => i = k
           /\ busy' => queue' # <<>>
  <1>1. /\ Len(queue) \in Nat /\ DOMAIN queue = 1..Len(queue)
        /\ DOMAIN queue' = 1..(Len(queue) + 1)
        /\ \A i \in DOMAIN queue : queue'[i] = queue[i]
        /\ queue'[Len(queue) + 1] = j
        /\ queue' \in Seq(Jobs) /\ Len(queue') = Len(queue) + 1
    BY AppendProperties, LenProperties DEF TypeInv, TypeOK
  <1>2. \A x : InQueue(x)' <=> InQueue(x) \/ x = j
    BY <1>1 DEF InQueue
  <1>3. queue' # <<>>
    BY <1>1, EmptySeq
  <1>4. Doing' = Doing
    <2>1. CASE queue = <<>>
      BY <2>1 DEF QueuedOnce, Doing
    <2>2. CASE queue # <<>>
      <3>1. Head(queue') = Head(queue)
        BY <2>2, <1>1, HeadTailProperties, EmptySeq DEF TypeInv, TypeOK
      <3> QED
        BY <2>2, <3>1, <1>3 DEF Doing
    <2> QED
      BY <2>1, <2>2
  <1>5. \A i, k \in DOMAIN queue' : queue'[i] = queue'[k] => i = k
    BY <1>1 DEF QueuedOnce, InQueue
  <1> QED
    BY <1>2, <1>3, <1>4, <1>5

LEMMA QueueReleases ==
    ASSUME TypeInv, QueuedOnce, NEW j \in Doing, Release(j)
    PROVE  /\ \A x : InQueue(x)' <=> InQueue(x) /\ x # j
           /\ Doing' = {} /\ ~busy'
           /\ \A i, k \in DOMAIN queue' : queue'[i] = queue'[k] => i = k
  <1>1. queue \in Seq(Jobs) /\ queue # <<>> /\ j = Head(queue) /\ queue' = Tail(queue) /\ ~busy'
    BY DEF TypeInv, TypeOK, Release, Doing
  <1>2. /\ Len(queue) \in Nat \ {0} /\ DOMAIN queue = 1..Len(queue)
        /\ DOMAIN queue' = 1..(Len(queue) - 1)
        /\ \A i \in DOMAIN queue' : queue'[i] = queue[i + 1]
        /\ j = queue[1]
    BY <1>1, HeadTailProperties, LenProperties, EmptySeq
  <1>3. \A i \in DOMAIN queue : i # 1 => i - 1 \in DOMAIN queue' /\ queue'[i - 1] = queue[i]
    BY <1>2
  <1>4. ASSUME NEW x PROVE InQueue(x)' <=> InQueue(x) /\ x # j
    <2>1. ASSUME InQueue(x)' PROVE InQueue(x) /\ x # j
      BY <2>1, <1>2 DEF InQueue, QueuedOnce
    <2>2. ASSUME InQueue(x), x # j PROVE InQueue(x)'
      BY <2>2, <1>2, <1>3 DEF InQueue
    <2> QED
      BY <2>1, <2>2
  <1>5. \A i, k \in DOMAIN queue' : queue'[i] = queue'[k] => i = k
    BY <1>2 DEF QueuedOnce
  <1> QED
    BY <1>1, <1>4, <1>5 DEF Doing

\* A step inside a job: the queue, the leases and the ids stand, and every
\* process keeps its job and its list.
Keeps ==
    /\ UNCHANGED <<queue, busy, lease, unsent, unused>>
    /\ \A q \in Procs : /\ agent'[q].hold = agent[q].hold
                        /\ agent'[q].seen = agent[q].seen
                        /\ agent'[q].making \in {agent[q].making, None}
                        /\ Resting(q) => Resting(q)'

LEMMA LockKeeps == ASSUME TypeInv, LockInv, Keeps PROVE LockInv'
  <1>1. /\ \A j : InQueue(j)' <=> InQueue(j)
        /\ Doing' = Doing
    BY DEF Keeps, InQueue, Doing
  <1>2. \A j \in Jobs : Fresh(j)' => Fresh(j)
    BY Identities DEF Keeps, Fresh, Jobs
  <1>3. QueuedOnce'
    BY <1>1, <1>2 DEF Keeps, LockInv, QueuedOnce
  <1>4. MadeOnce'
    BY DEF Keeps, LockInv, MadeOnce
  <1>5. WorkerHolds'
    BY <1>1 DEF Keeps, LockInv, WorkerHolds, Procs
  <1>6. SweepLists'
    BY <1>1, <1>2 DEF Keeps, LockInv, SweepLists, Lists, Procs
  <1>7. LeaseHeld' /\ HasJob'
    BY DEF Keeps, LockInv, LeaseHeld, HasJob, Procs
  <1> QED
    BY <1>3, <1>4, <1>5, <1>6, <1>7 DEF LockInv

LEMMA BecomeKeeps ==
    ASSUME TypeInv, NEW p \in Procs, NEW a \in Agent, Become(p, a),
           a.hold = agent[p].hold, a.seen = agent[p].seen,
           a.making \in {agent[p].making, None}, ~Resting(p),
           UNCHANGED <<queue, busy, lease, unsent, unused>>
    PROVE  Keeps
  BY DEF TypeInv, TypeOK, Become, Keeps, Resting

LEMMA GotoKeeps ==
    ASSUME TypeInv, NEW p \in Procs, NEW s \in PC, Goto(p, s), ~Resting(p),
           UNCHANGED <<queue, busy, lease, unsent, unused>>
    PROVE  Keeps
  <1> DEFINE a == [agent[p] EXCEPT !.pc = s]
  <1>1. agent[p] \in Agent
    BY DEF TypeInv, TypeOK
  <1>2. a \in Agent /\ a.hold = agent[p].hold /\ a.seen = agent[p].seen
        /\ a.making = agent[p].making
    BY <1>1 DEF Agent
  <1>3. Become(p, a)
    BY DEF Goto
  <1> HIDE DEF a
  <1> QED
    BY <1>2, <1>3, BecomeKeeps

\* Closing rows ends the running turn, and with it the call it was making.
LEMMA CloseRowsAgent ==
    ASSUME TypeInv, NEW p \in Procs, NEW rows \in SUBSET Tasks, NEW failed \in BOOLEAN,
           CloseRows(p, rows, failed)
    PROVE  \E a \in Agent : /\ Become(p, a) /\ a.making = None
                            /\ a.hold = agent[p].hold /\ a.seen = agent[p].seen
  <1> DEFINE s == IF rows = {} THEN "finish" ELSE "close"
             a == [agent[p] EXCEPT !.pc = s, !.closing = rows, !.marks = {}, !.fallback = {},
                                   !.erred = failed, !.calls = {}, !.making = None]
  <1>1. agent[p] \in Agent /\ s \in PC
    BY DEF TypeInv, TypeOK, PC
  <1> HIDE DEF s
  <1>2. a \in Agent /\ a.hold = agent[p].hold /\ a.seen = agent[p].seen /\ a.making = None
    BY <1>1 DEF Agent
  <1>3. Become(p, a)
    BY DEF CloseRows, s
  <1> HIDE DEF a
  <1> QED
    BY <1>2, <1>3

LEMMA EndTurnAgent ==
    ASSUME TypeInv, NEW p \in Procs, NEW failed \in BOOLEAN, EndTurn(p, failed)
    PROVE  \E a \in Agent : /\ Become(p, a) /\ a.making = None
                            /\ a.hold = agent[p].hold /\ a.seen = agent[p].seen
  <1>1. agent[p].closing \in SUBSET Tasks /\ agent[p].fallback \in SUBSET Tasks
    BY DEF TypeInv, TypeOK, Agent
  <1> QED
    BY <1>1, CloseRowsAgent DEF EndTurn

\* Every step of an answer but the ones that create, queue and refuse a task
\* is inside a job.
LEMMA AnswerKeeps ==
    ASSUME TypeInv, NEW p \in Procs,
           \/ FailTask(p) \/ Announce(p) \/ NothingParked(p) \/ WaitForSiblings(p)
           \/ Gather(p) \/ (\E t \in Tasks : MarkResuming(p, t) \/ CloseRow(p, t))
           \/ Checkpoint(p) \/ Finalize(p) \/ CompletionTurnRaises(p) \/ TurnRaises(p)
    PROVE  Keeps
  <1>1. agent[p] \in Agent /\ agent[p].fallback \in SUBSET Tasks
    BY DEF TypeInv, TypeOK, Agent
  <1>0. ~Resting(p)
    BY DEF Resting, At, FailTask, Announce, NothingParked, WaitForSiblings, Gather,
           MarkResuming, CloseRow, Checkpoint, Finalize, CompletionTurnRaises, TurnRaises
  <1>2. CASE FailTask(p)
    <2> DEFINE a == [agent[p] EXCEPT !.pc = "announce", !.verdict = "failed"]
    <2>1. a \in Agent /\ a.hold = agent[p].hold /\ a.seen = agent[p].seen
          /\ a.making = agent[p].making
      BY <1>1 DEF Agent, PC, Verdict
    <2>2. Become(p, a) /\ UNCHANGED <<queue, busy, lease, unsent, unused>>
      BY <1>2 DEF FailTask
    <2> HIDE DEF a
    <2> QED
      BY <2>1, <2>2, <1>0, BecomeKeeps
  <1>3. CASE Announce(p) \/ Checkpoint(p)
    BY <1>3, <1>0, GotoKeeps DEF Announce, Checkpoint, PC
  <1>4. CASE NothingParked(p) \/ WaitForSiblings(p) \/ CompletionTurnRaises(p)
    <2>1. /\ \E rows \in SUBSET Tasks, failed \in BOOLEAN : CloseRows(p, rows, failed)
          /\ UNCHANGED <<queue, busy, lease, unsent, unused>>
      BY <1>1, <1>4 DEF NothingParked, WaitForSiblings, CompletionTurnRaises
    <2> QED
      BY <2>1, CloseRowsAgent, <1>0, BecomeKeeps
  <1>5. CASE Finalize(p) \/ TurnRaises(p)
    <2>1. /\ \E failed \in BOOLEAN : EndTurn(p, failed)
          /\ UNCHANGED <<queue, busy, lease, unsent, unused>>
      BY <1>5 DEF Finalize, TurnRaises
    <2> QED
      BY <2>1, EndTurnAgent, <1>0, BecomeKeeps
  <1>6. CASE Gather(p)
    <2> DEFINE delivered == {t \in parked : AnswerOf(p, t) = "success"}
               s == IF delivered = {} THEN "turn" ELSE "marking"
               a == [agent[p] EXCEPT !.pc = s, !.marks = delivered, !.closing = delivered]
    <2>1. Become(p, a) /\ UNCHANGED <<queue, busy, lease, unsent, unused>>
      BY <1>6 DEF Gather
    <2>2. delivered \in SUBSET Tasks /\ s \in PC
      BY DEF TypeInv, TypeOK, PC
    <2> HIDE DEF delivered, s
    <2>3. a \in Agent /\ a.hold = agent[p].hold /\ a.seen = agent[p].seen
          /\ a.making = agent[p].making
      BY <1>1, <2>2 DEF Agent
    <2> HIDE DEF a
    <2> QED
      BY <2>1, <2>3, <1>0, BecomeKeeps
  <1>7. ASSUME NEW t \in Tasks, MarkResuming(p, t) PROVE Keeps
    <2> DEFINE a == [agent[p] EXCEPT !.marks = @ \ {t},
                                     !.pc = IF agent[p].marks = {t} THEN "turn" ELSE @]
    <2>1. Become(p, a) /\ UNCHANGED <<queue, busy, lease, unsent, unused>>
      BY <1>7 DEF MarkResuming
    <2>2. a \in Agent /\ a.hold = agent[p].hold /\ a.seen = agent[p].seen
          /\ a.making = agent[p].making
      BY <1>1 DEF Agent, PC
    <2> HIDE DEF a
    <2> QED
      BY <2>1, <2>2, <1>0, BecomeKeeps
  <1>8. ASSUME NEW t \in Tasks, CloseRow(p, t) PROVE Keeps
    <2> DEFINE a == [agent[p] EXCEPT !.closing = @ \ {t},
                                     !.pc = IF agent[p].closing = {t} THEN "finish" ELSE @]
    <2>1. Become(p, a) /\ UNCHANGED <<queue, busy, lease, unsent, unused>>
      BY <1>8 DEF CloseRow
    <2>2. a \in Agent /\ a.hold = agent[p].hold /\ a.seen = agent[p].seen
          /\ a.making = agent[p].making
      BY <1>1 DEF Agent, PC
    <2> HIDE DEF a
    <2> QED
      BY <2>1, <2>2, <1>0, BecomeKeeps
  <1> QED
    BY <1>2, <1>3, <1>4, <1>5, <1>6, <1>7, <1>8

LEMMA WorkKeeps ==
    ASSUME TypeInv, NEW w \in Workers, StartBody(w) \/ BodyReturns(w) PROVE Keeps
  <1>0. ~Resting(w)
    BY DEF Resting, At, StartBody, BodyReturns
  <1>1. w \in Procs /\ agent[w] \in Agent
    BY DEF TypeInv, TypeOK, Procs
  <1>2. CASE StartBody(w)
    BY <1>1, <1>2, <1>0, GotoKeeps DEF StartBody, PC
  <1>3. CASE BodyReturns(w)
    <2> DEFINE a == [agent[w] EXCEPT !.pc = "announce", !.fallback = {agent[w].hold}]
    <2>1. Become(w, a) /\ UNCHANGED <<queue, busy, lease, unsent, unused>>
      BY <1>3 DEF BodyReturns
    <2>2. agent[w].hold \in Tasks
      BY <1>1, <1>3 DEF BodyReturns, At, TypeInv, HoldsTask
    <2>3. a \in Agent /\ a.hold = agent[w].hold /\ a.seen = agent[w].seen
          /\ a.making = agent[w].making
      BY <1>1, <2>2 DEF Agent, PC
    <2> HIDE DEF a
    <2> QED
      BY <1>1, <2>1, <2>3, <1>0, BecomeKeeps
  <1> QED
    BY <1>2, <1>3

LEMMA SettleKeeps ==
    ASSUME TypeInv, NEW s \in Sweepers,
           SettleNothing(s) \/ SettleClosed(s) \/ SettleReported(s) \/ SettleUnreported(s)
    PROVE  Keeps
  <1>0. ~Resting(s)
    BY DEF Resting, At, SettleNothing, SettleClosed, SettleReported, SettleUnreported
  <1>1. s \in Procs /\ agent[s] \in Agent
    BY DEF TypeInv, TypeOK, Procs
  <1>2. CASE SettleNothing(s) \/ SettleUnreported(s)
    BY <1>1, <1>2, <1>0, GotoKeeps DEF SettleNothing, SettleUnreported, PC
  <1>3. CASE SettleClosed(s)
    <2> DEFINE v == IF row[agent[s].hold] = "failed" THEN "failed" ELSE "success"
               a == [agent[s] EXCEPT !.pc = "peek", !.verdict = v]
    <2>1. v \in Verdict
      BY DEF Verdict
    <2>2. Become(s, a) /\ UNCHANGED <<queue, busy, lease, unsent, unused>>
      BY <1>3 DEF SettleClosed
    <2> HIDE DEF v
    <2>3. a \in Agent /\ a.hold = agent[s].hold /\ a.seen = agent[s].seen
          /\ a.making = agent[s].making
      BY <1>1, <2>1 DEF Agent, PC
    <2> HIDE DEF a
    <2> QED
      BY <1>1, <2>2, <2>3, <1>0, BecomeKeeps
  <1>4. CASE SettleReported(s)
    <2> DEFINE a == [agent[s] EXCEPT !.pc = "announce", !.fallback = {agent[s].hold}]
    <2>1. Become(s, a) /\ agent[s].hold \in Tasks
          /\ UNCHANGED <<queue, busy, lease, unsent, unused>>
      BY <1>4 DEF SettleReported
    <2>2. a \in Agent /\ a.hold = agent[s].hold /\ a.seen = agent[s].seen
          /\ a.making = agent[s].making
      BY <1>1, <2>1 DEF Agent, PC
    <2> HIDE DEF a
    <2> QED
      BY <1>1, <2>1, <2>2, <1>0, BecomeKeeps
  <1> QED
    BY <1>2, <1>3, <1>4

\* A fresh job joins the queue and stops being fresh; no process takes or
\* drops a job.
LEMMA LockEnqueues ==
    ASSUME TypeInv, LockInv, NEW j \in Jobs, Fresh(j), ~Fresh(j)',
           queue' = Append(queue, j), busy' = busy, lease' = lease,
           unsent' \subseteq unsent, unused' = unused,
           \A q \in Procs : /\ agent'[q].hold = agent[q].hold
                            /\ agent'[q].seen = agent[q].seen
                            /\ agent'[q].making \in {agent[q].making, None}
                            /\ Resting(q) => Resting(q)'
    PROVE  LockInv'
  <1>1. ~InQueue(j)
    BY DEF LockInv, QueuedOnce
  <1>2. /\ \A x : InQueue(x)' <=> InQueue(x) \/ x = j
        /\ Doing' = Doing
        /\ \A i, k \in DOMAIN queue' : queue'[i] = queue'[k] => i = k
        /\ busy' => queue' # <<>>
    BY <1>1, QueueAppends DEF LockInv
  <1>3. \A x \in Jobs : Fresh(x)' => Fresh(x)
    BY Identities DEF Fresh, Jobs
  <1>4. QueuedOnce'
    BY <1>2, <1>3 DEF LockInv, QueuedOnce
  <1>5. MadeOnce'
    BY DEF LockInv, MadeOnce
  <1>6. WorkerHolds'
    BY <1>2 DEF LockInv, WorkerHolds, Procs
  <1>7. SweepLists'
    <2> SUFFICES ASSUME NEW s \in Sweepers, NEW x \in Jobs, Lists(s, x)'
                 PROVE  /\ ~Fresh(x)'
                        /\ InQueue(x)' => /\ x \in Doing'
                                          /\ \A w \in Workers : agent'[w].hold # x
      BY DEF SweepLists
    <2>1. Lists(s, x)
      BY DEF Lists, Procs
    <2>2. ~Fresh(x) /\ (InQueue(x) => x \in Doing /\ \A w \in Workers : agent[w].hold # x)
      BY <2>1 DEF LockInv, SweepLists
    <2>3. \A w \in Workers : agent'[w].hold = agent[w].hold
      BY DEF Procs
    <2> QED
      BY <1>2, <1>3, <2>2, <2>3
  <1>8. LeaseHeld' /\ HasJob'
    BY DEF LockInv, LeaseHeld, HasJob, Procs
  <1> QED
    BY <1>4, <1>5, <1>6, <1>7, <1>8 DEF LockInv

LEMMA LockSend == ASSUME TypeInv, LockInv, NEW c \in Turns, Send(c) PROVE LockInv'
  <1>1. c \in Jobs /\ Fresh(c) /\ unsent' \subseteq unsent
    BY DEF Send, Fresh, Jobs
  <1>2. ~Fresh(c)'
    BY Identities DEF Send, Fresh, TypeInv, TypeOK, Agent
  <1> QED
    BY <1>1, <1>2, LockEnqueues DEF Send, Resting

LEMMA LockDeferJob == ASSUME TypeInv, LockInv, NEW p \in Procs, DeferJob(p) PROVE LockInv'
  <1> DEFINE a == [agent[p] EXCEPT !.making = None, !.calls = @ \cup {agent[p].making}]
  <1>0. PICK t \in Tasks : t = agent[p].making
    BY DEF DeferJob, TypeInv, TypeOK, Agent
  <1>1. agent[p] \in Agent /\ t # None
    BY <1>0 DEF DeferJob, TypeInv, TypeOK
  <1>2. Become(p, a) /\ queue' = Append(queue, t)
        /\ UNCHANGED <<busy, lease, unsent, unused>>
    BY <1>0 DEF DeferJob
  <1>3. a.hold = agent[p].hold /\ a.seen = agent[p].seen /\ a.making = None
        /\ a.pc = agent[p].pc
    BY <1>1 DEF Agent
  <1> HIDE DEF a
  <1>4. \A q \in Procs : agent'[q] = IF q = p THEN a ELSE agent[q]
    BY <1>2 DEF Become, TypeInv, TypeOK
  <1>5. Fresh(t) /\ ~Fresh(t)'
    <2>1. t \notin unsent /\ t \notin unused /\ \A q \in Procs : agent[q].making = t => q = p
      BY <1>0, <1>1, Identities DEF LockInv, MadeOnce, TypeInv, TypeOK
    <2> QED
      BY <1>0, <1>1, <1>2, <1>3, <1>4, <2>1 DEF Fresh
  <1>6. \A q \in Procs : /\ agent'[q].hold = agent[q].hold
                         /\ agent'[q].seen = agent[q].seen
                         /\ agent'[q].making \in {agent[q].making, None}
                         /\ Resting(q) => Resting(q)'
    BY <1>3, <1>4 DEF Resting
  <1>7. t \in Jobs
    BY DEF Jobs
  <1> QED
    BY <1>2, <1>5, <1>6, <1>7, LockEnqueues

LEMMA LockRefuseJob == ASSUME TypeInv, LockInv, NEW p \in Procs, RefuseJob(p) PROVE LockInv'
  <1>0. PICK t \in Tasks : t = agent[p].making
    BY DEF RefuseJob, TypeInv, TypeOK, Agent
  <1>1. t # None
    BY <1>0 DEF RefuseJob
  <1>2. PICK a \in Agent : /\ Become(p, a) /\ a.making = None
                           /\ a.hold = agent[p].hold /\ a.seen = agent[p].seen
    BY EndTurnAgent DEF RefuseJob
  <1>3. \A q \in Procs : agent'[q] = IF q = p THEN a ELSE agent[q]
    BY <1>2 DEF Become, TypeInv, TypeOK
  <1>4. CASE queue' = queue
    <2>1. ~Resting(p) /\ UNCHANGED <<queue, busy, lease, unsent, unused>>
      BY <1>4 DEF RefuseJob, At, Resting
    <2> QED
      BY <1>2, <2>1, BecomeKeeps, LockKeeps
  <1>5. CASE queue' = Append(queue, t)
    <2>1. t \notin unsent /\ t \notin unused /\ \A q \in Procs : agent[q].making = t => q = p
      BY <1>0, <1>1, Identities DEF LockInv, MadeOnce, TypeInv, TypeOK
    <2>2. UNCHANGED <<busy, lease, unsent, unused>>
      BY DEF RefuseJob
    <2>3. Fresh(t) /\ ~Fresh(t)'
      BY <1>0, <1>1, <1>2, <1>3, <2>1, <2>2 DEF Fresh
    <2>4. \A q \in Procs : /\ agent'[q].hold = agent[q].hold
                           /\ agent'[q].seen = agent[q].seen
                           /\ agent'[q].making \in {agent[q].making, None}
                           /\ Resting(q) => Resting(q)'
      BY <1>2, <1>3 DEF Resting, RefuseJob, At
    <2>5. t \in Jobs
      BY DEF Jobs
    <2> QED
      BY <1>5, <2>2, <2>3, <2>4, <2>5, LockEnqueues
  <1> QED
    BY <1>0, <1>4, <1>5 DEF RefuseJob

LEMMA LockCreateRow ==
    ASSUME TypeInv, LockInv, NEW p \in Procs, NEW t \in Tasks, CreateRow(p, t) PROVE LockInv'
  <1> DEFINE a == [agent[p] EXCEPT !.making = t]
  <1>1. agent[p] \in Agent /\ agent[p].making = None /\ t \in unused /\ unused' = unused \ {t}
        /\ Become(p, a) /\ UNCHANGED <<queue, busy, lease, unsent>> /\ t # None
    BY Identities DEF CreateRow, TypeInv, TypeOK
  <1>2. a.hold = agent[p].hold /\ a.seen = agent[p].seen /\ a.making = t
        /\ a.pc = agent[p].pc
    BY <1>1 DEF Agent
  <1> HIDE DEF a
  <1>3. \A q \in Procs : agent'[q] = IF q = p THEN a ELSE agent[q]
    BY <1>1 DEF Become, TypeInv, TypeOK
  <1>4. /\ \A j : InQueue(j)' <=> InQueue(j)
        /\ Doing' = Doing
    BY <1>1 DEF InQueue, Doing
  <1>5. \A j : Fresh(j)' => Fresh(j)
    BY <1>1, <1>2, <1>3 DEF Fresh
  <1>6. QueuedOnce'
    BY <1>1, <1>4, <1>5 DEF LockInv, QueuedOnce
  <1>7. MadeOnce'
    BY <1>1, <1>2, <1>3 DEF LockInv, MadeOnce
  <1>8. WorkerHolds'
    BY <1>2, <1>3, <1>4 DEF LockInv, WorkerHolds, Procs
  <1>9. SweepLists'
    BY <1>2, <1>3, <1>4, <1>5 DEF LockInv, SweepLists, Lists, Procs
  <1>10. LeaseHeld' /\ HasJob'
    BY <1>1, <1>2, <1>3 DEF LockInv, LeaseHeld, HasJob, Resting, Procs
  <1> QED
    BY <1>6, <1>7, <1>8, <1>9, <1>10 DEF LockInv

LEMMA LockTake == ASSUME TypeInv, LockInv, NEW w \in Workers, Take(w) PROVE LockInv'
  <1> DEFINE a == [Idle EXCEPT !.hold = Head(queue),
                               !.pc = IF Head(queue) \in Turns THEN "turn" ELSE "picked"]
  <1>1. /\ ~busy /\ busy' /\ queue # <<>> /\ Become(w, a)
        /\ UNCHANGED <<queue, lease, unsent, unused>>
    BY DEF Take
  <1>2. a.hold = Head(queue) /\ a.seen = {} /\ a.making = None
    BY DEF Idle
  <1> HIDE DEF a
  <1>3. \A q \in Procs : agent'[q] = IF q = w THEN a ELSE agent[q]
    BY <1>1 DEF Become, TypeInv, TypeOK
  <1>4. Doing = {} /\ Doing' = {Head(queue)} /\ \A j : InQueue(j)' <=> InQueue(j)
    BY <1>1 DEF Doing, InQueue
  <1>5. Head(queue) \in Jobs /\ InQueue(Head(queue))
    BY <1>1, HeadTailProperties, LenProperties, EmptySeq DEF TypeInv, TypeOK, InQueue
  <1>6. \A j \in Jobs : Fresh(j)' => Fresh(j)
    BY <1>1, <1>2, <1>3, Identities DEF Fresh, Jobs
  <1>7. \A v \in Workers : agent[v].hold = None
    BY <1>4 DEF LockInv, WorkerHolds
  <1>8. QueuedOnce'
    BY <1>1, <1>4, <1>6 DEF LockInv, QueuedOnce
  <1>9. MadeOnce'
    BY <1>1, <1>2, <1>3 DEF LockInv, MadeOnce
  <1>10. WorkerHolds'
    BY <1>2, <1>3, <1>4, <1>7 DEF WorkerHolds, Procs
  <1>11. SweepLists'
    <2> SUFFICES ASSUME NEW s \in Sweepers, NEW x \in Jobs, Lists(s, x)'
                 PROVE  ~Fresh(x)' /\ ~InQueue(x)'
      BY DEF SweepLists
    <2>1. Lists(s, x)
      BY <1>3, Identities DEF Lists, Procs
    <2> QED
      BY <2>1, <1>4, <1>6 DEF LockInv, SweepLists
  <1>12. LeaseHeld'
    BY <1>1, <1>3, Identities DEF LockInv, LeaseHeld, Procs
  <1>13. HasJob'
    BY <1>2, <1>3, <1>5, Identities DEF LockInv, HasJob, Resting, Jobs
  <1> QED
    BY <1>8, <1>9, <1>10, <1>11, <1>12, <1>13 DEF LockInv

\* A worker lets its job go.
LEMMA LockLetsGo ==
    ASSUME TypeInv, LockInv, NEW w \in Workers, agent[w].hold # None,
           Release(agent[w].hold), Become(w, Idle), UNCHANGED <<lease, unsent, unused>>
    PROVE  LockInv'
  <1>1. agent[w].hold \in Doing /\ \A v \in Workers : agent[v].hold # None => v = w
    BY DEF LockInv, WorkerHolds
  <1>2. \A q \in Procs : agent'[q] = IF q = w THEN Idle ELSE agent[q]
    BY DEF Become, TypeInv, TypeOK
  <1>3. Idle.hold = None /\ Idle.seen = {} /\ Idle.making = None /\ Idle.pc = "idle"
    BY DEF Idle
  <1>4. /\ \A x : InQueue(x)' <=> InQueue(x) /\ x # agent[w].hold
        /\ Doing' = {} /\ ~busy'
        /\ \A i, k \in DOMAIN queue' : queue'[i] = queue'[k] => i = k
    BY <1>1, QueueReleases DEF LockInv
  <1>5. \A j \in Jobs : Fresh(j)' => Fresh(j)
    BY <1>2, <1>3, Identities DEF Fresh, Jobs
  <1>6. QueuedOnce'
    BY <1>4, <1>5 DEF LockInv, QueuedOnce
  <1>7. MadeOnce'
    BY <1>2, <1>3 DEF LockInv, MadeOnce
  <1>8. WorkerHolds'
    BY <1>1, <1>2, <1>3 DEF WorkerHolds, Procs
  <1>9. SweepLists'
    <2> SUFFICES ASSUME NEW s \in Sweepers, NEW x \in Jobs, Lists(s, x)'
                 PROVE  ~Fresh(x)' /\ ~InQueue(x)'
      BY DEF SweepLists
    <2>1. Lists(s, x)
      BY <1>2, Identities DEF Lists, Procs
    <2>2. ~Fresh(x) /\ (InQueue(x) => x \in Doing /\ agent[w].hold # x)
      BY <2>1 DEF LockInv, SweepLists
    <2> QED
      BY <1>1, <1>4, <1>5, <2>2, DoingQueued
  <1>10. LeaseHeld' /\ HasJob'
    BY <1>2, <1>3, Identities DEF LockInv, LeaseHeld, HasJob, Resting, Procs
  <1> QED
    BY <1>6, <1>7, <1>8, <1>9, <1>10 DEF LockInv

LEMMA LockCrash == ASSUME TypeInv, LockInv, NEW p \in Procs, Crash(p) PROVE LockInv'
  <1>1. /\ Become(p, Idle) /\ UNCHANGED <<queue, busy, unsent, unused>>
        /\ lease' = [j \in Jobs |-> IF lease[j] = p THEN None ELSE lease[j]]
    BY DEF Crash
  <1>2. \A q \in Procs : agent'[q] = IF q = p THEN Idle ELSE agent[q]
    BY <1>1 DEF Become, TypeInv, TypeOK
  <1>3. Idle.hold = None /\ Idle.seen = {} /\ Idle.making = None /\ Idle.pc = "idle"
    BY DEF Idle
  <1>4. /\ \A j : InQueue(j)' <=> InQueue(j)
        /\ Doing' = Doing
    BY <1>1 DEF InQueue, Doing
  <1>5. \A j \in Jobs : Fresh(j)' => Fresh(j)
    BY <1>1, <1>2, <1>3, Identities DEF Fresh, Jobs
  <1>6. QueuedOnce'
    BY <1>1, <1>4, <1>5 DEF LockInv, QueuedOnce
  <1>7. MadeOnce'
    BY <1>1, <1>2, <1>3 DEF LockInv, MadeOnce
  <1>8. WorkerHolds'
    BY <1>2, <1>3, <1>4 DEF LockInv, WorkerHolds, Procs
  <1>9. SweepLists'
    <2> SUFFICES ASSUME NEW s \in Sweepers, NEW x \in Jobs, Lists(s, x)'
                 PROVE  /\ ~Fresh(x)'
                        /\ InQueue(x)' => /\ x \in Doing'
                                          /\ \A w \in Workers : agent'[w].hold # x
      BY DEF SweepLists
    <2>1. Lists(s, x) /\ x # None
      BY <1>2, <1>3, Identities DEF Lists, Procs, Jobs
    <2>2. ~Fresh(x) /\ (InQueue(x) => x \in Doing /\ \A w \in Workers : agent[w].hold # x)
      BY <2>1 DEF LockInv, SweepLists
    <2>3. \A w \in Workers : agent'[w].hold \in {agent[w].hold, None}
      BY <1>2, <1>3 DEF Procs
    <2> QED
      BY <1>4, <1>5, <2>1, <2>2, <2>3
  <1>10. LeaseHeld'
    <2> SUFFICES ASSUME NEW s \in Sweepers, agent'[s].hold # None
                 PROVE  lease'[agent'[s].hold] = s
      BY DEF LeaseHeld
    <2>1. s # p /\ agent'[s] = agent[s] /\ agent[s].hold \in Jobs
      BY <1>2, <1>3 DEF Procs, TypeInv, TypeOK, Agent
    <2> QED
      BY <1>1, <2>1 DEF LockInv, LeaseHeld
  <1>11. HasJob'
    BY <1>2, <1>3 DEF LockInv, HasJob, Resting
  <1> QED
    BY <1>6, <1>7, <1>8, <1>9, <1>10, <1>11 DEF LockInv

\* A sweep lists what is stalled now.
LEMMA LockList ==
    ASSUME TypeInv, LockInv, "age" \notin Faults, NEW s \in Sweepers, List(s) PROVE LockInv'
  <1> DEFINE a == [Idle EXCEPT !.pc = "sweep", !.seen = Stalled]
  <1>1. s \in Procs /\ Become(s, a) /\ UNCHANGED <<queue, busy, lease, unsent, unused>>
    BY DEF List, Listed, Procs
  <1>2. a.hold = None /\ a.seen = Stalled /\ a.making = None /\ a.pc = "sweep"
    BY DEF Idle
  <1> HIDE DEF a
  <1>3. agent[s].pc = "idle" /\ \A q \in Procs : agent'[q] = IF q = s THEN a ELSE agent[q]
    BY <1>1 DEF Become, List, At, TypeInv, TypeOK
  <1>4. /\ \A j : InQueue(j)' <=> InQueue(j)
        /\ Doing' = Doing
    BY <1>1 DEF InQueue, Doing
  <1>5. \A j \in Jobs : Fresh(j)' => Fresh(j)
    BY <1>1, <1>2, <1>3, Identities DEF Fresh, Jobs
  <1>6. QueuedOnce'
    BY <1>1, <1>4, <1>5 DEF LockInv, QueuedOnce
  <1>7. MadeOnce' /\ HasJob'
    BY <1>1, <1>2, <1>3 DEF LockInv, MadeOnce, HasJob, Resting
  <1>8. \A w \in Workers : agent'[w] = agent[w]
    BY <1>3, Identities DEF Procs
  <1>9. WorkerHolds'
    BY <1>4, <1>8 DEF LockInv, WorkerHolds
  <1>10. SweepLists'
    <2> SUFFICES ASSUME NEW r \in Sweepers, NEW x \in Jobs, Lists(r, x)'
                 PROVE  /\ ~Fresh(x)
                        /\ InQueue(x) => x \in Doing /\ \A w \in Workers : agent[w].hold # x
      BY <1>4, <1>5, <1>8 DEF SweepLists
    <2>1. CASE r # s
      BY <2>1, <1>3 DEF Lists, LockInv, SweepLists, Procs
    <2>2. CASE r = s
      <3>1. x \in Stalled
        BY <2>2, <1>1, <1>2, <1>3, Identities DEF Lists, Jobs
      <3> QED
        BY <3>1, DoingQueued DEF Stalled, LockInv, QueuedOnce
    <2> QED
      BY <2>1, <2>2
  <1>11. LeaseHeld'
    BY <1>1, <1>2, <1>3 DEF LockInv, LeaseHeld, Procs
  <1> QED
    BY <1>6, <1>7, <1>9, <1>10, <1>11 DEF LockInv

LEMMA LockTakeLease ==
    ASSUME TypeInv, LockInv, NEW s \in Sweepers, NEW j \in Jobs, TakeLease(s, j) PROVE LockInv'
  <1> DEFINE a == [agent[s] EXCEPT !.pc = "settle", !.hold = j]
  <1>1. /\ s \in Procs /\ agent[s] \in Agent /\ j \in agent[s].seen /\ Become(s, a)
        /\ lease[j] = None /\ lease' = [lease EXCEPT ![j] = s]
        /\ UNCHANGED <<queue, busy, unsent, unused>>
    BY DEF TakeLease, Procs, TypeInv, TypeOK
  <1>2. a.hold = j /\ a.seen = agent[s].seen /\ a.making = agent[s].making /\ j # None
    BY <1>1, Identities DEF Agent, Jobs
  <1> HIDE DEF a
  <1>3. \A q \in Procs : agent'[q] = IF q = s THEN a ELSE agent[q]
    BY <1>1 DEF Become, TypeInv, TypeOK
  <1>4. /\ \A x : InQueue(x)' <=> InQueue(x)
        /\ Doing' = Doing
    BY <1>1 DEF InQueue, Doing
  <1>5. \A x : Fresh(x)' => Fresh(x)
    BY <1>1, <1>2, <1>3 DEF Fresh
  <1>6. QueuedOnce'
    BY <1>1, <1>4, <1>5 DEF LockInv, QueuedOnce
  <1>7. MadeOnce' /\ HasJob'
    BY <1>1, <1>2, <1>3 DEF LockInv, MadeOnce, HasJob, Resting
  <1>8. \A w \in Workers : agent'[w] = agent[w]
    BY <1>3, Identities DEF Procs
  <1>9. WorkerHolds'
    BY <1>4, <1>8 DEF LockInv, WorkerHolds
  <1>10. SweepLists'
    <2>1. \A r \in Sweepers, x \in Jobs : Lists(r, x)' => Lists(r, x)
      BY <1>1, <1>2, <1>3 DEF Lists, Procs
    <2> QED
      BY <2>1, <1>4, <1>5, <1>8 DEF LockInv, SweepLists
  <1>11. LeaseHeld'
    <2> SUFFICES ASSUME NEW r \in Sweepers, agent'[r].hold # None
                 PROVE  lease'[agent'[r].hold] = r
      BY DEF LeaseHeld
    <2>1. CASE r = s
      BY <2>1, <1>1, <1>2, <1>3 DEF TypeInv, TypeOK
    <2>2. CASE r # s
      <3>1. agent'[r] = agent[r] /\ lease[agent[r].hold] = r
        BY <2>2, <1>3 DEF LockInv, LeaseHeld, Procs
      <3>2. agent[r].hold # j
        BY <3>1, <1>1, Identities
      <3> QED
        BY <3>1, <3>2, <1>1 DEF TypeInv, TypeOK
    <2> QED
      BY <2>1, <2>2
  <1> QED
    BY <1>6, <1>7, <1>9, <1>10, <1>11 DEF LockInv

LEMMA SweepOnAgent ==
    ASSUME TypeInv, NEW s \in Sweepers, NEW j, SweepOn(s, j)
    PROVE  \E a \in Agent : /\ Become(s, a) /\ a.hold = None /\ a.making = None
                            /\ a.seen = agent[s].seen \ {j} /\ a.pc \in {"idle", "sweep"}
  <1> DEFINE left == agent[s].seen \ {j}
             a == [Idle EXCEPT !.pc = IF left = {} THEN "idle" ELSE "sweep", !.seen = left]
  <1>1. left \in SUBSET Jobs
    BY DEF TypeInv, TypeOK, Agent, Procs
  <1>2. Become(s, a)
    BY DEF SweepOn
  <1> HIDE DEF left
  <1>3. a \in Agent /\ a.hold = None /\ a.making = None /\ a.seen = left
        /\ a.pc \in {"idle", "sweep"}
    BY <1>1 DEF Idle, Agent, PC, Verdict
  <1> HIDE DEF a
  <1> QED
    BY <1>2, <1>3 DEF left

\* A sweep drops the job it holds, and the job leaves the queue or was gone.
LEMMA LockDrops ==
    ASSUME TypeInv, LockInv, NEW s \in Sweepers, NEW a \in Agent, Become(s, a),
           a.hold = None, a.making = None, a.seen \subseteq agent[s].seen,
           a.pc \in {"idle", "sweep"}, UNCHANGED <<unsent, unused>>,
           \/ UNCHANGED <<queue, busy>>
           \/ agent[s].hold \in Doing /\ Release(agent[s].hold),
           \/ lease' = lease
           \/ agent[s].hold # None /\ lease' = [lease EXCEPT ![agent[s].hold] = None]
    PROVE  LockInv'
  <1>1. s \in Procs /\ \A q \in Procs : agent'[q] = IF q = s THEN a ELSE agent[q]
    BY DEF Become, TypeInv, TypeOK, Procs
  <1>2. \A x \in Jobs : Fresh(x)' => Fresh(x)
    BY <1>1, Identities DEF Fresh, Jobs
  <1>3. MadeOnce' /\ HasJob'
    BY <1>1 DEF LockInv, MadeOnce, HasJob, Resting
  <1>4. \A w \in Workers : agent'[w] = agent[w]
    BY <1>1, Identities DEF Procs
  <1>5. \A r \in Sweepers, x \in Jobs : Lists(r, x)' => Lists(r, x)
    BY <1>1, Identities DEF Lists, Procs, Jobs
  <1>6. LeaseHeld'
    <2> SUFFICES ASSUME NEW r \in Sweepers, agent'[r].hold # None
                 PROVE  lease'[agent'[r].hold] = r
      BY DEF LeaseHeld
    <2>1. r # s /\ agent'[r] = agent[r] /\ lease[agent[r].hold] = r
      BY <1>1 DEF LockInv, LeaseHeld, Procs
    <2>2. agent[s].hold # None => agent[s].hold # agent[r].hold
      BY <2>1 DEF LockInv, LeaseHeld
    <2>3. agent[r].hold \in Jobs /\ lease \in [Jobs -> Sweepers \cup {None}]
      BY <2>1 DEF Procs, TypeInv, TypeOK, Agent
    <2>4. CASE lease' = lease
      BY <2>1, <2>4
    <2>5. CASE agent[s].hold # None /\ lease' = [lease EXCEPT ![agent[s].hold] = None]
      BY <2>1, <2>2, <2>3, <2>5
    <2> QED
      BY <2>4, <2>5
  <1>7. CASE UNCHANGED <<queue, busy>>
    <2>1. /\ \A x : InQueue(x)' <=> InQueue(x)
          /\ Doing' = Doing
      BY <1>7 DEF InQueue, Doing
    <2>2. QueuedOnce'
      BY <1>7, <1>2, <2>1 DEF LockInv, QueuedOnce
    <2>3. WorkerHolds'
      BY <1>4, <2>1 DEF LockInv, WorkerHolds
    <2>4. SweepLists'
      BY <1>2, <1>4, <1>5, <2>1 DEF LockInv, SweepLists
    <2> QED
      BY <1>3, <1>6, <2>2, <2>3, <2>4 DEF LockInv
  <1>8. CASE agent[s].hold \in Doing /\ Release(agent[s].hold)
    <2>1. /\ \A x : InQueue(x)' <=> InQueue(x) /\ x # agent[s].hold
          /\ Doing' = {} /\ ~busy'
          /\ \A i, k \in DOMAIN queue' : queue'[i] = queue'[k] => i = k
      BY <1>8, QueueReleases DEF LockInv
    <2>2. agent[s].hold \in Jobs /\ InQueue(agent[s].hold) /\ Lists(s, agent[s].hold)
      BY <1>8, DoingQueued DEF Lists
    <2>3. \A w \in Workers : agent[w].hold = None
      BY <1>8, <2>2, DoingQueued DEF LockInv, SweepLists, WorkerHolds
    <2>4. QueuedOnce'
      BY <1>2, <2>1 DEF LockInv, QueuedOnce
    <2>5. WorkerHolds'
      BY <1>4, <2>3 DEF WorkerHolds
    <2>6. SweepLists'
      <3> SUFFICES ASSUME NEW r \in Sweepers, NEW x \in Jobs, Lists(r, x)
                   PROVE  ~Fresh(x)' /\ ~InQueue(x)'
        BY <1>5 DEF SweepLists
      <3>1. ~Fresh(x) /\ (InQueue(x) => x \in Doing)
        BY DEF LockInv, SweepLists
      <3> QED
        BY <1>2, <1>8, <2>1, <3>1, DoingQueued
    <2> QED
      BY <1>3, <1>6, <2>4, <2>5, <2>6 DEF LockInv
  <1> QED
    BY <1>7, <1>8

LEMMA LockLeaseTaken ==
    ASSUME TypeInv, LockInv, NEW s \in Sweepers, NEW j \in Jobs, LeaseTaken(s, j)
    PROVE  LockInv'
  <1>1. PICK a \in Agent : /\ Become(s, a) /\ a.hold = None /\ a.making = None
                           /\ a.seen = agent[s].seen \ {j} /\ a.pc \in {"idle", "sweep"}
    BY SweepOnAgent DEF LeaseTaken
  <1> QED
    BY <1>1, LockDrops DEF LeaseTaken

LEMMA LockReleaseJob ==
    ASSUME TypeInv, LockInv, NEW s \in Sweepers, ReleaseJob(s) PROVE LockInv'
  <1>1. /\ agent[s].hold # None
        /\ lease' = [lease EXCEPT ![agent[s].hold] = None]
        /\ UNCHANGED <<unsent, unused>> /\ Release(agent[s].hold)
    BY DEF ReleaseJob, LockInv, HasJob, Resting, At, Procs
  <1>2. \E a \in Agent : /\ Become(s, a) /\ a.hold = None /\ a.making = None
                         /\ a.seen \subseteq agent[s].seen /\ a.pc \in {"idle", "sweep"}
    <2>1. CASE agent[s].hold \in Doing
      <3>1. SweepOn(s, agent[s].hold)
        BY <2>1 DEF ReleaseJob
      <3> QED
        BY <3>1, SweepOnAgent
    <2>2. CASE agent[s].hold \notin Doing
      BY <2>2, IdleType DEF ReleaseJob, Idle
    <2> QED
      BY <2>1, <2>2
  <1>3. \/ UNCHANGED <<queue, busy>>
        \/ agent[s].hold \in Doing /\ Release(agent[s].hold)
    BY <1>1 DEF Release
  <1> QED
    BY <1>1, <1>2, <1>3, LockDrops

LEMMA LockFinishes ==
    ASSUME TypeInv, LockInv, NEW w \in Workers, FinishJob(w) \/ WriteFails(w) PROVE LockInv'
  <1>1. agent[w].hold # None
    BY DEF FinishJob, WriteFails, At, LockInv, HasJob, Resting, Procs
  <1> QED
    BY <1>1, LockLetsGo DEF FinishJob, WriteFails

LEMMA LockInit == Init => LockInv
  <1> SUFFICES ASSUME Init PROVE LockInv
    OBVIOUS
  <1>1. \A p \in Procs : agent[p] = Idle
    BY DEF Init
  <1>2. Idle.hold = None /\ Idle.making = None /\ Idle.seen = {} /\ Idle.pc = "idle"
    BY DEF Idle
  <1>3. QueuedOnce
    BY EmptySeq DEF Init, QueuedOnce, InQueue
  <1>4. MadeOnce /\ WorkerHolds /\ LeaseHeld /\ HasJob
    BY <1>1, <1>2 DEF MadeOnce, WorkerHolds, LeaseHeld, HasJob, Resting, Procs
  <1>5. SweepLists
    BY <1>1, <1>2, Identities DEF SweepLists, Lists, Procs, Jobs
  <1> QED
    BY <1>3, <1>4, <1>5 DEF LockInv

LEMMA LockAnswer == ASSUME TypeInv, LockInv, NEW p \in Procs, Answer(p) PROVE LockInv'
  BY AnswerKeeps, LockKeeps, LockCreateRow, LockDeferJob, LockRefuseJob DEF Answer

LEMMA LockNext ==
    ASSUME "age" \notin Faults PROVE TypeInv /\ LockInv /\ [Next]_vars => LockInv'
  <1> SUFFICES ASSUME TypeInv, LockInv, [Next]_vars PROVE LockInv'
    OBVIOUS
  <1>1. ASSUME NEW c \in Turns, Send(c) PROVE LockInv'
    BY <1>1, LockSend
  <1>2. ASSUME NEW w \in Workers, Work(w) \/ WriteFails(w) PROVE LockInv'
    <2>1. w \in Procs
      BY DEF Procs
    <2> QED
      BY <1>2, <2>1, LockTake, WorkKeeps, LockKeeps, LockAnswer, LockFinishes DEF Work
  <1>3. ASSUME NEW s \in Sweepers, Sweep(s) PROVE LockInv'
    <2>1. s \in Procs
      BY DEF Procs
    <2> QED
      BY <1>3, <2>1, LockList, LockTakeLease, LockLeaseTaken, SettleKeeps, LockKeeps,
         LockAnswer, LockReleaseJob DEF Sweep
  <1>4. ASSUME NEW p \in Procs, Crash(p) PROVE LockInv'
    BY <1>4, LockCrash
  <1>5. CASE UNCHANGED vars
    <2>1. Keeps
      BY <1>5 DEF vars, Keeps, Resting
    <2> QED
      BY <2>1, LockKeeps
  <1> QED
    BY <1>1, <1>2, <1>3, <1>4, <1>5 DEF Next

\* Without the age timeout, whatever crashes, however many sweeps overlap and
\* however old the list one works from, no worker runs a job beside another
\* worker and no two sweeps speak for one job (maintenance._release_job).
THEOREM OneHolderAlways == ASSUME "age" \notin Faults PROVE Spec => []OneHolder
  <1>1. TypeInv /\ LockInv => OneHolder
    BY DEF LockInv, WorkerHolds, LeaseHeld, OneHolder
  <1> QED
    BY <1>1, TypeInit, TypeNext, LockInit, LockNext, PTL DEF Spec

-----------------------------------------------------------------------------
(* Sweeps and the thread lock                                               *)
(*                                                                         *)
(* What a sweep took the lease of while it was in status doing stays there  *)
(* until this sweep releases it: no live worker holds it and no other sweep *)
(* holds its lease. Only a job that was gone already is spoken for without  *)
(* the lock, and "late" remembers who did that.                             *)

LockedInv == TypeInv /\ LockInv /\ SettlesUnderThreadLock

\* Two agents never hold one job.
LEMMA HoldersApart ==
    ASSUME LockInv, TypeInv, NEW p \in Procs, NEW q \in Procs,
           agent[p].hold = agent[q].hold, agent[p].hold # None
    PROVE  p = q
  <1>1. agent[p].hold \in Jobs
    BY DEF TypeInv, TypeOK, Agent
  <1>2. ASSUME NEW w \in Workers, NEW s \in Sweepers, agent[w].hold = agent[s].hold,
               agent[w].hold = agent[p].hold
        PROVE  FALSE
    <2>1. agent[w].hold \in Doing /\ InQueue(agent[w].hold)
      BY <1>2, DoingQueued DEF LockInv, WorkerHolds
    <2>2. Lists(s, agent[w].hold) /\ agent[w].hold \in Jobs
      BY <1>1, <1>2 DEF Lists
    <2> QED
      BY <2>1, <2>2 DEF LockInv, SweepLists
  <1>3. CASE p \in Workers /\ q \in Workers
    BY <1>3 DEF LockInv, WorkerHolds
  <1>4. CASE p \in Sweepers /\ q \in Sweepers
    BY <1>4 DEF LockInv, LeaseHeld
  <1> QED
    BY <1>2, <1>3, <1>4 DEF Procs

LEMMA DoingGrows ==
    ASSUME TypeInv, QueuedOnce, NEW x \in Jobs, queue' = Append(queue, x), busy' = busy
    PROVE  Doing \subseteq Doing'
  <1>1. CASE queue = <<>>
    BY <1>1 DEF Doing
  <1>2. CASE queue # <<>>
    <2>1. /\ Len(queue) \in Nat \ {0} /\ Head(queue) = queue[1]
          /\ queue'[1] = queue[1] /\ queue' \in Seq(Jobs) /\ Len(queue') = Len(queue) + 1
      BY <1>2, AppendProperties, HeadTailProperties, LenProperties, EmptySeq DEF TypeInv, TypeOK
    <2>2. queue' # <<>> /\ Head(queue') = queue'[1]
      BY <2>1, HeadTailProperties, EmptySeq
    <2> QED
      BY <1>2, <2>1, <2>2 DEF Doing
  <1> QED
    BY <1>1, <1>2

\* Who settled late is never forgotten.
LEMMA LateGrows == ASSUME [Next]_vars PROVE late \subseteq late'
  <1>1. ASSUME NEW p \in Procs, Answer(p) PROVE late' = late
    BY <1>1 DEF Answer, FailTask, Announce, NothingParked, WaitForSiblings, Gather, MarkResuming,
       CloseRow, CreateRow, DeferJob, RefuseJob, Checkpoint, Finalize, CompletionTurnRaises, TurnRaises
  <1>2. ASSUME NEW w \in Workers, Work(w) \/ WriteFails(w) PROVE late' = late
    <2>1. w \in Procs
      BY DEF Procs
    <2> QED
      BY <1>1, <1>2, <2>1 DEF Work, Take, StartBody, BodyReturns, FinishJob, WriteFails
  <1>3. ASSUME NEW s \in Sweepers, Sweep(s) PROVE late \subseteq late'
    <2>1. s \in Procs
      BY DEF Procs
    <2>2. CASE \E j \in Jobs : TakeLease(s, j)
      BY <2>2 DEF TakeLease
    <2>3. CASE (\E j \in Jobs : LeaseTaken(s, j)) \/ ReleaseJob(s) \/ List(s)
      BY <2>3 DEF LeaseTaken, ReleaseJob, List
    <2>4. CASE SettleNothing(s) \/ SettleClosed(s) \/ SettleReported(s) \/ SettleUnreported(s)
      BY <2>4 DEF SettleNothing, SettleClosed, SettleReported, SettleUnreported
    <2> QED
      BY <1>1, <1>3, <2>1, <2>2, <2>3, <2>4 DEF Sweep
  <1>4. ASSUME (\E c \in Turns : Send(c)) \/ (\E p \in Procs : Crash(p)) \/ UNCHANGED vars
        PROVE  late' = late
    BY <1>4 DEF Send, Crash, vars
  <1> QED
    BY <1>2, <1>3, <1>4 DEF Next

\* A step after which no sweep holds a job it did not hold before, and no job a
\* sweep still holds has left status doing.
LEMMA HeldStays ==
    ASSUME SettlesUnderThreadLock, late \subseteq late',
           \A s \in Sweepers : agent'[s].hold # None =>
               /\ agent'[s].hold = agent[s].hold
               /\ agent[s].hold \in Doing => agent[s].hold \in Doing'
    PROVE  SettlesUnderThreadLock'
  BY DEF SettlesUnderThreadLock

LEMMA HeldKeeps ==
    ASSUME SettlesUnderThreadLock, late \subseteq late', Keeps PROVE SettlesUnderThreadLock'
  <1>1. Doing' = Doing
    BY DEF Keeps, Doing
  <1>2. \A s \in Sweepers : agent'[s].hold = agent[s].hold
    BY DEF Keeps, Procs
  <1> QED
    BY <1>1, <1>2, HeldStays

\* A process that keeps its job, or drops it.
LEMMA HoldKept ==
    ASSUME TypeInv, NEW p \in Procs, NEW a, Become(p, a), a.hold \in {agent[p].hold, None}
    PROVE  \A s \in Sweepers : agent'[s].hold \in {agent[s].hold, None}
  <1>1. \A q \in Procs : agent'[q] = IF q = p THEN a ELSE agent[q]
    BY DEF Become, TypeInv, TypeOK
  <1> QED
    BY <1>1 DEF Procs

LEMMA HeldAnswer ==
    ASSUME LockedInv, late \subseteq late', NEW p \in Procs, Answer(p)
    PROVE  SettlesUnderThreadLock'
  <1>1. TypeInv /\ QueuedOnce /\ SettlesUnderThreadLock /\ agent[p] \in Agent
    BY DEF LockedInv, LockInv, TypeInv, TypeOK
  <1>2. ASSUME NEW t \in Tasks, CreateRow(p, t) PROVE SettlesUnderThreadLock'
    <2> DEFINE a == [agent[p] EXCEPT !.making = t]
    <2>1. a.hold = agent[p].hold
      BY <1>1 DEF Agent
    <2>2. Become(p, a) /\ UNCHANGED <<queue, busy>>
      BY <1>2 DEF CreateRow
    <2> HIDE DEF a
    <2>3. Doing' = Doing
      BY <2>2 DEF Doing
    <2> QED
      BY <1>1, <2>1, <2>2, <2>3, HoldKept, HeldStays
  <1>3. CASE DeferJob(p)
    <2> DEFINE a == [agent[p] EXCEPT !.making = None, !.calls = @ \cup {agent[p].making}]
    <2>1. /\ agent[p].making \in Tasks /\ queue' = Append(queue, agent[p].making)
          /\ Become(p, a) /\ busy' = busy
      BY <1>1, <1>3 DEF DeferJob, Agent
    <2>2. a.hold = agent[p].hold
      BY <1>1, <2>1 DEF Agent
    <2> HIDE DEF a
    <2>3. Doing \subseteq Doing'
      BY <1>1, <2>1, DoingGrows DEF Jobs
    <2> QED
      BY <1>1, <2>1, <2>2, <2>3, HoldKept, HeldStays
  <1>4. CASE RefuseJob(p)
    <2>1. /\ agent[p].making \in Tasks /\ queue' \in {queue, Append(queue, agent[p].making)}
          /\ busy' = busy
      BY <1>1, <1>4 DEF RefuseJob, Agent
    <2>2. PICK a \in Agent : /\ Become(p, a) /\ a.making = None
                             /\ a.hold = agent[p].hold /\ a.seen = agent[p].seen
      BY <1>1, <1>4, EndTurnAgent DEF RefuseJob
    <2>3. Doing \subseteq Doing'
      <3>1. CASE queue' = queue
        BY <2>1, <3>1 DEF Doing
      <3>2. CASE queue' = Append(queue, agent[p].making)
        BY <1>1, <2>1, <3>2, DoingGrows DEF Jobs
      <3> QED
        BY <2>1, <3>1, <3>2
    <2> QED
      BY <1>1, <2>2, <2>3, HoldKept, HeldStays
  <1> QED
    BY <1>1, <1>2, <1>3, <1>4, AnswerKeeps, HeldKeeps DEF Answer

\* The job a worker lets go is its own.
LEMMA HeldFinishes ==
    ASSUME LockedInv, late \subseteq late', NEW w \in Workers, FinishJob(w) \/ WriteFails(w)
    PROVE  SettlesUnderThreadLock'
  <1>1. /\ w \in Procs /\ w \notin Sweepers /\ Become(w, Idle) /\ TypeInv /\ LockInv
        /\ agent[w].hold # None /\ agent[w].hold \in Doing /\ SettlesUnderThreadLock
    BY Identities DEF FinishJob, WriteFails, At, LockedInv, LockInv, HasJob, Resting, WorkerHolds, Procs
  <1>2. \A s \in Sweepers : s # w /\ agent'[s] = agent[s] /\ s \in Procs
    BY <1>1 DEF Become, TypeInv, TypeOK, Procs
  <1>3. ASSUME NEW s \in Sweepers, agent[s].hold \in Doing PROVE FALSE
    <2>1. agent[s].hold = agent[w].hold
      BY <1>1, <1>3, DoingQueued
    <2> QED
      BY <1>1, <1>2, <2>1, HoldersApart
  <1> QED
    BY <1>1, <1>2, <1>3, HeldStays

\* The job a sweep releases is leased to that sweep alone.
LEMMA HeldReleases ==
    ASSUME LockedInv, late \subseteq late', NEW s \in Sweepers, ReleaseJob(s)
    PROVE  SettlesUnderThreadLock'
  <1> DEFINE j == agent[s].hold
  <1>1. /\ s \in Procs /\ TypeInv /\ LockInv /\ SettlesUnderThreadLock /\ j # None
        /\ Release(j)
    BY DEF ReleaseJob, At, LockedInv, LockInv, HasJob, Resting, Procs
  <1>2. PICK a : Become(s, a) /\ a.hold = None
    <2>1. CASE j \in Doing
      <3>1. SweepOn(s, j)
        BY <2>1 DEF ReleaseJob
      <3> QED
        BY <1>1, <3>1, SweepOnAgent
    <2>2. CASE j \notin Doing
      BY <2>2 DEF ReleaseJob, Idle
    <2> QED
      BY <2>1, <2>2
  <1>3. agent'[s] = a /\ \A r \in Sweepers : r # s => agent'[r] = agent[r] /\ r \in Procs
    BY <1>1, <1>2 DEF Become, TypeInv, TypeOK, Procs
  <1>4. ASSUME NEW r \in Sweepers, r # s, agent[r].hold # None, agent[r].hold \in Doing
        PROVE  agent[r].hold \in Doing'
    <2>1. CASE j \in Doing
      <3>1. agent[r].hold = j
        BY <1>1, <1>4, <2>1, DoingQueued
      <3> QED
        BY <1>1, <1>3, <1>4, <3>1, HoldersApart
    <2>2. CASE j \notin Doing
      BY <1>1, <1>4, <2>2 DEF Release, Doing
    <2> QED
      BY <2>1, <2>2
  <1> HIDE DEF j
  <1> QED
    BY <1>1, <1>2, <1>3, <1>4, HeldStays

LEMMA HeldSweep ==
    ASSUME LockedInv, late \subseteq late', NEW s \in Sweepers, Sweep(s)
    PROVE  SettlesUnderThreadLock'
  <1>1. TypeInv /\ SettlesUnderThreadLock /\ s \in Procs /\ agent[s] \in Agent
    BY DEF LockedInv, TypeInv, TypeOK, Procs
  <1>2. CASE List(s)
    <2> DEFINE a == [Idle EXCEPT !.pc = "sweep", !.seen = Listed]
    <2>1. Become(s, a) /\ UNCHANGED <<queue, busy>>
      BY <1>2 DEF List
    <2>2. a.hold = None
      BY DEF Idle
    <2> HIDE DEF a
    <2>3. Doing' = Doing
      BY <2>1 DEF Doing
    <2> QED
      BY <1>1, <2>1, <2>2, <2>3, HoldKept, HeldStays
  <1>3. ASSUME NEW j \in Jobs, TakeLease(s, j) PROVE SettlesUnderThreadLock'
    <2> DEFINE a == [agent[s] EXCEPT !.pc = "settle", !.hold = j]
    <2>1. Become(s, a) /\ UNCHANGED <<queue, busy>> /\ (j \in Doing \/ s \in late')
      BY <1>3 DEF TakeLease
    <2>2. a.hold = j
      BY <1>1 DEF Agent
    <2> HIDE DEF a
    <2>3. Doing' = Doing
      BY <2>1 DEF Doing
    <2>4. agent'[s].hold = j /\ \A r \in Sweepers : r # s => agent'[r] = agent[r]
      BY <1>1, <2>1, <2>2 DEF Become, TypeInv, TypeOK, Procs
    <2> QED
      BY <1>1, <2>1, <2>3, <2>4 DEF SettlesUnderThreadLock
  <1>4. ASSUME NEW j \in Jobs, LeaseTaken(s, j) PROVE SettlesUnderThreadLock'
    <2>1. PICK a \in Agent : Become(s, a) /\ a.hold = None
      BY <1>1, <1>4, SweepOnAgent DEF LeaseTaken
    <2>2. Doing' = Doing
      BY <1>4 DEF LeaseTaken, Doing
    <2> QED
      BY <1>1, <2>1, <2>2, HoldKept, HeldStays
  <1> QED
    BY <1>1, <1>2, <1>3, <1>4, SettleKeeps, HeldKeeps, HeldAnswer, HeldReleases DEF Sweep

LEMMA LockedNext ==
    ASSUME "age" \notin Faults PROVE LockedInv /\ [Next]_vars => LockedInv'
  <1> SUFFICES ASSUME LockedInv, [Next]_vars PROVE SettlesUnderThreadLock'
    BY TypeNext, LockNext DEF LockedInv
  <1>0. TypeInv /\ LockInv /\ QueuedOnce /\ SettlesUnderThreadLock /\ late \subseteq late'
    BY LateGrows DEF LockedInv, LockInv
  <1>1. ASSUME NEW c \in Turns, Send(c) PROVE SettlesUnderThreadLock'
    <2>1. Doing \subseteq Doing'
      BY <1>0, <1>1, DoingGrows DEF Send, Jobs
    <2> QED
      BY <1>0, <1>1, <2>1, HeldStays DEF Send
  <1>2. ASSUME NEW w \in Workers, Work(w) \/ WriteFails(w) PROVE SettlesUnderThreadLock'
    <2>1. w \in Procs
      BY DEF Procs
    <2>2. CASE Take(w)
      <3>1. \A s \in Sweepers : agent'[s] = agent[s]
        BY <1>0, <2>2, Identities DEF Take, Become, TypeInv, TypeOK, Procs
      <3>2. Doing = {}
        BY <2>2 DEF Take, Doing
      <3> QED
        BY <1>0, <3>1, <3>2, HeldStays
    <2> QED
      BY <1>0, <1>2, <2>1, <2>2, WorkKeeps, HeldKeeps, HeldAnswer, HeldFinishes DEF Work
  <1>3. ASSUME NEW s \in Sweepers, Sweep(s) PROVE SettlesUnderThreadLock'
    BY <1>0, <1>3, HeldSweep
  <1>4. ASSUME NEW p \in Procs, Crash(p) PROVE SettlesUnderThreadLock'
    <2>1. Become(p, Idle) /\ Idle.hold = None
      BY <1>4 DEF Crash, Idle
    <2>2. Doing' = Doing
      BY <1>4 DEF Crash, Doing
    <2> QED
      BY <1>0, <2>1, <2>2, HoldKept, HeldStays
  <1>5. CASE UNCHANGED vars
    BY <1>0, <1>5 DEF vars, SettlesUnderThreadLock, Doing
  <1> QED
    BY <1>1, <1>2, <1>3, <1>4, <1>5 DEF Next

LEMMA LockedInit == Init => LockedInv
  <1>1. Init => SettlesUnderThreadLock
    BY DEF Init, Idle, SettlesUnderThreadLock, Procs
  <1> QED
    BY <1>1, TypeInit, LockInit DEF LockedInv

LEMMA LockedMeans == ASSUME LockedInv PROVE OneTurnAtATime
  <1>0. TypeInv /\ LockInv /\ SettlesUnderThreadLock
    BY DEF LockedInv
  <1> SUFFICES ASSUME NEW p \in Procs, NEW q \in Procs, InTurn(p), InTurn(q), p # q
               PROVE  \E s \in {p, q} \cap late : agent[s].hold \notin Doing
    BY DEF OneTurnAtATime
  <1>1. agent[p].hold # None /\ agent[q].hold # None
    BY <1>0 DEF InTurn, LockInv, HasJob, Resting
  <1>2. CASE agent[p].hold \in Doing /\ agent[q].hold \in Doing
    <2>1. agent[p].hold = agent[q].hold
      BY <1>0, <1>2, DoingQueued
    <2> QED
      BY <1>0, <1>1, <2>1, HoldersApart
  <1>3. ASSUME NEW s \in {p, q}, agent[s].hold \notin Doing PROVE s \in late
    <2>1. s \in Sweepers
      BY <1>0, <1>1, <1>3 DEF LockInv, WorkerHolds, Procs
    <2> QED
      BY <1>0, <1>1, <1>3, <2>1 DEF SettlesUnderThreadLock
  <1> QED
    BY <1>2, <1>3

\* Without the age timeout, whatever dies and however many sweeps overlap, a sweep
\* speaks for a job without the thread lock only if another sweep had released the
\* job when it took the lease (maintenance._release_job).
THEOREM SweepUnderThreadLock ==
    ASSUME "age" \notin Faults PROVE Spec => []SettlesUnderThreadLock
  <1>1. LockedInv => SettlesUnderThreadLock
    BY DEF LockedInv
  <1> QED
    BY <1>1, LockedInit, LockedNext, PTL DEF Spec

\* Under the same condition two turns of the thread run together only where one of
\* them is the settlement of a job that is gone: chat turns, completion turns and
\* every other settlement take the one checkpoint in turn (chat_turn.defer_chat_turn).
THEOREM TurnsExclude ==
    ASSUME "age" \notin Faults PROVE Spec => []OneTurnAtATime
  BY LockedInit, LockedNext, LockedMeans, PTL DEF Spec

-----------------------------------------------------------------------------
(***************************************************************************)
(* Durable tasks implement ParkedStep: for every number of tasks, messages, *)
(* workers and deaths, each step of DurableTasks is a step of ParkedStep or *)
(* changes nothing that ParkedStep sees.                                    *)
(*                                                                         *)
(* One agent at a time holds a job of the thread (the thread lock, proved   *)
(* above), so what that agent read of the rows still stands when it writes. *)
(* RowInv says what it may rely on.                                         *)
(***************************************************************************)

(* What the rows say *)

\* What is left to close waits with a result, unless its row was removed.
Waiting(t) == t \notin unused /\ row[t] \in {"absent", "result_ready", "resuming"}

Unstarted(t) == row[t] \in {"absent", "pending"}

Blank(p) ==
    /\ agent[p].marks = {} /\ agent[p].closing = {} /\ agent[p].fallback = {}
    /\ agent[p].calls = {} /\ agent[p].making = None

\* The outcome an agent carries is the one its task's row records.
Carries(p) ==
    \/ row[agent[p].hold] = "absent"
    \/ row[agent[p].hold] = "failed" /\ agent[p].verdict = "failed"
    \/ row[agent[p].hold] \in {"result_ready", "resuming", "complete"} /\ agent[p].verdict = "success"

\* What the row of its task says while an agent is at each of its steps.
HeldRow(p) ==
    /\ agent[p].pc \in {"picked", "body", "sweep", "settle"} => agent[p].verdict = "success"
    /\ At(p, "picked") => Unstarted(agent[p].hold)
    /\ At(p, "body") => row[agent[p].hold] \in {"absent", "running"}
    /\ At(p, "failing") => /\ agent[p].hold \in Tasks
                           /\ row[agent[p].hold] \in {"absent", "pending", "running"}
    /\ agent[p].pc \in {"announce", "peek"} => agent[p].hold \in Tasks /\ Carries(p)

\* What it still has to write, and when it has nothing to write yet.
Writes(p) ==
    /\ \A t \in agent[p].marks \cup agent[p].closing \cup agent[p].fallback : Waiting(t)
    /\ agent[p].pc \in {"idle", "sweep", "picked", "body", "settle", "failing"} => Blank(p)
    /\ agent[p].pc \in {"announce", "peek"} =>
          /\ agent[p].marks = {} /\ agent[p].closing = {}
          /\ agent[p].fallback \subseteq {agent[p].hold}
    /\ agent[p].pc \in {"announce", "peek", "marking"} =>
          agent[p].calls = {} /\ agent[p].making = None
    /\ At(p, "close") => agent[p].fallback = {} /\ agent[p].marks = {}

\* What it deferred is pending and was never asked for.
Defers(p) ==
    /\ agent[p].making # None =>
          row[agent[p].making] = "pending" /\ told[agent[p].making] = {} /\ agent[p].making \notin parked
    /\ \A t \in agent[p].calls : row[t] = "pending" /\ told[t] = {}

\* A row is only completed once its step is over.
Completes(p) ==
    At(p, "finalize") \/ (At(p, "close") /\ ~agent[p].erred) =>
        (agent[p].closing \cup agent[p].fallback) \cap parked = {}

AgentRow(p) ==
    /\ agent[p].hold = None => Blank(p)
    /\ HeldRow(p) /\ Writes(p) /\ Defers(p) /\ Completes(p)

AgentRows == \A p \in Procs : AgentRow(p)

FreshRows == \A t \in unused : row[t] = "absent" /\ told[t] = {} /\ t \notin parked

ParkedRows == \A t \in parked : row[t] \notin {"absent", "complete"}

QueuedRows ==
    \A i \in DOMAIN queue : queue[i] \in Tasks /\ (busy => i # 1) => Unstarted(queue[i])

RowInv == AgentRows /\ FreshRows /\ ParkedRows /\ QueuedRows

-----------------------------------------------------------------------------
(* One agent at a time *)

Alone(p) ==
    /\ agent[p].hold \in Doing
    /\ \A q \in Procs : q # p => agent[q].hold = None

StepsInv == TypeInv /\ LockInv /\ RowInv

LEMMA HoldersAlone ==
    ASSUME LockedInv, late = {}, NEW p \in Procs, agent[p].hold # None PROVE Alone(p)
  <1>0. TypeInv /\ LockInv /\ SettlesUnderThreadLock
    BY DEF LockedInv
  <1>1. \A q \in Procs : agent[q].hold # None => agent[q].hold \in Doing
    BY <1>0 DEF LockInv, WorkerHolds, SettlesUnderThreadLock, Procs
  <1>2. ASSUME NEW q \in Procs, q # p, agent[q].hold # None PROVE FALSE
    <2>1. agent[q].hold = agent[p].hold
      BY <1>0, <1>1, <1>2, DoingQueued
    <2> QED
      BY <1>0, <1>2, <2>1, HoldersApart
  <1> QED
    BY <1>1, <1>2 DEF Alone

\* The agents that hold no job have nothing to write, whatever the one that
\* holds it does.
LEMMA OthersRest ==
    ASSUME StepsInv, NEW p \in Procs, Alone(p), NEW q \in Procs, q # p, agent'[q] = agent[q]
    PROVE  AgentRow(q)'
  <1>1. agent[q].hold = None /\ Blank(q) /\ HeldRow(q)
    BY DEF Alone, StepsInv, RowInv, AgentRows, AgentRow
  <1>2. agent[q].pc \in {"idle", "sweep"}
    BY <1>1 DEF StepsInv, LockInv, HasJob, Resting
  <1> QED
    BY <1>1, <1>2 DEF AgentRow, Blank, HeldRow, Writes, Defers, Completes, At

LEMMA OwnRow ==
    ASSUME StepsInv, NEW p \in Procs, Alone(p), NEW a, Become(p, a), AgentRow(p)'
    PROVE  AgentRows'
  <1>1. \A q \in Procs : q # p => agent'[q] = agent[q]
    BY DEF Become, StepsInv, TypeInv, TypeOK
  <1> QED
    BY <1>1, OthersRest DEF AgentRows

\* A step inside a job that writes no row.
LEMMA RowsUnwritten ==
    ASSUME StepsInv, UNCHANGED <<row, parked, told, unused, queue, busy>>
    PROVE  FreshRows' /\ ParkedRows' /\ QueuedRows'
  BY DEF StepsInv, RowInv, FreshRows, ParkedRows, QueuedRows, Unstarted

LEMMA SetRowIs ==
    ASSUME TypeInv, NEW t \in Tasks, NEW s, SetRow(t, s)
    PROVE  /\ \A u \in Tasks : u # t => row'[u] = row[u]
           /\ row'[t] = IF row[t] = "absent" THEN "absent" ELSE s
  BY DEF TypeInv, TypeOK, SetRow

\* The running job's row, or the row of a task that waits, is written.
LEMMA RowWritten ==
    ASSUME StepsInv, NEW t \in Tasks, NEW s, SetRow(t, s), t \in Doing \/ Waiting(t),
           s # "absent", s = "complete" => t \notin parked,
           UNCHANGED <<parked, told, unused, queue, busy>>
    PROVE  FreshRows' /\ ParkedRows' /\ QueuedRows'
  <1>0. TypeInv /\ LockInv /\ FreshRows /\ ParkedRows /\ QueuedRows
    BY DEF StepsInv, RowInv
  <1>1. /\ \A u \in Tasks : u # t => row'[u] = row[u]
        /\ row'[t] = IF row[t] = "absent" THEN "absent" ELSE s
    BY <1>0, SetRowIs
  <1>2. unused \subseteq Tasks /\ parked \subseteq Tasks
    BY <1>0 DEF TypeInv, TypeOK
  <1>3. FreshRows' /\ ParkedRows'
    BY <1>0, <1>1, <1>2 DEF FreshRows, ParkedRows
  <1>4. ASSUME NEW i \in DOMAIN queue, queue[i] \in Tasks, busy => i # 1
        PROVE  row'[queue[i]] \in {"absent", "pending"}
    <2>1. row[queue[i]] \in {"absent", "pending"}
      BY <1>0, <1>4 DEF QueuedRows, Unstarted
    <2>2. CASE Waiting(t)
      BY <1>1, <1>4, <2>1, <2>2 DEF Waiting
    <2>3. CASE t \in Doing
      <3>1. busy /\ queue # <<>> /\ t = queue[1] /\ 1 \in DOMAIN queue
        BY <1>0, <2>3 DEF Doing, TypeInv, TypeOK
      <3>2. queue[i] # t
        BY <1>0, <1>4, <3>1 DEF LockInv, QueuedOnce
      <3> QED
        BY <1>1, <1>4, <2>1, <3>2
    <2> QED
      BY <2>2, <2>3
  <1> QED
    BY <1>3, <1>4 DEF QueuedRows, Unstarted

-----------------------------------------------------------------------------
(* Steps of ParkedStep *)

Maps == [Steps!Next]_(Steps!vars)

LEMMA Stutters ==
    ASSUME \A t \in Tasks : StepState(row'[t]) = StepState(row[t]), UNCHANGED <<parked, told>>
    PROVE  Maps
  BY DEF Maps, Steps!vars

LEMMA StuttersUnwritten == ASSUME UNCHANGED <<row, parked, told>> PROVE Maps
  BY Stutters

LEMMA MapsRow ==
    ASSUME TypeInv, NEW t \in Tasks, NEW s, SetRow(t, s), UNCHANGED <<parked, told>>,
           \/ row[t] = "absent"
           \/ StepState(s) = StepState(row[t])
           \/ StepState(row[t]) = "working" /\ StepState(s) \in {"ready", "failed"}
           \/ StepState(row[t]) = "ready" /\ StepState(s) \in {"complete", "failed"}
    PROVE  Maps
  <1>1. /\ \A u \in Tasks : u # t => row'[u] = row[u]
        /\ row'[t] = IF row[t] = "absent" THEN "absent" ELSE s
    BY SetRowIs
  <1>2. CASE row[t] = "absent" \/ StepState(s) = StepState(row[t])
    BY <1>1, <1>2, Stutters
  <1>3. CASE row[t] # "absent" /\ StepState(s) # StepState(row[t])
    <2> DEFINE state == [u \in Tasks |-> StepState(row[u])]
    <2>1. [u \in Tasks |-> StepState(row'[u])] = [state EXCEPT ![t] = StepState(s)]
      BY <1>1, <1>3
    <2>2. state[t] = StepState(row[t])
      OBVIOUS
    <2>3. Steps!Become(t, StepState(s))
      BY <2>1 DEF Steps!Become
    <2>4. Steps!Report(t) \/ Steps!Close(t)
      BY <1>3, <2>2, <2>3 DEF Steps!Report, Steps!Close
    <2> QED
      BY <2>4 DEF Maps, Steps!Next
  <1> QED
    BY <1>2, <1>3

-----------------------------------------------------------------------------
(* The body and the report: one lemma per action *)

LEMMA Here ==
    ASSUME StepsInv, NEW p \in Procs, Alone(p)
    PROVE  /\ TypeInv /\ AgentRow(p) /\ agent[p] \in Agent
           /\ agent[p].hold # None /\ agent[p].hold \in Doing
           /\ \A a : Become(p, a) => agent'[p] = a
           /\ parked \subseteq Tasks /\ unused \subseteq Tasks
           /\ agent[p].hold \notin unused
  <1>1. TypeInv /\ AgentRow(p) /\ agent[p] \in Agent /\ agent[p].hold \in Doing
        /\ parked \subseteq Tasks /\ unused \subseteq Tasks
    BY DEF StepsInv, RowInv, AgentRows, TypeInv, TypeOK, Alone
  <1>2. \A a : Become(p, a) => agent'[p] = a
    BY <1>1 DEF Become, TypeInv, TypeOK
  <1>3. \A j \in Doing : j \in Jobs
    BY <1>1 DEF Doing, TypeInv, TypeOK
  <1>4. None \notin Jobs
    BY Identities DEF Jobs
  <1>5. \A j \in Doing : j \notin unused
    <2>1. \A j \in Doing : InQueue(j)
      BY <1>1, DoingQueued
    <2> QED
      BY <1>3, <2>1 DEF StepsInv, LockInv, QueuedOnce, Fresh
  <1> QED
    BY <1>1, <1>2, <1>3, <1>4, <1>5

LEMMA StepStartBody ==
    ASSUME StepsInv, NEW w \in Workers, Alone(w), StartBody(w) PROVE RowInv' /\ Maps
  <1> DEFINE a == [agent[w] EXCEPT !.pc = "body"]
  <1>0. w \in Procs /\ "running" # "absent"
    BY DEF Procs
  <1>1. /\ TypeInv /\ AgentRow(w) /\ agent[w] \in Agent /\ agent[w].hold \in Doing
        /\ agent[w].hold # None
    BY <1>0, Here
  <1>2. At(w, "picked") /\ SetRow(agent[w].hold, "running") /\ Become(w, a)
        /\ UNCHANGED <<parked, told, unused, queue, busy>>
    BY DEF StartBody, Goto
  <1>3. agent[w].hold \in Tasks /\ Unstarted(agent[w].hold) /\ Blank(w)
        /\ agent[w].verdict = "success"
    BY <1>0, <1>1, <1>2 DEF TypeInv, HoldsTask, AgentRow, HeldRow, Writes, At
  <1>4. row'[agent[w].hold] \in {"absent", "running"}
    BY <1>1, <1>2, <1>3, SetRowIs DEF Unstarted
  <1>5. agent'[w] = a
    BY <1>0, <1>2, Here
  <1>6. AgentRow(w)'
    BY <1>1, <1>3, <1>4, <1>5 DEF Agent, AgentRow, HeldRow, Writes, Defers, Completes, At, Blank
  <1>7. FreshRows' /\ ParkedRows' /\ QueuedRows'
    BY <1>1, <1>2, <1>3, RowWritten
  <1>8. Maps
    BY <1>1, <1>2, <1>3, MapsRow DEF Unstarted, StepState
  <1> HIDE DEF a
  <1> QED
    BY <1>0, <1>2, <1>6, <1>7, <1>8, OwnRow DEF RowInv

LEMMA StepBodyReturns ==
    ASSUME StepsInv, NEW w \in Workers, Alone(w), BodyReturns(w) PROVE RowInv' /\ Maps
  <1> DEFINE a == [agent[w] EXCEPT !.pc = "announce", !.fallback = {agent[w].hold}]
  <1>0. w \in Procs
    BY DEF Procs
  <1>1. /\ TypeInv /\ AgentRow(w) /\ agent[w] \in Agent /\ agent[w].hold \in Doing
        /\ agent[w].hold # None /\ agent[w].hold \notin unused
    BY <1>0, Here
  <1>2. At(w, "body") /\ SetRow(agent[w].hold, "result_ready") /\ Become(w, a)
        /\ UNCHANGED <<parked, told, unused, queue, busy>>
    BY DEF BodyReturns
  <1>3. /\ agent[w].hold \in Tasks /\ row[agent[w].hold] \in {"absent", "running"} /\ Blank(w)
    BY <1>0, <1>1, <1>2 DEF TypeInv, HoldsTask, AgentRow, HeldRow, Writes, At
  <1>4. row'[agent[w].hold] \in {"absent", "result_ready"}
    BY <1>1, <1>2, <1>3, SetRowIs
  <1>5. agent'[w] = a
    BY <1>0, <1>2, Here
  <1>6. agent[w].verdict = "success"
    BY <1>1, <1>2 DEF AgentRow, HeldRow, At
  <1>7. AgentRow(w)'
    BY <1>1, <1>2, <1>3, <1>4, <1>5, <1>6
    DEF Agent, AgentRow, HeldRow, Writes, Defers, Completes, At, Blank, Carries, Waiting
  <1>8. FreshRows' /\ ParkedRows' /\ QueuedRows'
    BY <1>1, <1>2, <1>3, RowWritten
  <1>9. Maps
    BY <1>1, <1>2, <1>3, MapsRow DEF StepState
  <1> HIDE DEF a
  <1> QED
    BY <1>0, <1>2, <1>7, <1>8, <1>9, OwnRow DEF RowInv

LEMMA StepFailTask ==
    ASSUME StepsInv, NEW p \in Procs, Alone(p), FailTask(p) PROVE RowInv' /\ Maps
  <1> DEFINE a == [agent[p] EXCEPT !.pc = "announce", !.verdict = "failed"]
  <1>1. /\ TypeInv /\ AgentRow(p) /\ agent[p] \in Agent /\ agent[p].hold \in Doing
        /\ agent[p].hold # None
    BY Here
  <1>2. /\ agent[p].pc \in {"body", "failing"} /\ SetRow(agent[p].hold, "failed") /\ Become(p, a)
        /\ UNCHANGED <<parked, told, unused, queue, busy>>
    BY DEF FailTask
  <1>3. /\ agent[p].hold \in Tasks /\ Blank(p)
        /\ row[agent[p].hold] \in {"absent", "pending", "running"}
    BY <1>1, <1>2 DEF TypeInv, HoldsTask, AgentRow, HeldRow, Writes, At
  <1>4. row'[agent[p].hold] \in {"absent", "failed"}
    BY <1>1, <1>2, <1>3, SetRowIs
  <1>5. agent'[p] = a
    BY <1>2, Here
  <1>6. AgentRow(p)'
    BY <1>1, <1>3, <1>4, <1>5
    DEF Agent, AgentRow, HeldRow, Writes, Defers, Completes, At, Blank, Carries
  <1>7. FreshRows' /\ ParkedRows' /\ QueuedRows'
    BY <1>1, <1>2, <1>3, RowWritten
  <1>8. Maps
    BY <1>1, <1>2, <1>3, MapsRow DEF StepState
  <1> HIDE DEF a
  <1> QED
    BY <1>2, <1>6, <1>7, <1>8, OwnRow DEF RowInv

LEMMA StepAnnounce ==
    ASSUME StepsInv, NEW p \in Procs, Alone(p), Announce(p) PROVE RowInv' /\ Maps
  <1> DEFINE a == [agent[p] EXCEPT !.pc = "peek"]
  <1>1. AgentRow(p) /\ agent[p] \in Agent /\ agent[p].hold # None
    BY Here
  <1>2. At(p, "announce") /\ Become(p, a) /\ UNCHANGED <<row, parked, told, unused, queue, busy>>
    BY DEF Announce, Goto
  <1>3. agent'[p] = a
    BY <1>2, Here
  <1>4. AgentRow(p)'
    BY <1>1, <1>2, <1>3
    DEF Agent, AgentRow, HeldRow, Writes, Defers, Completes, At, Blank, Carries, Waiting
  <1> HIDE DEF a
  <1> QED
    BY <1>2, <1>4, RowsUnwritten, StuttersUnwritten, OwnRow DEF RowInv

-----------------------------------------------------------------------------
(* The completion turn *)

\* The rows an agent is left to close wait, and no step waits for those that
\* it will complete.
LEMMA StepCloseRows ==
    ASSUME StepsInv, NEW p \in Procs, Alone(p), NEW rows \in SUBSET Tasks, NEW failed \in BOOLEAN,
           CloseRows(p, rows, failed), \A t \in rows : Waiting(t)', failed \/ rows \cap parked' = {}
    PROVE  AgentRow(p)' /\ AgentRows'
  <1> DEFINE s == IF rows = {} THEN "finish" ELSE "close"
             a == [agent[p] EXCEPT !.pc = s, !.closing = rows, !.marks = {}, !.fallback = {},
                                   !.erred = failed, !.calls = {}, !.making = None]
  <1>1. agent[p] \in Agent /\ agent[p].hold # None /\ Become(p, a)
    BY Here DEF CloseRows
  <1>2. agent'[p] = a
    BY <1>1, Here
  <1>3. AgentRow(p)'
    BY <1>1, <1>2
    DEF Agent, AgentRow, HeldRow, Writes, Defers, Completes, At, Blank, Waiting
  <1> HIDE DEF a
  <1> QED
    BY <1>1, <1>3, OwnRow

LEMMA StepNothingParked ==
    ASSUME StepsInv, NEW p \in Procs, Alone(p), NothingParked(p) PROVE RowInv' /\ Maps
  <1>1. AgentRow(p) /\ agent[p].fallback \in SUBSET Tasks
    BY Here DEF Agent
  <1>2. /\ At(p, "peek") /\ agent[p].hold \notin parked /\ CloseRows(p, agent[p].fallback, FALSE)
        /\ UNCHANGED <<row, parked, told, unused, queue, busy>>
    BY DEF NothingParked
  <1>3. agent[p].fallback \cap parked' = {} /\ \A t \in agent[p].fallback : Waiting(t)'
    BY <1>1, <1>2 DEF AgentRow, Writes, At, Waiting
  <1> QED
    BY <1>1, <1>2, <1>3, RowsUnwritten, StuttersUnwritten, StepCloseRows DEF RowInv

LEMMA StepWaitForSiblings ==
    ASSUME StepsInv, NEW p \in Procs, Alone(p), WaitForSiblings(p) PROVE RowInv' /\ Maps
  <1>1. CloseRows(p, {}, FALSE) /\ UNCHANGED <<row, parked, told, unused, queue, busy>>
    BY DEF WaitForSiblings
  <1>2. {} \in SUBSET Tasks /\ {} \cap parked' = {} /\ \A t \in {} : Waiting(t)'
    OBVIOUS
  <1>3. AgentRows'
    BY <1>1, <1>2, StepCloseRows
  <1> QED
    BY <1>1, <1>3, RowsUnwritten, StuttersUnwritten DEF RowInv

LEMMA StepCompletionTurnRaises ==
    ASSUME StepsInv, NEW p \in Procs, Alone(p), CompletionTurnRaises(p) PROVE RowInv' /\ Maps
  <1>1. AgentRow(p) /\ agent[p].fallback \in SUBSET Tasks
    BY Here DEF Agent
  <1>2. /\ CloseRows(p, agent[p].fallback, TRUE)
        /\ UNCHANGED <<row, parked, told, unused, queue, busy>>
    BY DEF CompletionTurnRaises
  <1>3. \A t \in agent[p].fallback : Waiting(t)'
    BY <1>1, <1>2 DEF AgentRow, Writes, Waiting
  <1> QED
    BY <1>1, <1>2, <1>3, RowsUnwritten, StuttersUnwritten, StepCloseRows DEF RowInv

\* A sibling that a turn is told succeeded waits with its result.
LEMMA DeliveredWaits ==
    ASSUME StepsInv, NEW p \in Procs, Alone(p), Gather(p), NEW t \in parked
    PROVE  /\ StepState(row[t]) \in Steps!Outcome
           /\ AnswerOf(p, t) = Steps!Answer(StepState(row[t]))
           /\ AnswerOf(p, t) = "success" => Waiting(t)
  <1>1. TypeInv /\ AgentRow(p) /\ agent[p] \in Agent /\ t \in Tasks
    BY Here
  <1>2. row[t] \in RowState /\ row[t] \notin {"absent", "complete"}
    BY <1>1 DEF StepsInv, RowInv, ParkedRows, TypeInv, TypeOK
  <1>3. row[t] \in RowState \ {"absent", "complete"} /\ t \notin unused
    BY <1>2 DEF StepsInv, RowInv, FreshRows
  <1>4. CASE t = agent[p].hold
    <2>1. Carries(p)
      BY <1>1 DEF Gather, AgentRow, HeldRow, At
    <2> QED
      BY <1>3, <1>4, <2>1
      DEF Carries, AnswerOf, StepState, Steps!Outcome, Steps!Answer, Waiting
  <1>5. CASE t # agent[p].hold
    <2>1. row[t] \in Reported
      BY <1>5 DEF Gather, AllReported
    <2> QED
      BY <1>3, <1>5, <2>1
      DEF AnswerOf, Reported, StepState, Steps!Outcome, Steps!Answer, Waiting
  <1> QED
    BY <1>4, <1>5

LEMMA StepGather ==
    ASSUME StepsInv, NEW p \in Procs, Alone(p), Gather(p) PROVE RowInv' /\ Maps
  <1> DEFINE delivered == {t \in parked : AnswerOf(p, t) = "success"}
             s == IF delivered = {} THEN "turn" ELSE "marking"
             a == [agent[p] EXCEPT !.pc = s, !.marks = delivered, !.closing = delivered]
  <1>1. /\ TypeInv /\ AgentRow(p) /\ agent[p] \in Agent /\ agent[p].hold # None
        /\ parked \subseteq Tasks /\ unused \subseteq Tasks
    BY Here
  <1>2. /\ At(p, "peek") /\ Become(p, a) /\ agent[p].hold \in parked
        /\ told' = [t \in Tasks |-> IF t \in parked THEN told[t] \cup {AnswerOf(p, t)}
                                    ELSE told[t]]
        /\ UNCHANGED <<row, parked, unused, queue, busy>>
    BY DEF Gather
  <1>3. agent'[p] = a
    BY <1>2, Here
  <1>4. \A t \in delivered : Waiting(t)'
    BY <1>2, DeliveredWaits DEF Waiting
  <1>5. \A t \in agent[p].fallback : Waiting(t)'
    BY <1>1, <1>2 DEF AgentRow, Writes, Waiting
  <1>6. agent[p].calls = {} /\ agent[p].making = None
    BY <1>1, <1>2 DEF AgentRow, Writes, At
  <1> HIDE DEF delivered
  <1>7. AgentRow(p)'
    BY <1>1, <1>3, <1>4, <1>5, <1>6
    DEF Agent, AgentRow, HeldRow, Writes, Defers, Completes, At, Waiting
  <1>8. AgentRows'
    <2> HIDE DEF a
    <2> QED
      BY <1>2, <1>7, OwnRow
  <1>9. FreshRows'
    BY <1>1, <1>2 DEF StepsInv, RowInv, FreshRows
  <1>10. ParkedRows' /\ QueuedRows'
    BY <1>2 DEF StepsInv, RowInv, ParkedRows, QueuedRows, Unstarted
  <1>11. Maps
    <2> DEFINE state == [t \in Tasks |-> StepState(row[t])]
    <2>1. parked # {} /\ \A t \in parked : state[t] \in Steps!Outcome
      BY <1>1, <1>2, DeliveredWaits
    <2>2. told' = [t \in Tasks |-> IF t \in parked THEN told[t] \cup {Steps!Answer(state[t])}
                                   ELSE told[t]]
      BY <1>1, <1>2, DeliveredWaits
    <2>3. UNCHANGED <<state, parked>>
      BY <1>2
    <2>4. Steps!Open
      BY <2>1, <2>2, <2>3 DEF Steps!Open
    <2> QED
      BY <2>4 DEF Maps, Steps!Next
  <1> QED
    BY <1>8, <1>9, <1>10, <1>11 DEF RowInv

LEMMA StepMarkResuming ==
    ASSUME StepsInv, NEW p \in Procs, Alone(p), NEW t \in Tasks, MarkResuming(p, t)
    PROVE  RowInv' /\ Maps
  <1> DEFINE a == [agent[p] EXCEPT !.marks = @ \ {t},
                                   !.pc = IF agent[p].marks = {t} THEN "turn" ELSE @]
  <1>1. /\ TypeInv /\ AgentRow(p) /\ agent[p] \in Agent /\ agent[p].hold # None
    BY Here
  <1>2. /\ At(p, "marking") /\ t \in agent[p].marks /\ SetRow(t, "resuming") /\ Become(p, a)
        /\ UNCHANGED <<parked, told, unused, queue, busy>>
    BY DEF MarkResuming
  <1>3. agent'[p] = a
    BY <1>2, Here
  <1>4. Waiting(t)
    BY <1>1, <1>2 DEF AgentRow, Writes
  <1>5. \A u \in Tasks : Waiting(u) => Waiting(u)'
    BY <1>1, <1>2, <1>4, SetRowIs DEF Waiting
  <1>6. \A u \in agent[p].marks \cup agent[p].closing \cup agent[p].fallback : Waiting(u)'
    BY <1>1, <1>5 DEF AgentRow, Writes, Agent
  <1>7. agent[p].calls = {} /\ agent[p].making = None
    BY <1>1, <1>2 DEF AgentRow, Writes, At
  <1>8. AgentRow(p)'
    BY <1>1, <1>2, <1>3, <1>6, <1>7 DEF Agent, AgentRow, HeldRow, Writes, Defers, Completes, At
  <1>9. FreshRows' /\ ParkedRows' /\ QueuedRows'
    BY <1>2, <1>4, RowWritten
  <1>10. Maps
    BY <1>1, <1>2, <1>4, MapsRow DEF Waiting, StepState
  <1> HIDE DEF a
  <1> QED
    BY <1>2, <1>8, <1>9, <1>10, OwnRow DEF RowInv

LEMMA StepCloseRow ==
    ASSUME StepsInv, NEW p \in Procs, Alone(p), NEW t \in Tasks, CloseRow(p, t)
    PROVE  RowInv' /\ Maps
  <1> DEFINE a == [agent[p] EXCEPT !.closing = @ \ {t},
                                   !.pc = IF agent[p].closing = {t} THEN "finish" ELSE @]
             s == IF agent[p].erred THEN "failed" ELSE "complete"
  <1>1. /\ TypeInv /\ AgentRow(p) /\ agent[p] \in Agent /\ agent[p].hold # None
    BY Here
  <1>2. /\ At(p, "close") /\ t \in agent[p].closing /\ SetRow(t, s) /\ Become(p, a)
        /\ UNCHANGED <<parked, told, unused, queue, busy>>
    BY DEF CloseRow
  <1>3. agent'[p] = a
    BY <1>2, Here
  <1>4. /\ \A u \in agent[p].closing : Waiting(u)
        /\ agent[p].fallback = {} /\ agent[p].marks = {}
    BY <1>1, <1>2 DEF AgentRow, Writes, At
  <1>5. \A u \in Tasks : u # t => row'[u] = row[u]
    BY <1>1, <1>2, SetRowIs
  <1>6. s = "complete" => t \notin parked
    BY <1>1, <1>2 DEF AgentRow, Completes
  <1>7. row[t] \in {"absent", "result_ready", "resuming"}
    BY <1>2, <1>4 DEF Waiting
  <1>8. AgentRow(p)'
    <2>1. \A u \in a.closing : Waiting(u)'
      BY <1>1, <1>2, <1>4, <1>5 DEF Waiting, Agent
    <2>2. HeldRow(p)'
      BY <1>1, <1>2, <1>3 DEF Agent, HeldRow, At
    <2>3. Writes(p)'
      BY <1>1, <1>2, <1>3, <1>4, <2>1 DEF Agent, Writes, At
    <2>4. Defers(p)'
      <3>1. /\ agent[p].making # None => agent[p].making \in Tasks /\ agent[p].making # t
            /\ \A u \in agent[p].calls : u \in Tasks /\ u # t
        BY <1>1, <1>7 DEF AgentRow, Defers, Agent
      <3> QED
        BY <1>1, <1>2, <1>3, <1>5, <3>1 DEF Agent, AgentRow, Defers
    <2>5. Completes(p)'
      BY <1>1, <1>2, <1>3 DEF Agent, AgentRow, Completes, At
    <2> QED
      BY <1>1, <1>3, <2>2, <2>3, <2>4, <2>5 DEF Agent, AgentRow
  <1>9. FreshRows' /\ ParkedRows' /\ QueuedRows'
    BY <1>2, <1>4, <1>6, RowWritten
  <1>10. Maps
    BY <1>1, <1>2, <1>7, MapsRow DEF StepState
  <1> HIDE DEF a
  <1> QED
    BY <1>2, <1>8, <1>9, <1>10, OwnRow DEF RowInv

-----------------------------------------------------------------------------
(* The running turn *)

LEMMA StepEndTurn ==
    ASSUME StepsInv, NEW p \in Procs, Alone(p), NEW failed \in BOOLEAN, EndTurn(p, failed),
           \A t \in Tasks : Waiting(t) => Waiting(t)',
           failed \/ (At(p, "finalize") /\ UNCHANGED parked)
    PROVE  AgentRows'
  <1>1. AgentRow(p) /\ agent[p] \in Agent /\ agent[p].hold # None
    BY Here
  <1> DEFINE rows == IF agent[p].hold \in Turns THEN {}
                     ELSE IF agent[p].closing = {} THEN agent[p].fallback ELSE agent[p].closing
  <1>2. CloseRows(p, rows, failed)
    BY DEF EndTurn
  <1>3. rows \in SUBSET Tasks /\ \A t \in rows : Waiting(t)
    BY <1>1 DEF Agent, AgentRow, Writes
  <1>4. failed \/ rows \cap parked' = {}
    BY <1>1 DEF AgentRow, Completes
  <1> HIDE DEF rows
  <1> QED
    BY <1>2, <1>3, <1>4, StepCloseRows

LEMMA StepFinalize ==
    ASSUME StepsInv, NEW p \in Procs, Alone(p), Finalize(p) PROVE RowInv' /\ Maps
  <1>1. At(p, "finalize") /\ EndTurn(p, FALSE) /\ UNCHANGED <<row, parked, told, unused, queue, busy>>
    BY DEF Finalize
  <1>2. AgentRows'
    BY <1>1, StepEndTurn DEF Waiting
  <1> QED
    BY <1>1, <1>2, RowsUnwritten, StuttersUnwritten DEF RowInv

LEMMA StepTurnRaises ==
    ASSUME StepsInv, NEW p \in Procs, Alone(p), TurnRaises(p) PROVE RowInv' /\ Maps
  <1>1. EndTurn(p, TRUE) /\ UNCHANGED <<row, parked, told, unused, queue, busy>>
    BY DEF TurnRaises
  <1>2. AgentRows'
    BY <1>1, StepEndTurn DEF Waiting
  <1> QED
    BY <1>1, <1>2, RowsUnwritten, StuttersUnwritten DEF RowInv

LEMMA StepCreateRow ==
    ASSUME StepsInv, NEW p \in Procs, Alone(p), NEW t \in Tasks, CreateRow(p, t)
    PROVE  RowInv' /\ Maps
  <1> DEFINE a == [agent[p] EXCEPT !.making = t]
  <1>1. /\ TypeInv /\ AgentRow(p) /\ agent[p] \in Agent /\ agent[p].hold # None
        /\ parked \subseteq Tasks /\ unused \subseteq Tasks
    BY Here
  <1>2. /\ At(p, "turn") /\ t \in unused /\ Become(p, a)
        /\ unused' = unused \ {t} /\ row' = [row EXCEPT ![t] = "pending"]
        /\ UNCHANGED <<parked, told, queue, busy>>
    BY DEF CreateRow
  <1>3. agent'[p] = a
    BY <1>2, Here
  <1>4. row[t] = "absent" /\ told[t] = {} /\ t \notin parked
    BY <1>2 DEF StepsInv, RowInv, FreshRows
  <1>5. row'[t] = "pending" /\ \A u \in Tasks : u # t => row'[u] = row[u]
    BY <1>1, <1>2 DEF TypeInv, TypeOK
  <1>6. \A u \in Tasks : Waiting(u) => Waiting(u)'
    BY <1>2, <1>5 DEF Waiting
  <1>7. AgentRow(p)'
    <2>1. \A u \in agent[p].marks \cup agent[p].closing \cup agent[p].fallback : Waiting(u)'
      BY <1>1, <1>6 DEF AgentRow, Writes, Agent
    <2>2. \A u \in agent[p].calls : row'[u] = "pending" /\ told'[u] = {}
      BY <1>1, <1>2, <1>5 DEF AgentRow, Defers, Agent
    <2>3. Defers(p)'
      BY <1>1, <1>2, <1>3, <1>4, <1>5, <2>2 DEF Defers, Agent
    <2>4. HeldRow(p)' /\ Writes(p)' /\ Completes(p)'
      BY <1>1, <1>2, <1>3, <2>1 DEF Agent, HeldRow, Writes, Completes, At
    <2> QED
      BY <1>1, <1>3, <2>3, <2>4 DEF Agent, AgentRow
  <1>8. FreshRows' /\ ParkedRows'
    BY <1>1, <1>2, <1>5 DEF StepsInv, RowInv, FreshRows, ParkedRows
  <1>9. QueuedRows'
    BY <1>2, <1>5 DEF StepsInv, RowInv, QueuedRows, Unstarted
  <1>10. Maps
    <2> DEFINE state == [u \in Tasks |-> StepState(row[u])]
    <2>1. state[t] = "absent"
      BY <1>4 DEF StepState
    <2>2. [u \in Tasks |-> StepState(row'[u])] = [state EXCEPT ![t] = "working"]
      BY <1>5 DEF StepState
    <2>3. Steps!Create(t)
      BY <1>2, <2>1, <2>2 DEF Steps!Create, Steps!Become
    <2> QED
      BY <2>3 DEF Maps, Steps!Next
  <1> HIDE DEF a
  <1> QED
    BY <1>2, <1>7, <1>8, <1>9, <1>10, OwnRow DEF RowInv

\* Queueing a job that has not started.
LEMMA QueuedGrow ==
    ASSUME StepsInv, NEW j \in Jobs, queue' \in {queue, Append(queue, j)}, busy' = busy,
           \A t \in Tasks : Unstarted(t) => Unstarted(t)', j \in Tasks => Unstarted(j)'
    PROVE  QueuedRows'
  <1>1. QueuedRows /\ queue \in Seq(Jobs)
    BY DEF StepsInv, RowInv, TypeInv, TypeOK
  <1>2. CASE queue' = queue
    BY <1>1, <1>2 DEF QueuedRows
  <1>3. CASE queue' = Append(queue, j)
    <2>1. /\ DOMAIN queue' = DOMAIN queue \cup {Len(queue) + 1}
          /\ \A i \in DOMAIN queue : queue'[i] = queue[i]
          /\ queue'[Len(queue) + 1] = j
      BY <1>1, <1>3
    <2> QED
      BY <1>1, <2>1 DEF QueuedRows
  <1> QED
    BY <1>2, <1>3

LEMMA StepDeferJob ==
    ASSUME StepsInv, NEW p \in Procs, Alone(p), DeferJob(p) PROVE RowInv' /\ Maps
  <1> DEFINE t == agent[p].making
             a == [agent[p] EXCEPT !.making = None, !.calls = @ \cup {agent[p].making}]
  <1>1. /\ AgentRow(p) /\ agent[p] \in Agent /\ agent[p].hold # None
    BY Here
  <1>2. /\ At(p, "turn") /\ t # None /\ Become(p, a) /\ queue' = Append(queue, t)
        /\ UNCHANGED <<row, parked, told, unused, busy>>
    BY DEF DeferJob
  <1>3. agent'[p] = a
    BY <1>2, Here
  <1>4. t \in Tasks /\ row[t] = "pending" /\ told[t] = {}
    BY <1>1, <1>2 DEF Agent, AgentRow, Defers
  <1>5. AgentRow(p)'
    BY <1>1, <1>2, <1>3, <1>4
    DEF Agent, AgentRow, HeldRow, Writes, Defers, Completes, At, Waiting
  <1>6. FreshRows' /\ ParkedRows'
    BY <1>2 DEF StepsInv, RowInv, FreshRows, ParkedRows
  <1>7. QueuedRows'
    BY <1>2, <1>4, QueuedGrow DEF Unstarted, Jobs
  <1> HIDE DEF a
  <1> QED
    BY <1>2, <1>5, <1>6, <1>7, OwnRow, StuttersUnwritten DEF RowInv

LEMMA StepRefuseJob ==
    ASSUME StepsInv, NEW p \in Procs, Alone(p), RefuseJob(p) PROVE RowInv' /\ Maps
  <1> DEFINE t == agent[p].making
  <1>1. /\ TypeInv /\ AgentRow(p) /\ agent[p] \in Agent
        /\ parked \subseteq Tasks /\ unused \subseteq Tasks
    BY Here
  <1>2. /\ t # None /\ EndTurn(p, TRUE) /\ queue' \in {queue, Append(queue, t)}
        /\ row' = [row EXCEPT ![t] = IF @ = "pending" THEN "absent" ELSE @] \/ row' = row
        /\ UNCHANGED <<parked, told, unused, busy>>
    BY DEF RefuseJob
  <1>3. t \in Tasks /\ row[t] = "pending" /\ t \notin parked
    BY <1>1, <1>2 DEF Agent, AgentRow, Defers
  <1>4. row'[t] \in {"absent", "pending"} /\ \A u \in Tasks : u # t => row'[u] = row[u]
    BY <1>1, <1>2, <1>3 DEF TypeInv, TypeOK
  <1>5. \A u \in Tasks : Waiting(u) => Waiting(u)'
    BY <1>2, <1>3, <1>4 DEF Waiting
  <1>6. AgentRows'
    BY <1>2, <1>5, StepEndTurn
  <1>7. FreshRows' /\ ParkedRows'
    BY <1>1, <1>2, <1>3, <1>4 DEF StepsInv, RowInv, FreshRows, ParkedRows
  <1>8. QueuedRows'
    BY <1>2, <1>3, <1>4, QueuedGrow DEF Unstarted, Jobs
  <1>9. Maps
    <2>1. CASE row' = row
      BY <1>2, <2>1, StuttersUnwritten
    <2>2. CASE row' = [row EXCEPT ![t] = IF @ = "pending" THEN "absent" ELSE @]
      <3> DEFINE state == [u \in Tasks |-> StepState(row[u])]
      <3>1. row'[t] = "absent"
        BY <1>1, <1>3, <2>2 DEF TypeInv, TypeOK
      <3>2. state[t] = "working"
        BY <1>3 DEF StepState
      <3>3. [u \in Tasks |-> StepState(row'[u])] = [state EXCEPT ![t] = "absent"]
        BY <1>4, <3>1 DEF StepState
      <3>4. Steps!Discard(t)
        BY <1>2, <1>3, <3>2, <3>3 DEF Steps!Discard, Steps!Become
      <3> QED
        BY <1>3, <3>4 DEF Maps, Steps!Next
    <2> QED
      BY <1>2, <2>1, <2>2
  <1> QED
    BY <1>6, <1>7, <1>8, <1>9 DEF RowInv

LEMMA StepCheckpoint ==
    ASSUME StepsInv, NEW p \in Procs, Alone(p), Checkpoint(p) PROVE RowInv' /\ Maps
  <1> DEFINE a == [agent[p] EXCEPT !.pc = "finalize"]
  <1>1. /\ TypeInv /\ AgentRow(p) /\ agent[p] \in Agent /\ agent[p].hold # None
        /\ unused \subseteq Tasks
    BY Here
  <1>2. /\ At(p, "turn") /\ agent[p].making = None /\ parked' \in {agent[p].calls, {}} /\ Become(p, a)
        /\ UNCHANGED <<row, told, unused, queue, busy>>
    BY DEF Checkpoint, Goto
  <1>3. agent'[p] = a
    BY <1>2, Here
  <1>4. \A t \in parked' : t \in Tasks /\ row[t] = "pending" /\ told[t] = {}
    BY <1>1, <1>2 DEF AgentRow, Defers, Agent
  <1>5. \A t \in agent[p].marks \cup agent[p].closing \cup agent[p].fallback : Waiting(t)' /\ t \notin parked'
    BY <1>1, <1>2, <1>4 DEF AgentRow, Writes, Waiting
  <1>6. AgentRow(p)'
    BY <1>1, <1>2, <1>3, <1>5
    DEF Agent, AgentRow, HeldRow, Writes, Defers, Completes, At
  <1>7. FreshRows' /\ ParkedRows'
    BY <1>2, <1>4 DEF StepsInv, RowInv, FreshRows, ParkedRows
  <1>8. QueuedRows'
    BY <1>2 DEF StepsInv, RowInv, QueuedRows, Unstarted
  <1>9. Maps
    <2> DEFINE state == [u \in Tasks |-> StepState(row[u])]
    <2>1. parked' \in SUBSET {t \in Tasks : state[t] # "absent" /\ told[t] = {}}
      BY <1>4 DEF StepState
    <2>2. UNCHANGED <<state, told>>
      BY <1>2
    <2>3. Steps!Park
      BY <2>1, <2>2 DEF Steps!Park
    <2> QED
      BY <2>3 DEF Maps, Steps!Next
  <1> HIDE DEF a
  <1> QED
    BY <1>2, <1>6, <1>7, <1>8, <1>9, OwnRow DEF RowInv

LEMMA StepAnswer ==
    ASSUME StepsInv, NEW p \in Procs, Alone(p), Answer(p) PROVE RowInv' /\ Maps
  BY StepFailTask, StepAnnounce, StepNothingParked, StepWaitForSiblings, StepGather,
     StepMarkResuming, StepCloseRow, StepCreateRow, StepDeferJob, StepRefuseJob,
     StepCheckpoint, StepFinalize, StepCompletionTurnRaises, StepTurnRaises
  DEF Answer

-----------------------------------------------------------------------------
(* Jobs and sweeps: these write no row *)

LEMMA OwnRowUnwritten ==
    ASSUME StepsInv, NEW p \in Procs, NEW a, Become(p, a), AgentRow(p)',
           UNCHANGED <<row, parked, told, unused>>
    PROVE  AgentRows'
  <1>1. \A q \in Procs : q # p => agent'[q] = agent[q]
    BY DEF Become, StepsInv, TypeInv, TypeOK
  <1>2. ASSUME NEW q \in Procs, q # p PROVE AgentRow(q)'
    <2>1. AgentRow(q) /\ agent'[q] = agent[q]
      BY <1>1, <1>2 DEF StepsInv, RowInv, AgentRows
    <2> QED
      BY <2>1
      DEF AgentRow, Blank, HeldRow, Carries, Writes, Waiting, Unstarted, Defers, Completes, At
  <1> QED
    BY <1>2 DEF AgentRows

\* An agent that comes to a job, or leaves one, has nothing to write.
Bare(a) ==
    /\ a.verdict = "success" /\ a.marks = {} /\ a.closing = {} /\ a.fallback = {}
    /\ a.calls = {} /\ a.making = None

LEMMA OwnIdle ==
    ASSUME StepsInv, NEW p \in Procs, NEW a, Become(p, a), Bare(a),
           a.pc \in {"idle", "sweep", "settle", "turn"} \/ (a.pc = "picked" /\ Unstarted(a.hold)),
           UNCHANGED <<row, parked, told, unused>>
    PROVE  AgentRows'
  <1>1. agent'[p] = a
    BY DEF Become, StepsInv, TypeInv, TypeOK
  <1>2. Blank(p)'
    BY <1>1 DEF Bare, Blank
  <1>3. HeldRow(p)'
    BY <1>1 DEF Bare, HeldRow, At, Unstarted
  <1>4. Writes(p)'
    BY <1>1, <1>2 DEF Bare, Blank, Writes, At
  <1>5. Defers(p)' /\ Completes(p)'
    BY <1>1 DEF Bare, Defers, Completes, At
  <1> QED
    BY <1>2, <1>3, <1>4, <1>5, OwnRowUnwritten DEF AgentRow

LEMMA StepIdles ==
    ASSUME StepsInv, NEW p \in Procs, Become(p, Idle), UNCHANGED <<row, parked, told, unused>>
    PROVE  AgentRows'
  <1>1. Bare(Idle) /\ Idle.pc = "idle"
    BY DEF Bare, Idle
  <1> QED
    BY <1>1, OwnIdle

LEMMA StepSweepOn ==
    ASSUME StepsInv, NEW s \in Procs, NEW j, SweepOn(s, j), UNCHANGED <<row, parked, told, unused>>
    PROVE  AgentRows'
  <1> DEFINE left == agent[s].seen \ {j}
             a == [Idle EXCEPT !.pc = IF left = {} THEN "idle" ELSE "sweep", !.seen = left]
  <1>1. Become(s, a)
    BY DEF SweepOn
  <1>2. Bare(a) /\ a.pc \in {"idle", "sweep"}
    BY DEF Bare, Idle
  <1> HIDE DEF a
  <1> QED
    BY <1>1, <1>2, OwnIdle

LEMMA QueueSame ==
    ASSUME StepsInv, UNCHANGED <<row, parked, told, unused>>
    PROVE  /\ FreshRows' /\ ParkedRows' /\ Maps
           /\ UNCHANGED <<queue, busy>> => QueuedRows'
  BY StuttersUnwritten DEF StepsInv, RowInv, FreshRows, ParkedRows, QueuedRows, Unstarted

LEMMA QueuedRelease ==
    ASSUME StepsInv, NEW j, Release(j), row' = row
    PROVE  QueuedRows'
  <1>1. QueuedRows /\ queue \in Seq(Jobs)
    BY DEF StepsInv, RowInv, TypeInv, TypeOK
  <1>2. CASE j \notin Doing
    BY <1>1, <1>2 DEF Release, QueuedRows, Unstarted
  <1>3. CASE j \in Doing
    <2>1. busy /\ queue # <<>> /\ queue' = Tail(queue)
      BY <1>3 DEF Release, Doing
    <2>2. /\ DOMAIN queue = 1..Len(queue) /\ Len(queue) \in Nat
          /\ DOMAIN queue' = 1..(Len(queue) - 1)
          /\ \A i \in 1..(Len(queue) - 1) : queue'[i] = queue[i + 1]
      BY <1>1, <2>1
    <2>3. ASSUME NEW i \in DOMAIN queue', queue'[i] \in Tasks PROVE Unstarted(queue'[i])
      <3>1. i + 1 \in DOMAIN queue /\ i + 1 # 1 /\ queue[i + 1] = queue'[i]
        BY <2>2, <2>3
      <3> QED
        BY <1>1, <2>3, <3>1 DEF QueuedRows
    <2> QED
      BY <2>3 DEF QueuedRows, Unstarted
  <1> QED
    BY <1>2, <1>3

LEMMA StepSend == ASSUME StepsInv, NEW c \in Turns, Send(c) PROVE RowInv' /\ Maps
  <1>1. queue' = Append(queue, c) /\ UNCHANGED <<row, parked, told, unused, busy, agent>>
    BY DEF Send
  <1>2. AgentRows'
    BY <1>1 DEF StepsInv, RowInv, AgentRows, AgentRow, Blank, HeldRow, Carries, Writes, Waiting,
                Unstarted, Defers, Completes, At
  <1>3. QueuedRows'
    BY <1>1, QueuedGrow, Identities DEF Jobs, Unstarted
  <1> QED
    BY <1>1, <1>2, <1>3, QueueSame DEF RowInv

LEMMA StepTake ==
    ASSUME StepsInv, NEW w \in Workers, Take(w) PROVE RowInv' /\ Maps
  <1> DEFINE j == Head(queue)
             s == IF j \in Turns THEN "turn" ELSE "picked"
             a == [Idle EXCEPT !.hold = j, !.pc = s]
  <1>1. /\ w \in Procs /\ ~busy /\ queue # <<>> /\ busy' = TRUE /\ Become(w, a)
        /\ UNCHANGED <<row, parked, told, unused, queue>>
    BY DEF Take, Procs
  <1>2. queue \in Seq(Jobs) /\ QueuedRows
    BY DEF StepsInv, RowInv, TypeInv, TypeOK
  <1>3. j = queue[1] /\ 1 \in DOMAIN queue /\ j \in Jobs
    BY <1>1, <1>2
  <1>4. s = "turn" \/ (s = "picked" /\ Unstarted(j))
    BY <1>1, <1>2, <1>3 DEF QueuedRows, Jobs
  <1>5. Bare(a) /\ a.pc = s /\ a.hold = j
    BY DEF Bare, Idle
  <1> HIDE DEF a, j, s
  <1>6. AgentRows'
    BY <1>1, <1>4, <1>5, OwnIdle
  <1>7. QueuedRows'
    BY <1>1, <1>2 DEF QueuedRows, Unstarted
  <1> QED
    BY <1>1, <1>6, <1>7, QueueSame DEF RowInv

LEMMA StepLeaves ==
    ASSUME StepsInv, NEW w \in Workers, FinishJob(w) \/ WriteFails(w) PROVE RowInv' /\ Maps
  <1>1. /\ w \in Procs /\ Release(agent[w].hold) /\ Become(w, Idle)
        /\ UNCHANGED <<row, parked, told, unused>>
    BY DEF FinishJob, WriteFails, Procs
  <1> QED
    BY <1>1, StepIdles, QueuedRelease, QueueSame DEF RowInv

LEMMA StepCrash ==
    ASSUME StepsInv, NEW p \in Procs, Crash(p) PROVE RowInv' /\ Maps
  <1>1. Become(p, Idle) /\ UNCHANGED <<row, parked, told, unused, queue, busy>>
    BY DEF Crash
  <1> QED
    BY <1>1, StepIdles, QueueSame DEF RowInv

LEMMA StepList ==
    ASSUME StepsInv, NEW s \in Procs, List(s) PROVE RowInv' /\ Maps
  <1> DEFINE a == [Idle EXCEPT !.pc = "sweep", !.seen = Listed]
  <1>1. /\ Become(s, a)
        /\ UNCHANGED <<row, parked, told, unused, queue, busy>>
    BY DEF List
  <1>2. Bare(a) /\ a.pc = "sweep"
    BY DEF Bare, Idle
  <1> HIDE DEF a
  <1>3. AgentRows'
    BY <1>1, <1>2, OwnIdle
  <1> QED
    BY <1>1, <1>3, QueueSame DEF RowInv

LEMMA StepTakeLease ==
    ASSUME StepsInv, NEW s \in Procs, NEW j \in Jobs, TakeLease(s, j) PROVE RowInv' /\ Maps
  <1> DEFINE a == [agent[s] EXCEPT !.pc = "settle", !.hold = j]
  <1>1. /\ At(s, "sweep") /\ Become(s, a)
        /\ UNCHANGED <<row, parked, told, unused, queue, busy>>
    BY DEF TakeLease
  <1>2. AgentRow(s) /\ agent[s] \in Agent /\ agent'[s] = a
    BY <1>1 DEF StepsInv, RowInv, AgentRows, TypeInv, TypeOK, Become
  <1>3. AgentRow(s)'
    BY <1>1, <1>2, Identities
    DEF Agent, AgentRow, Blank, HeldRow, Writes, Defers, Completes, At, Jobs
  <1> HIDE DEF a
  <1> QED
    BY <1>1, <1>3, OwnRowUnwritten, QueueSame DEF RowInv

LEMMA StepLeaseTaken ==
    ASSUME StepsInv, NEW s \in Procs, NEW j \in Jobs, LeaseTaken(s, j) PROVE RowInv' /\ Maps
  BY StepSweepOn, QueueSame DEF LeaseTaken, RowInv

LEMMA StepReleaseJob ==
    ASSUME StepsInv, NEW s \in Procs, ReleaseJob(s) PROVE RowInv' /\ Maps
  <1> DEFINE j == agent[s].hold
  <1>1. /\ Release(j) /\ (SweepOn(s, j) \/ Become(s, Idle))
        /\ UNCHANGED <<row, parked, told, unused>>
    BY DEF ReleaseJob
  <1>2. AgentRows'
    BY <1>1, StepSweepOn, StepIdles
  <1> QED
    BY <1>1, <1>2, QueuedRelease, QueueSame DEF RowInv

LEMMA StepSettle ==
    ASSUME StepsInv, NEW s \in Procs, Alone(s),
           SettleNothing(s) \/ SettleClosed(s) \/ SettleReported(s) \/ SettleUnreported(s)
    PROVE  RowInv' /\ Maps
  <1>1. /\ TypeInv /\ AgentRow(s) /\ agent[s] \in Agent
        /\ agent[s].hold # None /\ agent[s].hold \notin unused
    BY Here
  <1>2. At(s, "settle") /\ UNCHANGED <<row, parked, told, unused, queue, busy>>
    BY DEF SettleNothing, SettleClosed, SettleReported, SettleUnreported
  <1>3. Blank(s) /\ agent[s].verdict = "success"
    BY <1>1, <1>2 DEF AgentRow, HeldRow, Writes, At
  <1>4. ASSUME NEW a, Become(s, a), AgentRow(s)' PROVE RowInv' /\ Maps
    BY <1>2, <1>4, OwnRowUnwritten, QueueSame DEF RowInv
  <1>5. CASE SettleNothing(s)
    <2> DEFINE a == [agent[s] EXCEPT !.pc = "finish"]
    <2>1. Become(s, a) /\ agent'[s] = a
      BY <1>1, <1>5, Here DEF SettleNothing, Goto
    <2>2. AgentRow(s)'
      BY <1>1, <1>3, <2>1 DEF Agent, AgentRow, Blank, HeldRow, Writes, Defers, Completes, At
    <2> HIDE DEF a
    <2> QED
      BY <1>4, <2>1, <2>2
  <1>6. CASE SettleClosed(s)
    <2> DEFINE v == IF row[agent[s].hold] = "failed" THEN "failed" ELSE "success"
               a == [agent[s] EXCEPT !.pc = "peek", !.verdict = v]
    <2>1. /\ Become(s, a) /\ agent'[s] = a
          /\ agent[s].hold \in Tasks /\ row[agent[s].hold] \in {"complete", "failed"}
      BY <1>1, <1>6, Here DEF SettleClosed, Closed
    <2>2. AgentRow(s)'
      BY <1>1, <1>2, <1>3, <2>1
      DEF Agent, AgentRow, Blank, HeldRow, Carries, Writes, Defers, Completes, At
    <2> HIDE DEF a
    <2> QED
      BY <1>4, <2>1, <2>2
  <1>7. CASE SettleReported(s)
    <2> DEFINE a == [agent[s] EXCEPT !.pc = "announce", !.fallback = {agent[s].hold}]
    <2>1. /\ Become(s, a) /\ agent'[s] = a
          /\ agent[s].hold \in Tasks /\ row[agent[s].hold] \in {"resuming", "result_ready"}
      BY <1>1, <1>7, Here DEF SettleReported, Active, Reported
    <2>2. AgentRow(s)'
      BY <1>1, <1>2, <1>3, <2>1
      DEF Agent, AgentRow, Blank, HeldRow, Carries, Writes, Waiting, Defers, Completes, At
    <2> HIDE DEF a
    <2> QED
      BY <1>4, <2>1, <2>2
  <1>8. CASE SettleUnreported(s)
    <2> DEFINE a == [agent[s] EXCEPT !.pc = "failing"]
    <2>1. /\ Become(s, a) /\ agent'[s] = a
          /\ agent[s].hold \in Tasks /\ row[agent[s].hold] \in {"pending", "running"}
      BY <1>1, <1>8, Here DEF SettleUnreported, Active, Reported, Goto
    <2>2. AgentRow(s)'
      BY <1>1, <1>2, <1>3, <2>1 DEF Agent, AgentRow, Blank, HeldRow, Writes, Defers, Completes, At
    <2> HIDE DEF a
    <2> QED
      BY <1>4, <2>1, <2>2
  <1> QED
    BY <1>5, <1>6, <1>7, <1>8

-----------------------------------------------------------------------------
(* Every step *)

\* Who does more than rest or list holds a job, so nobody else does.
LEMMA Speaks ==
    ASSUME LockedInv, late = {}, NEW p \in Procs, ~Resting(p) PROVE Alone(p)
  <1>1. agent[p].hold # None
    BY DEF LockedInv, LockInv, HasJob
  <1> QED
    BY <1>1, HoldersAlone

LEMMA AnswerSpeaks == ASSUME NEW p \in Procs, Answer(p) PROVE ~Resting(p)
  BY DEF Answer, Resting, At, FailTask, Announce, NothingParked, WaitForSiblings, Gather,
         MarkResuming, CloseRow, CreateRow, DeferJob, RefuseJob, Checkpoint, Finalize,
         CompletionTurnRaises, TurnRaises

LEMMA StepNext ==
    ASSUME late = {}, LockedInv, RowInv, [Next]_vars PROVE RowInv' /\ Maps
  <1>0. StepsInv
    BY DEF LockedInv, StepsInv
  <1>1. ASSUME NEW c \in Turns, Send(c) PROVE RowInv' /\ Maps
    BY <1>0, <1>1, StepSend
  <1>2. ASSUME NEW w \in Workers, Work(w) \/ WriteFails(w) PROVE RowInv' /\ Maps
    <2>1. w \in Procs
      BY DEF Procs
    <2>2. CASE Answer(w)
      BY <1>0, <2>1, <2>2, AnswerSpeaks, Speaks, StepAnswer
    <2>3. CASE StartBody(w) \/ BodyReturns(w)
      <3>1. ~Resting(w)
        BY <2>3 DEF Resting, StartBody, BodyReturns, At
      <3> QED
        BY <1>0, <2>1, <2>3, <3>1, Speaks, StepStartBody, StepBodyReturns
    <2> QED
      BY <1>0, <1>2, <2>2, <2>3, StepTake, StepLeaves DEF Work
  <1>3. ASSUME NEW s \in Sweepers, Sweep(s) PROVE RowInv' /\ Maps
    <2>1. s \in Procs
      BY DEF Procs
    <2>2. CASE Answer(s)
      BY <1>0, <2>1, <2>2, AnswerSpeaks, Speaks, StepAnswer
    <2>3. CASE SettleNothing(s) \/ SettleClosed(s) \/ SettleReported(s) \/ SettleUnreported(s)
      <3>1. ~Resting(s)
        BY <2>3 DEF Resting, SettleNothing, SettleClosed, SettleReported, SettleUnreported, At
      <3> QED
        BY <1>0, <2>1, <2>3, <3>1, Speaks, StepSettle
    <2> QED
      BY <1>0, <1>3, <2>1, <2>2, <2>3, StepList, StepTakeLease, StepLeaseTaken, StepReleaseJob
      DEF Sweep
  <1>4. ASSUME NEW p \in Procs, Crash(p) PROVE RowInv' /\ Maps
    BY <1>0, <1>4, StepCrash
  <1>5. CASE UNCHANGED vars
    <2>1. UNCHANGED <<row, parked, told, unused, queue, busy, agent>>
      BY <1>5 DEF vars
    <2>2. AgentRows'
      BY <1>0, <2>1 DEF StepsInv, RowInv, AgentRows, AgentRow, Blank, HeldRow, Carries, Writes,
                        Waiting, Unstarted, Defers, Completes, At
    <2> QED
      BY <1>0, <2>1, <2>2, RowsUnwritten, StuttersUnwritten DEF RowInv
  <1> QED
    BY <1>1, <1>2, <1>3, <1>4, <1>5 DEF Next

LEMMA StepInit == Init => RowInv /\ Steps!Init
  <1> SUFFICES ASSUME Init PROVE RowInv /\ Steps!Init
    OBVIOUS
  <1>1. \A p \in Procs : agent[p] = Idle
    BY DEF Init
  <1>2. AgentRows
    BY <1>1 DEF AgentRows, AgentRow, Idle, Blank, HeldRow, Writes, Defers, Completes, At
  <1>3. FreshRows /\ ParkedRows /\ QueuedRows
    BY DEF Init, FreshRows, ParkedRows, QueuedRows
  <1>4. Steps!Init
    BY DEF Init, Steps!Init, StepState
  <1> QED
    BY <1>2, <1>3, <1>4 DEF RowInv

\* Durable tasks keep ParkedStep's promise for any number of tasks, messages,
\* workers, deaths and overlapping sweeps, as long as no job is taken for its age
\* and until a sweep speaks for a job that another released: a step is opened only
\* with the outcome of each of its tasks, a closed row is never written again, and
\* no answered call is waited for again (completion_turn._gathered_answers,
\* runner._settle_row).
THEOREM TasksKeepSteps ==
    ASSUME "age" \notin Faults PROVE Spec => KeepsSteps
  <1> DEFINE Inv == LockedInv /\ (late = {} => RowInv)
  <1>1. Init => Inv /\ Steps!Init
    BY LockedInit, StepInit
  <1>2. Inv /\ [Next]_vars => Inv'
    BY LockedNext, StepNext, LateGrows
  <1>3. Inv /\ [Next]_vars => [late = {} => Steps!Next]_(Steps!vars)
    BY StepNext DEF Maps
  <1> HIDE DEF Inv
  <1>4. Spec => Steps!Init /\ [][late = {} => Steps!Next]_(Steps!vars)
    BY <1>1, <1>2, <1>3, PTL DEF Spec
  <1> QED
    BY <1>4 DEF KeepsSteps

-----------------------------------------------------------------------------
(* One verdict                                                             *)
(*                                                                         *)
(* This part needs neither a sweep's thread lock nor ParkedStep: whatever  *)
(* agents overlap, only the one that holds a task reports its outcome, and *)
(* after that its row changes only within that outcome, but for a          *)
(* completion turn that raised. What an agent carries, means to close or   *)
(* is told therefore stays true of the row until it is written.            *)

\* What a row that an agent once found successful, or failed, may still become.
Succeeded(t) ==
    t \notin unused /\ (row[t] \in {"absent", "result_ready", "resuming", "complete"} \/ t \in spoilt)

Fell(t) == t \notin unused /\ (row[t] \in {"absent", "failed"} \/ t \in spoilt)

Records(t, v) == IF v = "success" THEN Succeeded(t) ELSE Fell(t)

Unreported(t) == row[t] \in {"absent", "pending", "running"}

SpoiltRows == \A t \in spoilt : row[t] \in Reported /\ Announced(t) \subseteq {"success"}

Agreed == \A t \in Tasks : \A v \in Verdicts(t) : Records(t, v)

\* A task without a row was told to no turn, and announced at most once.
Untold ==
    \A t \in Tasks : row[t] = "absent" =>
        told[t] = {} /\ \A v, u \in Announced(t) : v = u

\* A call the thread waits for, or is about to, has a row and its job.
Asked ==
    \A t \in Tasks : t \in parked \/ (\E p \in Procs : t \in agent[p].calls) =>
        row[t] # "absent" /\ ~Fresh(t)

MakingRows == \A p \in Procs : agent[p].making # None => row[agent[p].making] = "pending"

UnusedRows == \A t \in unused : row[t] = "absent"

\* What an agent in state "a" may rely on until it writes.
Says(a) ==
    /\ a.pc \in {"idle", "sweep", "picked", "body", "settle", "failing"} => a.verdict = "success"
    /\ a.pc = "picked" => row[a.hold] \in {"absent", "pending"}
    /\ a.pc = "body" => row[a.hold] \in {"absent", "running"}
    /\ a.pc = "failing" => a.hold \in Tasks /\ row[a.hold] \in {"pending", "running"}
    /\ a.pc \in {"announce", "peek"} => a.hold \in Tasks /\ Records(a.hold, a.verdict)
    /\ a.pc = "announce" /\ a.hold \in spoilt => a.verdict = "success"
    /\ a.pc \in {"picked", "body", "announce"} /\ row[a.hold] = "absent" =>
          announced[a.hold] = <<>>
    /\ \A t \in a.marks \cup a.closing \cup a.fallback : Succeeded(t)

SpokenFor == \A p \in Procs : Says(agent[p])

\* A job no agent took yet.
Waits(t) == \E k \in DOMAIN queue : queue[k] = t /\ (busy => k # 1)

WaitingJobs ==
    \A t \in Tasks : Waits(t) => row[t] \in {"absent", "pending"} /\ announced[t] = <<>>

VerdictInv ==
    /\ SpoiltRows /\ Agreed /\ Untold /\ Asked /\ MakingRows /\ UnusedRows
    /\ SpokenFor /\ WaitingJobs

\* How rows change in one step: only those of "own" start, report or go.
Evolves(own) ==
    /\ \A t \in Tasks : Succeeded(t) => Succeeded(t)'
    /\ \A t \in Tasks : Fell(t) => Fell(t)'
    /\ \A t \in Tasks : row[t] \in Reported => row'[t] \in Reported
    /\ \A t \in Tasks : Unreported(t) /\ t \notin unused \cup own => row'[t] = row[t]
    /\ \A t \in Tasks : row'[t] = "absent" => row[t] = "absent" \/ (row[t] = "pending" /\ Fresh(t))
    /\ unused' \subseteq unused /\ \A t \in unused' : row'[t] = row[t]
    /\ spoilt \subseteq spoilt'
    /\ \A t \in spoilt' : t \in spoilt \/ (Succeeded(t) /\ row[t] # "absent" /\ row'[t] \in Reported)

LEMMA Unwritten == ASSUME UNCHANGED <<row, unused, spoilt>>, NEW own PROVE Evolves(own)
  BY DEF Evolves, Succeeded, Fell, Unreported

\* A task reports, or starts: its row said nothing yet.
LEMMA WroteOwn ==
    ASSUME TypeInv, SpoiltRows, NEW t \in Tasks, NEW s, SetRow(t, s), s # "absent",
           Unreported(t), t \notin unused, UNCHANGED <<unused, spoilt>>
    PROVE  Evolves({t})
  <1>1. /\ \A u \in Tasks : u # t => row'[u] = row[u]
        /\ row'[t] = IF row[t] = "absent" THEN "absent" ELSE s
    BY SetRowIs
  <1>2. row[t] \notin Reported /\ t \notin spoilt /\ spoilt \subseteq Tasks /\ unused \subseteq Tasks
    BY DEF Unreported, Reported, SpoiltRows, TypeInv, TypeOK
  <1> QED
    BY <1>1, <1>2 DEF Evolves, Succeeded, Fell, Unreported

\* A successful task is marked or closed.
LEMMA WroteSuccess ==
    ASSUME TypeInv, SpoiltRows, NEW t \in Tasks, NEW s \in {"resuming", "complete", "failed"},
           SetRow(t, s), Succeeded(t), unused' = unused, NEW own,
           spoilt' = spoilt \/ (row[t] # "absent" /\ spoilt' = spoilt \cup {t}),
           s = "failed" /\ row[t] # "absent" => t \in spoilt'
    PROVE  Evolves(own)
  <1>1. /\ \A u \in Tasks : u # t => row'[u] = row[u]
        /\ row'[t] = IF row[t] = "absent" THEN "absent" ELSE s
    BY SetRowIs
  <1>2. /\ spoilt \subseteq Tasks /\ unused \subseteq Tasks /\ t \notin unused
        /\ \A u \in spoilt : row[u] \in Reported
    BY DEF SpoiltRows, TypeInv, TypeOK, Succeeded
  <1>3. \A u \in Tasks : Succeeded(u) => Succeeded(u)'
    BY <1>1 DEF Succeeded
  <1>4. \A u \in Tasks : Fell(u) => Fell(u)'
    BY <1>1, <1>2 DEF Succeeded, Fell
  <1>5. \A u \in Tasks : row[u] \in Reported => row'[u] \in Reported
    BY <1>1 DEF Reported
  <1>6. \A u \in Tasks : Unreported(u) => row'[u] = row[u]
    <2>1. Unreported(t) => row[t] = "absent"
      BY <1>2 DEF Unreported, Succeeded, Reported
    <2> QED
      BY <1>1, <2>1
  <1>7. \A u \in Tasks : row'[u] = "absent" => row[u] = "absent"
    BY <1>1
  <1>8. \A u \in unused : row'[u] = row[u]
    BY <1>1, <1>2
  <1>9. \A u \in spoilt' : u \in spoilt \/ (Succeeded(u) /\ row[u] # "absent" /\ row'[u] \in Reported)
    BY <1>1 DEF Reported
  <1> QED
    BY <1>3, <1>4, <1>5, <1>6, <1>7, <1>8, <1>9 DEF Evolves

-----------------------------------------------------------------------------
(* What follows from how the rows change *)

\* The history of a task that the step does not announce.
LEMMA Evolved ==
    ASSUME TypeInv, TypeInv', VerdictInv, NEW own, Evolves(own), announced' = announced,
           \A t \in Tasks : \/ told'[t] = told[t]
                            \/ /\ row' = row /\ row[t] # "absent"
                               /\ \A v \in told'[t] : v \in told[t] \/ Records(t, v)
    PROVE  SpoiltRows' /\ Agreed' /\ Untold' /\ UnusedRows'
  <1>0. /\ SpoiltRows /\ Agreed /\ Untold /\ UnusedRows
        /\ spoilt \subseteq Tasks /\ spoilt' \subseteq Tasks /\ unused \subseteq Tasks
    BY DEF VerdictInv, TypeInv, TypeOK
  <1>1. \A t : Announced(t)' = Announced(t)
    BY DEF Announced
  <1>2. \A t \in Tasks : \A v : Records(t, v) => Records(t, v)'
    BY DEF Evolves, Records
  <1>3. Agreed'
    <2> SUFFICES ASSUME NEW t \in Tasks, NEW v \in Verdicts(t)' PROVE Records(t, v)'
      BY DEF Agreed
    <2>1. v \in Verdicts(t) \/ Records(t, v)
      BY <1>1 DEF Verdicts
    <2> QED
      BY <1>0, <1>2, <2>1 DEF Agreed
  <1>4. SpoiltRows'
    <2> SUFFICES ASSUME NEW t \in spoilt' PROVE row'[t] \in Reported /\ Announced(t) \subseteq {"success"}
      BY <1>1 DEF SpoiltRows
    <2>1. CASE t \in spoilt
      BY <1>0, <2>1 DEF SpoiltRows, Evolves
    <2>2. CASE t \notin spoilt
      <3>1. Succeeded(t) /\ row[t] # "absent" /\ row'[t] \in Reported /\ t \in Tasks
        BY <1>0, <2>2 DEF Evolves
      <3>2. ~Fell(t)
        BY <2>2, <3>1 DEF Succeeded, Fell
      <3>3. \A v \in Announced(t) : Records(t, v)
        BY <1>0, <3>1 DEF Agreed, Verdicts
      <3> QED
        BY <3>1, <3>2, <3>3 DEF Records
    <2> QED
      BY <2>1, <2>2
  <1>5. Untold'
    <2> SUFFICES ASSUME NEW t \in Tasks, row'[t] = "absent"
                 PROVE  told'[t] = {} /\ \A v, u \in Announced(t) : v = u
      BY <1>1 DEF Untold
    <2>1. told'[t] = told[t]
      OBVIOUS
    <2>2. CASE row[t] = "absent"
      BY <1>0, <2>1, <2>2 DEF Untold
    <2>3. CASE row[t] = "pending"
      <3>1. \A v : ~Records(t, v)
        BY <1>0, <2>3 DEF Records, Succeeded, Fell, SpoiltRows, Reported
      <3>2. Verdicts(t) = {}
        BY <1>0, <3>1 DEF Agreed
      <3> QED
        BY <2>1, <3>2 DEF Verdicts
    <2> QED
      BY <2>2, <2>3 DEF Evolves
  <1>6. UnusedRows'
    BY <1>0 DEF UnusedRows, Evolves
  <1> QED
    BY <1>3, <1>4, <1>5, <1>6

LEMMA HoldNotFresh ==
    ASSUME TypeInv, LockInv, NEW q \in Procs, agent[q].hold # None
    PROVE  agent[q].hold \in Jobs /\ ~Fresh(agent[q].hold)
  <1>1. agent[q].hold \in Jobs
    BY DEF TypeInv, TypeOK, Agent
  <1>2. CASE q \in Workers
    <2>1. InQueue(agent[q].hold)
      BY <1>2, DoingQueued DEF LockInv, WorkerHolds
    <2> QED
      BY <1>1, <2>1 DEF LockInv, QueuedOnce
  <1>3. CASE q \in Sweepers
    BY <1>1, <1>3 DEF LockInv, SweepLists, Lists
  <1> QED
    BY <1>1, <1>2, <1>3 DEF Procs

LEMMA WaitsUnheld ==
    ASSUME TypeInv, LockInv, NEW t \in Tasks, Waits(t)
    PROVE  ~Fresh(t) /\ \A p \in Procs : agent[p].hold # t
  <1>1. PICK k \in DOMAIN queue : queue[k] = t /\ (busy => k # 1)
    BY DEF Waits
  <1>2. InQueue(t) /\ ~Fresh(t) /\ t \in Jobs
    BY <1>1 DEF InQueue, LockInv, QueuedOnce, Jobs
  <1>3. t \notin Doing
    <2> SUFFICES ASSUME t \in Doing PROVE FALSE
      OBVIOUS
    <2>1. busy /\ queue # <<>> /\ t = Head(queue)
      BY DEF Doing
    <2>2. t = queue[1] /\ 1 \in DOMAIN queue
      BY <2>1, HeadTailProperties, LenProperties, EmptySeq DEF TypeInv, TypeOK
    <2> QED
      BY <1>1, <2>1, <2>2 DEF LockInv, QueuedOnce
  <1>4. \A p \in Procs : agent[p].hold # t
    <2>1. t # None
      BY Identities
    <2> QED
      BY <1>2, <1>3, <2>1 DEF LockInv, WorkerHolds, SweepLists, Lists, Procs
  <1> QED
    BY <1>2, <1>4

\* What an agent says of its rows outlives the rows another agent writes.
LEMMA SaysStill ==
    ASSUME SpoiltRows, NEW own, Evolves(own), NEW b \in Agent, Says(b),
           b.hold \in Tasks => /\ b.hold \notin own /\ ~Fresh(b.hold)
                               /\ announced'[b.hold] = announced[b.hold],
           b.pc \in {"picked", "body"} => b.hold \in Tasks
    PROVE  Says(b)'
  <1>1. b.pc \in {"picked", "body", "failing", "announce", "peek"} => b.hold \in Tasks
    BY DEF Says
  <1>2. b.hold \in Tasks /\ Unreported(b.hold) => row'[b.hold] = row[b.hold]
    BY DEF Evolves, Fresh
  <1>3. b.hold \in Tasks /\ row'[b.hold] = "absent" => row[b.hold] = "absent"
    BY DEF Evolves
  <1>4. b.hold \in Tasks => \A v : Records(b.hold, v) => Records(b.hold, v)'
    BY DEF Evolves, Records
  <1>5. \A t \in b.marks \cup b.closing \cup b.fallback : Succeeded(t)'
    <2>1. \A t \in b.marks \cup b.closing \cup b.fallback : t \in Tasks
      BY DEF Agent
    <2> QED
      BY <2>1 DEF Says, Evolves
  <1>6. b.pc = "announce" /\ b.hold \in spoilt' => b.verdict = "success"
    <2> SUFFICES ASSUME b.pc = "announce", b.hold \in spoilt', b.hold \notin spoilt,
                        b.verdict # "success"
                 PROVE  FALSE
      BY DEF Says
    <2>1. Fell(b.hold)
      BY DEF Says, Records
    <2>2. Succeeded(b.hold) /\ row[b.hold] # "absent"
      BY DEF Evolves
    <2> QED
      BY <2>1, <2>2 DEF Fell, Succeeded
  <1>7. b.pc = "picked" => row'[b.hold] \in {"absent", "pending"}
    BY <1>1, <1>2 DEF Says, Unreported
  <1>8. b.pc = "body" => row'[b.hold] \in {"absent", "running"}
    BY <1>1, <1>2 DEF Says, Unreported
  <1>9. b.pc = "failing" => b.hold \in Tasks /\ row'[b.hold] \in {"pending", "running"}
    BY <1>1, <1>2 DEF Says, Unreported
  <1>10. b.pc \in {"announce", "peek"} => b.hold \in Tasks /\ Records(b.hold, b.verdict)'
    BY <1>1, <1>4 DEF Says
  <1>11. b.pc \in {"picked", "body", "announce"} /\ row'[b.hold] = "absent" =>
            announced'[b.hold] = <<>>
    BY <1>1, <1>3 DEF Says
  <1>12. b.pc \in {"idle", "sweep", "picked", "body", "settle", "failing"} => b.verdict = "success"
    BY DEF Says
  <1> QED
    BY <1>5, <1>6, <1>7, <1>8, <1>9, <1>10, <1>11, <1>12 DEF Says

LEMMA SaysKept ==
    ASSUME UNCHANGED <<row, announced, unused, spoilt>>, NEW a, Says(a) PROVE Says(a)'
  BY DEF Says, Records, Succeeded, Fell

\* An agent that takes no step.
LEMMA OthersSpeak ==
    ASSUME TypeInv, LockInv, VerdictInv, NEW own, Evolves(own), NEW q \in Procs,
           agent'[q] = agent[q], agent[q].hold \notin own,
           agent[q].hold \in Tasks => announced'[agent[q].hold] = announced[agent[q].hold]
    PROVE  Says(agent[q])'
  <1>1. PICK b \in Agent : b = agent[q]
    BY DEF TypeInv, TypeOK
  <1>2. Says(b) /\ SpoiltRows
    BY <1>1 DEF VerdictInv, SpokenFor
  <1>3. b.hold \in Tasks => /\ b.hold \notin own /\ ~Fresh(b.hold)
                            /\ announced'[b.hold] = announced[b.hold]
    <2>1. None \notin Tasks
      BY Identities
    <2> QED
      BY <1>1, <2>1, HoldNotFresh
  <1>4. b.pc \in {"picked", "body"} => b.hold \in Tasks
    BY <1>1 DEF TypeInv, HoldsTask
  <1>5. Says(b)'
    BY <1>2, <1>3, <1>4, SaysStill
  <1> QED
    BY <1>1, <1>5 DEF Says, Records, Succeeded, Fell

LEMMA MakingKept ==
    ASSUME TypeInv, LockInv, VerdictInv, NEW own, Evolves(own),
           \A q \in Procs : agent'[q].making # None =>
               \/ row'[agent'[q].making] = "pending"
               \/ agent'[q].making = agent[q].making /\ agent[q].making \notin own
    PROVE  MakingRows'
  <1> SUFFICES ASSUME NEW q \in Procs, agent'[q].making # None
               PROVE  row'[agent'[q].making] = "pending"
    BY DEF MakingRows
  <1>1. CASE agent'[q].making = agent[q].making /\ agent[q].making \notin own
    <2>1. /\ agent[q].making \in Tasks /\ agent[q].making \notin unused
          /\ row[agent[q].making] = "pending"
      BY <1>1 DEF TypeInv, TypeOK, Agent, LockInv, MadeOnce, VerdictInv, MakingRows
    <2> QED
      BY <1>1, <2>1 DEF Evolves, Unreported
  <1> QED
    BY <1>1

\* No call joins those the thread waits for.
LEMMA AskedKept ==
    ASSUME TypeInv, VerdictInv, NEW own, Evolves(own),
           \A t \in Tasks : Fresh(t)' => Fresh(t),
           \A t \in parked' : t \in parked \/ \E p \in Procs : t \in agent[p].calls,
           \A q \in Procs : agent'[q].calls \subseteq agent[q].calls
    PROVE  Asked'
  <1> SUFFICES ASSUME NEW t \in Tasks, t \in parked' \/ \E p \in Procs : t \in agent'[p].calls
               PROVE  row'[t] # "absent" /\ ~Fresh(t)'
    BY DEF Asked
  <1>1. t \in parked \/ \E p \in Procs : t \in agent[p].calls
    OBVIOUS
  <1>2. row[t] # "absent" /\ ~Fresh(t)
    BY <1>1 DEF VerdictInv, Asked
  <1> QED
    BY <1>2 DEF Evolves

LEMMA WaitingKept ==
    ASSUME TypeInv, LockInv, VerdictInv, NEW own, Evolves(own),
           \A t \in own : t \in Tasks => Fresh(t) \/ \E p \in Procs : agent[p].hold = t,
           \A t \in Tasks : announced'[t] = announced[t] \/ \E p \in Procs : agent[p].hold = t,
           \A t \in Tasks : Waits(t)' =>
               Waits(t) \/ (row'[t] \in {"absent", "pending"} /\ announced'[t] = <<>>)
    PROVE  WaitingJobs'
  <1> SUFFICES ASSUME NEW t \in Tasks, Waits(t)
               PROVE  row'[t] \in {"absent", "pending"} /\ announced'[t] = <<>>
    BY DEF WaitingJobs
  <1>1. ~Fresh(t) /\ \A p \in Procs : agent[p].hold # t
    BY WaitsUnheld
  <1>2. row[t] \in {"absent", "pending"} /\ announced[t] = <<>> /\ t \notin unused
    BY <1>1 DEF VerdictInv, WaitingJobs, Fresh
  <1>3. row'[t] = row[t]
    BY <1>1, <1>2 DEF Evolves, Unreported
  <1> QED
    BY <1>1, <1>2, <1>3

\* A handler: it may write rows of "own", which no other agent holds.
LEMMA VerdictStep ==
    ASSUME TypeInv, TypeInv', LockInv, VerdictInv, NEW p \in Procs, NEW a \in Agent, Become(p, a),
           NEW own, Evolves(own),
           \/ own = {} \/ (own = {agent[p].hold} /\ agent[p].hold \in Tasks)
           \/ (own = {agent[p].making} /\ agent[p].making \in Tasks /\ a.making = None),
           a.making \in {agent[p].making, None} \/ row'[a.making] = "pending",
           announced' = announced,
           \A t \in Tasks : \/ told'[t] = told[t]
                            \/ /\ row' = row /\ row[t] # "absent"
                               /\ \A v \in told'[t] : v \in told[t] \/ Records(t, v),
           Says(a)', Asked',
           \A t \in Tasks : Waits(t)' =>
               Waits(t) \/ (row'[t] \in {"absent", "pending"} /\ announced'[t] = <<>>)
    PROVE  VerdictInv'
  <1>1. agent'[p] = a /\ \A q \in Procs : q # p => agent'[q] = agent[q]
    BY DEF Become, TypeInv, TypeOK
  <1>2. None \notin Tasks /\ \A q \in Procs : agent[q].making \in Tasks \cup {None}
    BY Identities DEF TypeInv, TypeOK, Agent
  <1>3. \A q \in Procs : q # p => agent[q].hold \notin own
    <2> SUFFICES ASSUME NEW q \in Procs, q # p, agent[q].hold \in own PROVE FALSE
      OBVIOUS
    <2>1. agent[q].hold # None
      BY <1>2
    <2>2. ~Fresh(agent[q].hold)
      BY <2>1, HoldNotFresh
    <2>3. CASE own = {agent[p].hold}
      BY <2>1, <2>3, HoldersApart
    <2>4. CASE own = {agent[p].making}
      BY <2>2, <2>4 DEF Fresh
    <2> QED
      BY <2>3, <2>4
  <1>4. ASSUME NEW q \in Procs, agent[q].making # None, agent[q].making \in own
        PROVE  q = p /\ a.making = None
    <2>1. Fresh(agent[q].making)
      BY DEF Fresh
    <2>2. CASE own = {agent[p].hold}
      BY <1>2, <1>4, <2>1, <2>2, HoldNotFresh
    <2>3. CASE own = {agent[p].making} /\ agent[p].making \in Tasks /\ a.making = None
      BY <1>2, <1>4, <2>3 DEF LockInv, MadeOnce
    <2> QED
      BY <1>2, <1>4, <2>2, <2>3
  <1>5. SpokenFor'
    <2> SUFFICES ASSUME NEW q \in Procs PROVE Says(agent[q])'
      BY DEF SpokenFor
    <2>1. CASE q # p
      BY <1>1, <1>3, <2>1, OthersSpeak
    <2>2. CASE q = p
      BY <1>1, <2>2 DEF Says, Records, Succeeded, Fell
    <2> QED
      BY <2>1, <2>2
  <1>6. MakingRows'
    <2>1. ASSUME NEW q \in Procs, agent'[q].making # None
          PROVE  \/ row'[agent'[q].making] = "pending"
                 \/ agent'[q].making = agent[q].making /\ agent[q].making \notin own
      <3>1. CASE q # p
        BY <1>1, <1>4, <2>1, <3>1
      <3>2. CASE q = p
        BY <1>1, <1>4, <2>1, <3>2
      <3> QED
        BY <3>1, <3>2
    <2> QED
      BY <2>1, MakingKept
  <1>7. WaitingJobs'
    <2>1. \A t \in own : t \in Tasks => Fresh(t) \/ \E q \in Procs : agent[q].hold = t
      BY DEF Fresh
    <2> QED
      BY <2>1, WaitingKept
  <1>8. SpoiltRows' /\ Agreed' /\ Untold' /\ UnusedRows'
    BY Evolved
  <1> QED
    BY <1>5, <1>6, <1>7, <1>8 DEF VerdictInv

\* A handler that asks for nothing new.
LEMMA VerdictInside ==
    ASSUME TypeInv, TypeInv', LockInv, VerdictInv, NEW p \in Procs, NEW a \in Agent, Become(p, a),
           NEW own, Evolves(own), own = {} \/ (own = {agent[p].hold} /\ agent[p].hold \in Tasks),
           a.making \in {agent[p].making, None}, a.calls \subseteq agent[p].calls,
           \A t \in parked' : t \in parked \/ t \in agent[p].calls,
           announced' = announced,
           \A t \in Tasks : \/ told'[t] = told[t]
                            \/ /\ row' = row /\ row[t] # "absent"
                               /\ \A v \in told'[t] : v \in told[t] \/ Records(t, v),
           Says(a)', UNCHANGED <<unsent, unused>>,
           \A t \in Tasks : Waits(t)' => Waits(t)
    PROVE  VerdictInv'
  <1>1. \A q \in Procs : agent'[q] = IF q = p THEN a ELSE agent[q]
    BY DEF Become, TypeInv, TypeOK
  <1>2. None \notin Tasks
    BY Identities
  <1>3. \A t \in Tasks : Fresh(t)' => Fresh(t)
    BY <1>1, <1>2 DEF Fresh
  <1>4. Asked'
    BY <1>1, <1>3, AskedKept
  <1> QED
    BY <1>4, VerdictStep

\* A handler that writes no row.
LEMMA VerdictQuiet ==
    ASSUME TypeInv, TypeInv', LockInv, VerdictInv, NEW p \in Procs, NEW a \in Agent, Become(p, a),
           Says(a), a.making \in {agent[p].making, None}, a.calls \subseteq agent[p].calls,
           \A t \in parked' : t \in parked \/ t \in agent[p].calls,
           UNCHANGED <<row, announced, unsent, unused, spoilt>>,
           \A t \in Tasks : \/ told'[t] = told[t]
                            \/ /\ row[t] # "absent"
                               /\ \A v \in told'[t] : v \in told[t] \/ Records(t, v),
           \A t \in Tasks : Waits(t)' => Waits(t)
    PROVE  VerdictInv'
  <1>1. Evolves({})
    BY Unwritten
  <1>2. Says(a)'
    BY SaysKept
  <1> QED
    BY <1>1, <1>2, VerdictInside

LEMMA QueueWaits == ASSUME UNCHANGED <<queue, busy>> PROVE \A t : Waits(t)' => Waits(t)
  BY DEF Waits

LEMMA ReleaseWaits ==
    ASSUME TypeInv, NEW j, Release(j) PROVE \A t : Waits(t)' => Waits(t)
  <1>1. CASE j \in Doing
    <2> SUFFICES ASSUME NEW t, Waits(t)' PROVE Waits(t)
      OBVIOUS
    <2>1. queue \in Seq(Jobs) /\ queue # <<>> /\ queue' = Tail(queue)
      BY <1>1 DEF TypeInv, TypeOK, Release, Doing
    <2>2. PICK k \in DOMAIN queue' : queue'[k] = t
      BY DEF Waits
    <2>3. k + 1 \in DOMAIN queue /\ queue[k + 1] = t /\ k + 1 # 1
      BY <2>1, <2>2, HeadTailProperties, LenProperties
    <2> QED
      BY <2>3 DEF Waits
  <1>2. CASE j \notin Doing
    BY <1>2, QueueWaits DEF Release
  <1> QED
    BY <1>1, <1>2

LEMMA Spoken ==
    ASSUME TypeInv, VerdictInv, NEW p \in Procs
    PROVE  /\ agent[p] \in Agent /\ Says(agent[p]) /\ SpoiltRows /\ Agreed /\ UnusedRows
           /\ agent[p].fallback \subseteq Tasks /\ agent[p].closing \subseteq Tasks
           /\ agent[p].marks \subseteq Tasks
           /\ agent[p].pc \in {"picked", "body"} => agent[p].hold \in Tasks
  BY DEF TypeInv, TypeOK, VerdictInv, SpokenFor, Agent, HoldsTask

Entries(q) == {q[i] : i \in DOMAIN q}

LEMMA NothingIn == ASSUME NEW q \in Seq(Verdict), {q[i] : i \in DOMAIN q} = {} PROVE q = <<>>
  <1> SUFFICES ASSUME q # <<>> PROVE FALSE
    OBVIOUS
  <1>1. Len(q) \in Nat \ {0} /\ DOMAIN q = 1 .. Len(q)
    BY EmptySeq, LenProperties
  <1>2. 1 \in DOMAIN q
    BY <1>1
  <1> QED
    BY <1>2

LEMMA OneMore ==
    ASSUME NEW q \in Seq(Verdict), NEW v \in Verdict, NEW r, r = Append(q, v)
    PROVE  Entries(r) = Entries(q) \cup {v}
  <1>1. /\ Len(q) \in Nat /\ DOMAIN q = 1 .. Len(q) /\ r \in Seq(Verdict)
        /\ Len(r) = Len(q) + 1 /\ \A i \in 1 .. Len(q) : r[i] = q[i]
        /\ r[Len(q) + 1] = v
    BY AppendProperties, LenProperties
  <1>2. DOMAIN r = 1 .. Len(q) + 1
    BY <1>1, LenProperties
  <1>3. Len(q) + 1 \in DOMAIN r /\ \A i \in DOMAIN q : i \in DOMAIN r
    BY <1>1, <1>2
  <1>4. \A i \in DOMAIN r : i \in DOMAIN q \/ i = Len(q) + 1
    BY <1>1, <1>2
  <1> QED
    BY <1>1, <1>3, <1>4 DEF Entries

\* A job that is held, or made, has reported nothing while its row says so.
LEMMA NothingTold ==
    ASSUME TypeInv, VerdictInv, NEW t \in Tasks, row[t] \in {"pending", "running"}
    PROVE  Announced(t) = {} /\ announced[t] = <<>> /\ told[t] = {}
  <1>1. \A v : ~Records(t, v)
    BY DEF VerdictInv, Records, Succeeded, Fell, SpoiltRows, Reported
  <1>2. Verdicts(t) = {}
    BY <1>1 DEF VerdictInv, Agreed
  <1>3. announced[t] \in Seq(Verdict)
    BY DEF TypeInv, TypeOK
  <1>4. Announced(t) = {} /\ told[t] = {}
    BY <1>2 DEF Verdicts
  <1>5. announced[t] = <<>>
    BY <1>3, <1>4, NothingIn DEF Announced
  <1> QED
    BY <1>4, <1>5

-----------------------------------------------------------------------------
(* The body and the report *)

LEMMA VerdictStartBody ==
    ASSUME TypeInv, TypeInv', LockInv, VerdictInv, NEW w \in Workers, StartBody(w) PROVE VerdictInv'
  <1>0. w \in Procs
    BY DEF Procs
  <1>1. PICK b \in Agent : b = agent[w]
    BY <1>0, Spoken
  <1>2. PICK a \in Agent : a = [b EXCEPT !.pc = "body"]
    BY DEF Agent, PC
  <1>3. /\ a.pc = "body" /\ a.hold = b.hold /\ a.verdict = b.verdict /\ a.making = b.making
        /\ a.calls = b.calls /\ a.marks = b.marks /\ a.closing = b.closing
        /\ a.fallback = b.fallback
    BY <1>2 DEF Agent
  <1>4. /\ b.pc = "picked" /\ SetRow(b.hold, "running") /\ Become(w, a)
        /\ UNCHANGED <<announced, parked, told, unsent, unused, queue, busy, spoilt>>
    BY <1>1, <1>2 DEF StartBody, Goto, At
  <1>5. Says(b) /\ SpoiltRows /\ b.hold \in Tasks
    BY <1>0, <1>1, <1>4, Spoken
  <1>6. b.hold \notin unused /\ row[b.hold] \in {"absent", "pending"} /\ b.verdict = "success"
        /\ (row[b.hold] = "absent" => announced[b.hold] = <<>>)
    <2>1. b.hold # None
      BY <1>5, Identities
    <2>2. ~Fresh(b.hold)
      BY <1>0, <1>1, <2>1, HoldNotFresh
    <2> QED
      BY <1>4, <1>5, <2>2 DEF Fresh, Says
  <1>7. Evolves({b.hold})
    BY <1>4, <1>5, <1>6, WroteOwn DEF Unreported
  <1>8. row'[b.hold] \in {"absent", "running"} /\ (row'[b.hold] = "absent" => row[b.hold] = "absent")
    BY <1>4, <1>5, SetRowIs
  <1>9. \A t \in a.marks \cup a.closing \cup a.fallback : Succeeded(t)'
    BY <1>0, <1>1, <1>3, <1>7, Spoken DEF Says, Evolves
  <1>10. Says(a)'
    BY <1>3, <1>4, <1>6, <1>8, <1>9 DEF Says
  <1> QED
    BY <1>0, <1>1, <1>3, <1>4, <1>5, <1>7, <1>10, QueueWaits, VerdictInside

LEMMA VerdictBodyReturns ==
    ASSUME TypeInv, TypeInv', LockInv, VerdictInv, NEW w \in Workers, BodyReturns(w) PROVE VerdictInv'
  <1>0. w \in Procs
    BY DEF Procs
  <1>1. PICK b \in Agent : b = agent[w]
    BY <1>0, Spoken
  <1>2. b.pc = "body" /\ b.hold \in Tasks /\ Says(b) /\ SpoiltRows
    BY <1>0, <1>1, Spoken DEF BodyReturns, At
  <1>3. PICK a \in Agent : a = [b EXCEPT !.pc = "announce", !.fallback = {b.hold}]
    BY <1>2 DEF Agent, PC
  <1>4. /\ a.pc = "announce" /\ a.hold = b.hold /\ a.verdict = b.verdict /\ a.making = b.making
        /\ a.calls = b.calls /\ a.marks = b.marks /\ a.closing = b.closing
        /\ a.fallback = {b.hold}
    BY <1>3 DEF Agent
  <1>5. /\ SetRow(b.hold, "result_ready") /\ Become(w, a)
        /\ UNCHANGED <<announced, parked, told, unsent, unused, queue, busy, spoilt>>
    BY <1>1, <1>3 DEF BodyReturns
  <1>6. b.hold \notin unused /\ row[b.hold] \in {"absent", "running"} /\ b.verdict = "success"
        /\ (row[b.hold] = "absent" => announced[b.hold] = <<>>)
    <2>1. b.hold # None
      BY <1>2, Identities
    <2>2. ~Fresh(b.hold)
      BY <1>0, <1>1, <2>1, HoldNotFresh
    <2> QED
      BY <1>2, <2>2 DEF Fresh, Says
  <1>7. Evolves({b.hold})
    BY <1>2, <1>5, <1>6, WroteOwn DEF Unreported
  <1>8. row'[b.hold] \in {"absent", "result_ready"} /\ (row'[b.hold] = "absent" => row[b.hold] = "absent")
    BY <1>2, <1>5, SetRowIs
  <1>9. Succeeded(b.hold)'
    BY <1>5, <1>6, <1>8 DEF Succeeded
  <1>10. \A t \in a.marks \cup a.closing \cup a.fallback : Succeeded(t)'
    <2>1. \A t \in b.marks \cup b.closing : Succeeded(t)'
      BY <1>0, <1>1, <1>7, Spoken DEF Says, Evolves
    <2> QED
      BY <1>4, <1>9, <2>1
  <1>11. Says(a)'
    BY <1>2, <1>4, <1>5, <1>6, <1>8, <1>9, <1>10 DEF Says, Records
  <1> QED
    BY <1>0, <1>1, <1>2, <1>4, <1>5, <1>7, <1>11, QueueWaits, VerdictInside

LEMMA VerdictFailTask ==
    ASSUME TypeInv, TypeInv', LockInv, VerdictInv, NEW p \in Procs, FailTask(p) PROVE VerdictInv'
  <1>1. PICK b \in Agent : b = agent[p]
    BY Spoken
  <1>2. PICK a \in Agent : a = [b EXCEPT !.pc = "announce", !.verdict = "failed"]
    BY DEF Agent, PC, Verdict
  <1>3. /\ a.pc = "announce" /\ a.hold = b.hold /\ a.verdict = "failed" /\ a.making = b.making
        /\ a.calls = b.calls /\ a.marks = b.marks /\ a.closing = b.closing
        /\ a.fallback = b.fallback
    BY <1>2 DEF Agent
  <1>4. /\ b.pc \in {"body", "failing"} /\ SetRow(b.hold, "failed") /\ Become(p, a)
        /\ UNCHANGED <<announced, parked, told, unsent, unused, queue, busy, spoilt>>
    BY <1>1, <1>2 DEF FailTask
  <1>5. Says(b) /\ SpoiltRows
    BY <1>1, Spoken
  <1>6. b.hold \in Tasks /\ Unreported(b.hold) /\ (row[b.hold] = "absent" => announced[b.hold] = <<>>)
    <2>1. CASE b.pc = "body"
      <3>1. b.hold \in Tasks
        BY <1>1, <2>1, Spoken
      <3> QED
        BY <1>5, <2>1, <3>1 DEF Says, Unreported
    <2>2. CASE b.pc = "failing"
      BY <1>5, <2>2 DEF Says, Unreported
    <2> QED
      BY <1>4, <2>1, <2>2
  <1>7. b.hold \notin unused /\ b.hold \notin spoilt
    <2>1. b.hold # None
      BY <1>6, Identities
    <2>2. ~Fresh(b.hold)
      BY <1>1, <2>1, HoldNotFresh
    <2>3. b.hold \notin spoilt
      BY <1>5, <1>6 DEF SpoiltRows, Unreported, Reported
    <2> QED
      BY <2>2, <2>3 DEF Fresh
  <1>8. Evolves({b.hold})
    BY <1>4, <1>5, <1>6, <1>7, WroteOwn
  <1>9. row'[b.hold] \in {"absent", "failed"} /\ (row'[b.hold] = "absent" => row[b.hold] = "absent")
    BY <1>4, <1>6, SetRowIs
  <1>10. Fell(b.hold)'
    BY <1>4, <1>7, <1>9 DEF Fell
  <1>11. \A t \in a.marks \cup a.closing \cup a.fallback : Succeeded(t)'
    BY <1>1, <1>3, <1>8, Spoken DEF Says, Evolves
  <1>12. Says(a)'
    BY <1>3, <1>4, <1>6, <1>7, <1>9, <1>10, <1>11 DEF Says, Records
  <1> QED
    BY <1>1, <1>3, <1>4, <1>6, <1>8, <1>12, QueueWaits, VerdictInside

\* What is announced is what the row records.
LEMMA VerdictAnnounce ==
    ASSUME TypeInv, TypeInv', LockInv, VerdictInv, NEW p \in Procs, Announce(p) PROVE VerdictInv'
  <1>1. PICK b \in Agent : b = agent[p]
    BY Spoken
  <1>2. PICK a \in Agent : a = [b EXCEPT !.pc = "peek"]
    BY DEF Agent, PC
  <1>3. /\ a.pc = "peek" /\ a.hold = b.hold /\ a.verdict = b.verdict /\ a.making = b.making
        /\ a.calls = b.calls /\ a.marks = b.marks /\ a.closing = b.closing
        /\ a.fallback = b.fallback
    BY <1>2 DEF Agent
  <1>4. /\ b.pc = "announce" /\ Become(p, a)
        /\ announced' = [announced EXCEPT ![b.hold] = Append(@, b.verdict)]
        /\ UNCHANGED <<row, parked, told, unsent, unused, queue, busy, spoilt>>
    BY <1>1, <1>2 DEF Announce, Goto, At
  <1>5. /\ Says(b) /\ b.hold \in Tasks /\ b.hold # None /\ Records(b.hold, b.verdict)
        /\ b.verdict \in Verdict
    <2>1. Says(b)
      BY <1>1, Spoken
    <2>2. b.hold \in Tasks /\ Records(b.hold, b.verdict)
      BY <1>4, <2>1 DEF Says
    <2> QED
      BY <2>1, <2>2, Identities DEF Agent
  <1>6. /\ \A t \in Tasks : t # b.hold => announced'[t] = announced[t] /\ Announced(t)' = Announced(t)
        /\ Announced(b.hold)' = Announced(b.hold) \cup {b.verdict}
    <2>1. announced \in [Tasks -> Seq(Verdict)]
      BY DEF TypeInv, TypeOK
    <2>2. \A t \in Tasks : t # b.hold => announced'[t] = announced[t]
      BY <1>4, <2>1
    <2>3. announced'[b.hold] = Append(announced[b.hold], b.verdict) /\ announced[b.hold] \in Seq(Verdict)
      BY <1>4, <1>5, <2>1
    <2>4. Announced(b.hold)' = Announced(b.hold) \cup {b.verdict}
      <3>1. \A r : r = Append(announced[b.hold], b.verdict) =>
                      Entries(r) = Entries(announced[b.hold]) \cup {b.verdict}
        BY <1>5, <2>3, OneMore
      <3>2. Entries(announced'[b.hold]) = Entries(announced[b.hold]) \cup {b.verdict}
        BY <2>3, <3>1
      <3>3. Announced(b.hold)' = Entries(announced'[b.hold]) /\ Announced(b.hold) = Entries(announced[b.hold])
        BY DEF Announced, Entries
      <3> QED
        BY <3>2, <3>3
    <2> QED
      BY <2>2, <2>4 DEF Announced
  <1>7. Evolves({})
    BY <1>4, Unwritten
  <1>8. \A t \in Tasks : \A v : Records(t, v)' = Records(t, v)
    BY <1>4 DEF Records, Succeeded, Fell
  <1>9. Agreed'
    <2> SUFFICES ASSUME NEW t \in Tasks, NEW v \in Verdicts(t)' PROVE Records(t, v)
      BY <1>8 DEF Agreed
    <2>1. v \in Verdicts(t) \/ (t = b.hold /\ v = b.verdict)
      BY <1>4, <1>6 DEF Verdicts
    <2> QED
      BY <1>5, <2>1 DEF VerdictInv, Agreed
  <1>10. SpoiltRows'
    <2> SUFFICES ASSUME NEW t \in spoilt PROVE row[t] \in Reported /\ Announced(t)' \subseteq {"success"}
      BY <1>4 DEF SpoiltRows
    <2>1. t \in Tasks /\ row[t] \in Reported /\ Announced(t) \subseteq {"success"}
      BY DEF VerdictInv, SpoiltRows, TypeInv, TypeOK
    <2>2. t = b.hold => b.verdict = "success"
      BY <1>4, <1>5 DEF Says
    <2> QED
      BY <1>6, <2>1, <2>2
  <1>11. Untold'
    <2> SUFFICES ASSUME NEW t \in Tasks, row[t] = "absent"
                 PROVE  told[t] = {} /\ \A v, u \in Announced(t)' : v = u
      BY <1>4 DEF Untold
    <2>1. told[t] = {} /\ \A v, u \in Announced(t) : v = u
      BY DEF VerdictInv, Untold
    <2>2. t = b.hold => Announced(t) = {}
      <3>1. t = b.hold => announced[t] = <<>>
        BY <1>4, <1>5 DEF Says
      <3> QED
        BY <3>1, EmptySeq DEF Announced
    <2> QED
      BY <1>6, <2>1, <2>2
  <1>12. \A q \in Procs : q # p => agent'[q] = agent[q] /\ agent[q].hold # b.hold
    <2>1. \A q \in Procs : q # p => agent'[q] = agent[q]
      BY <1>4 DEF Become, TypeInv, TypeOK
    <2> QED
      BY <1>1, <1>5, <2>1, HoldersApart
  <1>13. Says(a)'
    <2>1. \A t \in a.marks \cup a.closing \cup a.fallback : Succeeded(t)'
      BY <1>1, <1>3, <1>7, Spoken DEF Says, Evolves
    <2>2. Records(a.hold, a.verdict)'
      BY <1>3, <1>5, <1>8
    <2> QED
      BY <1>3, <1>5, <2>1, <2>2 DEF Says
  <1>14. SpokenFor'
    <2> SUFFICES ASSUME NEW q \in Procs PROVE Says(agent[q])'
      BY DEF SpokenFor
    <2>1. CASE q # p
      BY <1>6, <1>7, <1>12, <2>1, OthersSpeak
    <2>2. CASE q = p
      <3>1. agent'[p] = a
        BY <1>4 DEF Become, TypeInv, TypeOK
      <3> QED
        BY <1>13, <2>2, <3>1 DEF Says, Records, Succeeded, Fell
    <2> QED
      BY <2>1, <2>2
  <1>15. MakingRows'
    <2>1. \A q \in Procs : agent'[q].making = agent[q].making
      BY <1>1, <1>3, <1>4 DEF Become, TypeInv, TypeOK
    <2> QED
      BY <1>4, <2>1 DEF VerdictInv, MakingRows
  <1>16. Asked'
    <2>1. \A q \in Procs : agent'[q].calls = agent[q].calls /\ agent'[q].making = agent[q].making
      BY <1>1, <1>3, <1>4 DEF Become, TypeInv, TypeOK
    <2>2. \A t \in Tasks : Fresh(t)' => Fresh(t)
      BY <1>4, <2>1 DEF Fresh
    <2> QED
      BY <1>4, <1>7, <2>1, <2>2, AskedKept
  <1>17. WaitingJobs'
    <2>1. \A t \in Tasks : announced'[t] = announced[t] \/ \E q \in Procs : agent[q].hold = t
      BY <1>1, <1>6
    <2> QED
      BY <1>4, <1>7, <2>1, QueueWaits, WaitingKept
  <1>18. UnusedRows'
    BY <1>4 DEF VerdictInv, UnusedRows
  <1> QED
    BY <1>9, <1>10, <1>11, <1>14, <1>15, <1>16, <1>17, <1>18 DEF VerdictInv

-----------------------------------------------------------------------------
(* The answer *)

\* What a record hands on: the rows it means to write were there already.
LEMMA VerdictCloses ==
    ASSUME TypeInv, TypeInv', LockInv, VerdictInv, NEW p \in Procs, NEW rows \in SUBSET Tasks,
           NEW failed \in BOOLEAN, CloseRows(p, rows, failed),
           rows \subseteq agent[p].closing \cup agent[p].fallback,
           UNCHANGED <<row, announced, parked, told, unsent, unused, queue, busy, spoilt>>
    PROVE  VerdictInv'
  <1>1. PICK b \in Agent : b = agent[p]
    BY Spoken
  <1>2. PICK s \in {"finish", "close"} : s = IF rows = {} THEN "finish" ELSE "close"
    OBVIOUS
  <1>3. PICK a \in Agent : a = [b EXCEPT !.pc = s, !.closing = rows, !.marks = {}, !.fallback = {},
                                         !.erred = failed, !.calls = {}, !.making = None]
    BY <1>2 DEF Agent, PC
  <1>4. /\ a.pc = s /\ a.marks = {} /\ a.closing = rows /\ a.fallback = {}
        /\ a.calls = {} /\ a.making = None
    BY <1>3 DEF Agent
  <1>5. Become(p, a)
    BY <1>1, <1>2, <1>3 DEF CloseRows
  <1>6. Says(a)
    <2>1. \A t \in rows : Succeeded(t)
      BY Spoken DEF Says
    <2> QED
      BY <1>2, <1>4, <2>1 DEF Says
  <1> QED
    BY <1>4, <1>5, <1>6, QueueWaits, VerdictQuiet

LEMMA VerdictLeaves ==
    ASSUME TypeInv, TypeInv', LockInv, VerdictInv, NEW p \in Procs,
           NothingParked(p) \/ WaitForSiblings(p) \/ CompletionTurnRaises(p)
    PROVE  VerdictInv'
  <1>1. /\ agent[p].fallback \in SUBSET Tasks
        /\ UNCHANGED <<row, announced, parked, told, unsent, unused, queue, busy, spoilt>>
    BY Spoken DEF NothingParked, WaitForSiblings, CompletionTurnRaises
  <1>2. \E rows \in SUBSET Tasks, f \in BOOLEAN :
           CloseRows(p, rows, f) /\ rows \subseteq agent[p].closing \cup agent[p].fallback
    <2>1. {} \in SUBSET Tasks /\ {} \subseteq agent[p].closing \cup agent[p].fallback
      OBVIOUS
    <2>2. CASE NothingParked(p)
      BY <1>1, <2>2 DEF NothingParked
    <2>3. CASE WaitForSiblings(p)
      BY <2>1, <2>3 DEF WaitForSiblings
    <2>4. CASE CompletionTurnRaises(p)
      BY <1>1, <2>4 DEF CompletionTurnRaises
    <2> QED
      BY <2>2, <2>3, <2>4
  <1> QED
    BY <1>1, <1>2, VerdictCloses

LEMMA EndsWith ==
    ASSUME TypeInv, VerdictInv, NEW p \in Procs, NEW failed \in BOOLEAN, EndTurn(p, failed)
    PROVE  \E rows \in SUBSET Tasks :
              CloseRows(p, rows, failed) /\ rows \subseteq agent[p].closing \cup agent[p].fallback
  BY Spoken DEF EndTurn

LEMMA VerdictEnds ==
    ASSUME TypeInv, TypeInv', LockInv, VerdictInv, NEW p \in Procs, Finalize(p) \/ TurnRaises(p)
    PROVE  VerdictInv'
  <1>1. UNCHANGED <<row, announced, parked, told, unsent, unused, queue, busy, spoilt>>
    BY DEF Finalize, TurnRaises
  <1>2. PICK f \in BOOLEAN : EndTurn(p, f)
    BY DEF Finalize, TurnRaises
  <1> QED
    BY <1>1, <1>2, EndsWith, VerdictCloses

LEMMA VerdictGather ==
    ASSUME TypeInv, TypeInv', LockInv, VerdictInv, NEW p \in Procs, Gather(p) PROVE VerdictInv'
  <1>1. PICK b \in Agent : b = agent[p]
    BY Spoken
  <1>2. PICK d \in SUBSET Tasks : d = {t \in parked : AnswerOf(p, t) = "success"}
    BY DEF TypeInv, TypeOK
  <1>3. PICK s \in {"turn", "marking"} : s = IF d = {} THEN "turn" ELSE "marking"
    OBVIOUS
  <1>4. PICK a \in Agent : a = [b EXCEPT !.pc = s, !.marks = d, !.closing = d]
    BY <1>3 DEF Agent, PC
  <1>5. /\ a.pc = s /\ a.making = b.making /\ a.calls = b.calls /\ a.marks = d /\ a.closing = d
        /\ a.fallback = b.fallback
    BY <1>4 DEF Agent
  <1>6. /\ b.pc = "peek" /\ b.hold \in parked /\ AllReported(p) /\ Become(p, a)
        /\ told' = [t \in Tasks |-> IF t \in parked THEN told[t] \cup {AnswerOf(p, t)} ELSE told[t]]
        /\ UNCHANGED <<row, announced, parked, unsent, unused, queue, busy, spoilt>>
    BY <1>1, <1>2, <1>3, <1>4 DEF Gather, At
  <1>7. Says(b)
    BY <1>1, Spoken
  <1>8. \A t \in parked : t \in Tasks /\ row[t] # "absent" /\ t \notin unused
    BY DEF TypeInv, TypeOK, VerdictInv, Asked, UnusedRows
  <1>9. \A t \in parked : Records(t, AnswerOf(p, t))
    <2> SUFFICES ASSUME NEW t \in parked PROVE Records(t, AnswerOf(p, t))
      OBVIOUS
    <2>1. CASE t = b.hold
      BY <1>1, <1>6, <1>7, <2>1 DEF AnswerOf, Says
    <2>2. CASE t # b.hold
      <3>1. row[t] \in Reported /\ t \notin unused
        BY <1>1, <1>6, <1>8, <2>2 DEF AllReported
      <3>2. AnswerOf(p, t) = IF row[t] = "failed" THEN "failed" ELSE "success"
        BY <1>1, <2>2 DEF AnswerOf
      <3> QED
        BY <3>1, <3>2 DEF Records, Succeeded, Fell, Reported
    <2> QED
      BY <2>1, <2>2
  <1>10. Says(a)
    <2>1. \A t \in d : Succeeded(t)
      BY <1>2, <1>9 DEF Records
    <2>2. \A t \in b.fallback : Succeeded(t)
      BY <1>7 DEF Says
    <2> QED
      BY <1>3, <1>5, <2>1, <2>2 DEF Says
  <1>11. \A t \in Tasks : \/ told'[t] = told[t]
                          \/ /\ row[t] # "absent"
                             /\ \A v \in told'[t] : v \in told[t] \/ Records(t, v)
    BY <1>6, <1>8, <1>9
  <1> QED
    BY <1>1, <1>5, <1>6, <1>10, <1>11, QueueWaits, VerdictQuiet

LEMMA VerdictMarkResuming ==
    ASSUME TypeInv, TypeInv', LockInv, VerdictInv, NEW p \in Procs, NEW t \in Tasks,
           MarkResuming(p, t)
    PROVE  VerdictInv'
  <1>1. PICK b \in Agent : b = agent[p]
    BY Spoken
  <1>2. PICK s \in {"turn", "marking"} : s = IF b.marks = {t} THEN "turn" ELSE "marking"
    OBVIOUS
  <1>3. PICK a \in Agent : a = [b EXCEPT !.marks = @ \ {t}, !.pc = s]
    BY <1>2 DEF Agent, PC
  <1>4. /\ a.pc = s /\ a.making = b.making /\ a.calls = b.calls /\ a.marks = b.marks \ {t}
        /\ a.closing = b.closing /\ a.fallback = b.fallback
    BY <1>3 DEF Agent
  <1>5. /\ t \in b.marks /\ SetRow(t, "resuming") /\ b.pc = "marking"
        /\ UNCHANGED <<announced, parked, told, unsent, unused, queue, busy, spoilt>>
        /\ Become(p, [b EXCEPT !.marks = @ \ {t}, !.pc = IF b.marks = {t} THEN "turn" ELSE @])
    BY <1>1 DEF MarkResuming, At
  <1>6. Become(p, a)
    BY <1>2, <1>3, <1>5
  <1>7. Succeeded(t) /\ SpoiltRows
    BY <1>1, <1>5, Spoken DEF Says
  <1>8. Evolves({})
    BY <1>5, <1>7, WroteSuccess
  <1>9. Says(a)'
    <2>1. \A u \in a.marks \cup a.closing \cup a.fallback : Succeeded(u)'
      BY <1>1, <1>4, <1>8, Spoken DEF Says, Evolves
    <2> QED
      BY <1>2, <1>4, <2>1 DEF Says
  <1> QED
    BY <1>1, <1>4, <1>5, <1>6, <1>8, <1>9, QueueWaits, VerdictInside

LEMMA VerdictCloseRow ==
    ASSUME TypeInv, TypeInv', LockInv, VerdictInv, NEW p \in Procs, NEW t \in Tasks,
           CloseRow(p, t)
    PROVE  VerdictInv'
  <1>1. PICK b \in Agent : b = agent[p]
    BY Spoken
  <1>2. PICK s \in {"finish", "close"} : s = IF b.closing = {t} THEN "finish" ELSE "close"
    OBVIOUS
  <1>3. PICK a \in Agent : a = [b EXCEPT !.closing = @ \ {t}, !.pc = s]
    BY <1>2 DEF Agent, PC
  <1>4. /\ a.pc = s /\ a.making = b.making /\ a.calls = b.calls /\ a.marks = b.marks
        /\ a.closing = b.closing \ {t} /\ a.fallback = b.fallback
    BY <1>3 DEF Agent
  <1>5. /\ t \in b.closing /\ SetRow(t, IF b.erred THEN "failed" ELSE "complete") /\ b.pc = "close"
        /\ spoilt' = IF b.erred /\ row[t] # "absent" THEN spoilt \cup {t} ELSE spoilt
        /\ UNCHANGED <<announced, parked, told, unsent, unused, queue, busy>>
        /\ Become(p, [b EXCEPT !.closing = @ \ {t}, !.pc = IF b.closing = {t} THEN "finish" ELSE @])
    BY <1>1 DEF CloseRow, At
  <1>6. Become(p, a)
    BY <1>2, <1>3, <1>5
  <1>7. Succeeded(t) /\ SpoiltRows
    BY <1>1, <1>5, Spoken DEF Says
  <1>8. Evolves({})
    <2>1. PICK x \in {"complete", "failed"} : x = IF b.erred THEN "failed" ELSE "complete"
      OBVIOUS
    <2>2. SetRow(t, x) /\ (x = "failed" => b.erred)
      BY <1>5, <2>1
    <2>3. spoilt' = spoilt \/ (row[t] # "absent" /\ spoilt' = spoilt \cup {t})
      BY <1>5
    <2>4. x = "failed" /\ row[t] # "absent" => t \in spoilt'
      BY <1>5, <2>2
    <2> QED
      BY <1>5, <1>7, <2>2, <2>3, <2>4, WroteSuccess
  <1>9. Says(a)'
    <2>1. \A u \in a.marks \cup a.closing \cup a.fallback : Succeeded(u)'
      BY <1>1, <1>4, <1>8, Spoken DEF Says, Evolves
    <2> QED
      BY <1>2, <1>4, <2>1 DEF Says
  <1> QED
    BY <1>1, <1>4, <1>5, <1>6, <1>8, <1>9, QueueWaits, VerdictInside

-----------------------------------------------------------------------------
(* The running turn *)

LEMMA VerdictCreateRow ==
    ASSUME TypeInv, TypeInv', LockInv, VerdictInv, NEW p \in Procs, NEW t \in Tasks,
           CreateRow(p, t)
    PROVE  VerdictInv'
  <1>1. PICK b \in Agent : b = agent[p]
    BY Spoken
  <1>2. PICK a \in Agent : a = [b EXCEPT !.making = t]
    BY DEF Agent
  <1>3. /\ a.pc = b.pc /\ a.making = t /\ a.calls = b.calls /\ a.marks = b.marks
        /\ a.closing = b.closing /\ a.fallback = b.fallback
    BY <1>2 DEF Agent
  <1>4. /\ b.pc = "turn" /\ t \in unused /\ unused' = unused \ {t} /\ Become(p, a)
        /\ row' = [row EXCEPT ![t] = "pending"]
        /\ UNCHANGED <<announced, parked, told, unsent, queue, busy, spoilt>>
    BY <1>1, <1>2 DEF CreateRow, At
  <1>5. row'[t] = "pending" /\ \A u \in Tasks : u # t => row'[u] = row[u]
    BY <1>4 DEF TypeInv, TypeOK
  <1>6. Evolves({})
    <2>1. row[t] = "absent" /\ \A u \in spoilt : u \in Tasks /\ row[u] \in Reported
      BY <1>4 DEF VerdictInv, UnusedRows, SpoiltRows, TypeInv, TypeOK
    <2>2. \A u \in Tasks : Succeeded(u) => Succeeded(u)'
      BY <1>4, <1>5 DEF Succeeded
    <2>3. \A u \in Tasks : Fell(u) => Fell(u)'
      BY <1>4, <1>5 DEF Fell
    <2>4. unused \subseteq Tasks
      BY DEF TypeInv, TypeOK
    <2>5. \A u \in Tasks : row[u] \in Reported => row'[u] \in Reported
      BY <1>5, <2>1 DEF Reported
    <2>6. \A u \in spoilt' : u \in spoilt
      BY <1>4
    <2> QED
      BY <1>4, <1>5, <2>2, <2>3, <2>4, <2>5, <2>6 DEF Evolves
  <1>7. Says(a)'
    <2>1. \A u \in a.marks \cup a.closing \cup a.fallback : Succeeded(u)'
      BY <1>1, <1>3, <1>6, Spoken DEF Says, Evolves
    <2> QED
      BY <1>3, <1>4, <2>1 DEF Says
  <1>8. Asked'
    <2>1. \A q \in Procs : agent'[q] = IF q = p THEN a ELSE agent[q]
      BY <1>4 DEF Become, TypeInv, TypeOK
    <2>2. \A u \in Tasks : Fresh(u)' => Fresh(u)
      BY <1>3, <1>4, <2>1 DEF Fresh
    <2> QED
      BY <1>1, <1>3, <1>4, <1>6, <2>1, <2>2, AskedKept
  <1>9. a.making \in {agent[p].making, None} \/ row'[a.making] = "pending"
    BY <1>3, <1>5
  <1> QED
    BY <1>4, <1>6, <1>7, <1>8, <1>9, QueueWaits, VerdictStep

LEMMA AppendWaits ==
    ASSUME TypeInv, NEW j \in Jobs, queue' = Append(queue, j), busy' = busy
    PROVE  \A t : Waits(t)' => Waits(t) \/ t = j
  <1> SUFFICES ASSUME NEW t, Waits(t)' PROVE Waits(t) \/ t = j
    OBVIOUS
  <1>1. queue \in Seq(Jobs)
    BY DEF TypeInv, TypeOK
  <1>2. /\ Len(queue) \in Nat /\ DOMAIN queue = 1 .. Len(queue)
        /\ DOMAIN queue' = 1 .. Len(queue) + 1 /\ queue'[Len(queue) + 1] = j
        /\ \A k \in 1 .. Len(queue) : queue'[k] = queue[k]
    BY <1>1, AppendProperties, LenProperties
  <1>3. PICK k \in DOMAIN queue' : queue'[k] = t /\ (busy => k # 1)
    BY DEF Waits
  <1> QED
    BY <1>2, <1>3 DEF Waits

\* The job under way is one the thread's queue and log know nothing of yet.
LEMMA MadeRow ==
    ASSUME TypeInv, LockInv, VerdictInv, NEW p \in Procs, agent[p].making # None
    PROVE  /\ agent[p].making \in Tasks /\ row[agent[p].making] = "pending"
           /\ announced[agent[p].making] = <<>> /\ agent[p].making \notin unused
           /\ Fresh(agent[p].making)
  <1>1. agent[p].making \in Tasks /\ row[agent[p].making] = "pending"
    BY DEF TypeInv, TypeOK, Agent, VerdictInv, MakingRows
  <1>2. agent[p].making \notin unused
    BY <1>1 DEF VerdictInv, UnusedRows
  <1> QED
    BY <1>1, <1>2, NothingTold DEF Fresh

LEMMA VerdictDeferJob ==
    ASSUME TypeInv, TypeInv', LockInv, LockInv', VerdictInv, NEW p \in Procs, DeferJob(p)
    PROVE  VerdictInv'
  <1>1. PICK b \in Agent : b = agent[p]
    BY Spoken
  <1>2. /\ b.pc = "turn" /\ b.making # None /\ queue' = Append(queue, b.making)
        /\ UNCHANGED <<row, announced, parked, told, unsent, unused, busy, spoilt>>
        /\ Become(p, [b EXCEPT !.making = None, !.calls = @ \cup {b.making}])
    BY <1>1 DEF DeferJob, At
  <1>3. /\ b.making \in Tasks /\ row[b.making] = "pending" /\ announced[b.making] = <<>>
        /\ b.making \in Jobs
    BY <1>1, <1>2, MadeRow DEF Jobs
  <1>4. PICK a \in Agent : a = [b EXCEPT !.making = None, !.calls = @ \cup {b.making}]
    BY <1>3 DEF Agent
  <1>5. /\ a.pc = "turn" /\ a.making = None /\ a.calls = b.calls \cup {b.making}
        /\ a.marks = b.marks /\ a.closing = b.closing /\ a.fallback = b.fallback
    BY <1>2, <1>4 DEF Agent
  <1>6. Become(p, a)
    BY <1>2, <1>4
  <1>7. Evolves({})
    BY <1>2, Unwritten
  <1>8. Says(a)'
    <2>1. \A u \in a.marks \cup a.closing \cup a.fallback : Succeeded(u)'
      BY <1>1, <1>5, <1>7, Spoken DEF Says, Evolves
    <2> QED
      BY <1>5, <2>1 DEF Says
  <1>9. \A q \in Procs : agent'[q] = IF q = p THEN a ELSE agent[q]
    BY <1>6 DEF Become, TypeInv, TypeOK
  <1>10. Asked'
    <2> SUFFICES ASSUME NEW t \in Tasks, t \in parked \/ \E q \in Procs : t \in agent'[q].calls
                 PROVE  row[t] # "absent" /\ ~Fresh(t)'
      BY <1>2 DEF Asked
    <2>1. CASE t = b.making
      <3>1. InQueue(t)'
        <4>1. queue \in Seq(Jobs)
          BY DEF TypeInv, TypeOK
        <4>2. Len(queue) \in Nat /\ DOMAIN queue' = 1 .. Len(queue) + 1
              /\ queue'[Len(queue) + 1] = b.making
          BY <1>2, <1>3, <4>1, AppendProperties, LenProperties
        <4> QED
          BY <2>1, <4>2 DEF InQueue
      <3>2. ~Fresh(t)'
        BY <3>1 DEF LockInv, QueuedOnce, Jobs
      <3> QED
        BY <1>3, <2>1, <3>2
    <2>2. CASE t # b.making
      <3>1. t \in parked \/ \E q \in Procs : t \in agent[q].calls
        BY <1>1, <1>5, <1>9, <2>2
      <3>2. row[t] # "absent" /\ ~Fresh(t)
        BY <3>1 DEF VerdictInv, Asked
      <3>3. Fresh(t)' => Fresh(t)
        <4>1. t # None
          BY Identities
        <4> QED
          BY <1>2, <1>5, <1>9, <4>1 DEF Fresh
      <3> QED
        BY <3>2, <3>3
    <2> QED
      BY <2>1, <2>2
  <1>11. \A t \in Tasks : Waits(t)' =>
            Waits(t) \/ (row'[t] \in {"absent", "pending"} /\ announced'[t] = <<>>)
    BY <1>2, <1>3, AppendWaits
  <1> QED
    BY <1>2, <1>5, <1>6, <1>7, <1>8, <1>10, <1>11, VerdictStep

LEMMA VerdictRefuseJob ==
    ASSUME TypeInv, TypeInv', LockInv, VerdictInv, NEW p \in Procs, RefuseJob(p)
    PROVE  VerdictInv'
  <1>1. PICK b \in Agent : b = agent[p]
    BY Spoken
  <1>2. PICK t : t = b.making
    OBVIOUS
  <1>3. /\ b.pc = "turn" /\ t # None /\ EndTurn(p, TRUE)
        /\ row' = [row EXCEPT ![t] = IF @ = "pending" THEN "absent" ELSE @] \/ row' = row
        /\ queue' \in {queue, Append(queue, t)}
        /\ UNCHANGED <<announced, parked, told, unsent, unused, busy, spoilt>>
    BY <1>1, <1>2 DEF RefuseJob, At
  <1>4. /\ t \in Tasks /\ row[t] = "pending" /\ announced[t] = <<>> /\ t \notin unused
        /\ t \in Jobs /\ Fresh(t)
    BY <1>1, <1>2, <1>3, MadeRow DEF Jobs
  <1>5. PICK rows \in SUBSET Tasks :
           CloseRows(p, rows, TRUE) /\ rows \subseteq b.closing \cup b.fallback
    BY <1>1, <1>3, EndsWith
  <1>6. PICK s \in {"finish", "close"} : s = IF rows = {} THEN "finish" ELSE "close"
    OBVIOUS
  <1>7. PICK a \in Agent : a = [b EXCEPT !.pc = s, !.closing = rows, !.marks = {}, !.fallback = {},
                                         !.erred = TRUE, !.calls = {}, !.making = None]
    BY <1>6 DEF Agent, PC
  <1>8. /\ a.pc = s /\ a.marks = {} /\ a.closing = rows /\ a.fallback = {}
        /\ a.calls = {} /\ a.making = None
    BY <1>7 DEF Agent
  <1>9. Become(p, a)
    BY <1>1, <1>5, <1>6, <1>7 DEF CloseRows
  <1>10. row'[t] \in {"absent", "pending"} /\ \A u \in Tasks : u # t => row'[u] = row[u]
    BY <1>3, <1>4 DEF TypeInv, TypeOK
  <1>11. Evolves({t})
    <2>1. \A u \in spoilt : u \in Tasks /\ row[u] \in Reported
      BY DEF VerdictInv, SpoiltRows, TypeInv, TypeOK
    <2>2. ~Succeeded(t) /\ ~Fell(t)
      BY <1>4, <2>1 DEF Succeeded, Fell, Reported
    <2>3. \A u \in Tasks : Succeeded(u) => Succeeded(u)'
      BY <1>3, <1>10, <2>2 DEF Succeeded
    <2>4. \A u \in Tasks : Fell(u) => Fell(u)'
      BY <1>3, <1>10, <2>2 DEF Fell
    <2>5. unused \subseteq Tasks
      BY DEF TypeInv, TypeOK
    <2>6. \A u \in Tasks : row[u] \in Reported => row'[u] \in Reported
      BY <1>4, <1>10 DEF Reported
    <2>7. \A u \in Tasks : row'[u] = "absent" => row[u] = "absent" \/ (row[u] = "pending" /\ Fresh(u))
      BY <1>4, <1>10
    <2> QED
      BY <1>3, <1>4, <1>10, <2>3, <2>4, <2>5, <2>6, <2>7 DEF Evolves
  <1>12. Says(a)'
    <2>1. \A u \in rows : Succeeded(u)'
      BY <1>1, <1>5, <1>11, Spoken DEF Says, Evolves
    <2> QED
      BY <1>6, <1>8, <2>1 DEF Says
  <1>13. Asked'
    <2>1. \A q \in Procs : agent'[q] = IF q = p THEN a ELSE agent[q]
      BY <1>9 DEF Become, TypeInv, TypeOK
    <2>2. \A u \in Tasks : Fresh(u)' => Fresh(u)
      <3>1. None \notin Tasks
        BY Identities
      <3> QED
        BY <1>3, <1>8, <2>1, <3>1 DEF Fresh
    <2>3. \A q \in Procs : agent'[q].calls \subseteq agent[q].calls
      BY <1>8, <2>1
    <2> QED
      BY <1>3, <1>11, <2>2, <2>3, AskedKept
  <1>14. \A u \in Tasks : Waits(u)' =>
            Waits(u) \/ (row'[u] \in {"absent", "pending"} /\ announced'[u] = <<>>)
    <2>1. CASE queue' = queue
      BY <1>3, <2>1, QueueWaits
    <2>2. CASE queue' = Append(queue, t)
      BY <1>3, <1>4, <1>10, <2>2, AppendWaits
    <2> QED
      BY <1>3, <2>1, <2>2
  <1> QED
    BY <1>1, <1>2, <1>3, <1>4, <1>8, <1>9, <1>11, <1>12, <1>13, <1>14, VerdictStep

LEMMA VerdictCheckpoint ==
    ASSUME TypeInv, TypeInv', LockInv, VerdictInv, NEW p \in Procs, Checkpoint(p)
    PROVE  VerdictInv'
  <1>1. PICK b \in Agent : b = agent[p]
    BY Spoken
  <1>2. PICK a \in Agent : a = [b EXCEPT !.pc = "finalize"]
    BY DEF Agent, PC
  <1>3. /\ a.pc = "finalize" /\ a.making = b.making /\ a.calls = b.calls /\ a.marks = b.marks
        /\ a.closing = b.closing /\ a.fallback = b.fallback
    BY <1>2 DEF Agent
  <1>4. /\ parked' \subseteq b.calls /\ Become(p, a)
        /\ UNCHANGED <<row, announced, told, unsent, unused, queue, busy, spoilt>>
    BY <1>1, <1>2 DEF Checkpoint, Goto
  <1>5. Says(a)
    <2>1. Says(b)
      BY <1>1, Spoken
    <2> QED
      BY <1>3, <2>1 DEF Says
  <1> QED
    BY <1>1, <1>3, <1>4, <1>5, QueueWaits, VerdictQuiet

-----------------------------------------------------------------------------
(* Jobs that are taken, left, listed and settled *)

LEMMA VerdictSend ==
    ASSUME TypeInv, LockInv, VerdictInv, NEW c \in Turns, Send(c) PROVE VerdictInv'
  <1>1. /\ queue' = Append(queue, c) /\ unsent' \subseteq unsent
        /\ UNCHANGED <<row, announced, parked, told, unused, busy, agent, spoilt>>
    BY DEF Send
  <1>2. \A t \in Tasks : \A v : Records(t, v)' = Records(t, v)
    BY <1>1 DEF Records, Succeeded, Fell
  <1>3. \A t : Verdicts(t)' = Verdicts(t) /\ Announced(t)' = Announced(t)
    BY <1>1 DEF Verdicts, Announced
  <1>4. Agreed' /\ SpoiltRows' /\ Untold' /\ UnusedRows' /\ MakingRows'
    BY <1>1, <1>2, <1>3 DEF VerdictInv, Agreed, SpoiltRows, Untold, UnusedRows, MakingRows
  <1>5. Asked'
    BY <1>1 DEF VerdictInv, Asked, Fresh
  <1>6. SpokenFor'
    <2> SUFFICES ASSUME NEW q \in Procs PROVE Says(agent[q])'
      BY DEF SpokenFor
    <2>1. Says(agent[q])
      BY DEF VerdictInv, SpokenFor
    <2> QED
      BY <1>1, <2>1 DEF Says, Records, Succeeded, Fell
  <1>7. WaitingJobs'
    <2>1. c \in Jobs /\ c \notin Tasks
      BY Identities DEF Jobs
    <2>2. \A t \in Tasks : Waits(t)' => Waits(t)
      BY <1>1, <2>1, AppendWaits DEF VerdictInv
    <2> QED
      BY <1>1, <2>2 DEF VerdictInv, WaitingJobs
  <1> QED
    BY <1>4, <1>5, <1>6, <1>7 DEF VerdictInv

LEMMA VerdictTake ==
    ASSUME TypeInv, TypeInv', LockInv, VerdictInv, NEW w \in Workers, Take(w) PROVE VerdictInv'
  <1>0. w \in Procs
    BY DEF Procs
  <1>1. /\ ~busy /\ queue # <<>> /\ queue \in Seq(Jobs)
        /\ UNCHANGED <<row, announced, parked, told, unsent, unused, queue, spoilt>>
    BY DEF Take, TypeInv, TypeOK
  <1>2. PICK j \in Jobs : j = Head(queue) /\ 1 \in DOMAIN queue /\ queue[1] = j
    BY <1>1, HeadTailProperties, EmptySeq, LenProperties
  <1>3. PICK s \in {"turn", "picked"} : s = IF j \in Turns THEN "turn" ELSE "picked"
    OBVIOUS
  <1>4. PICK a \in Agent : a = [Idle EXCEPT !.hold = j, !.pc = s]
    BY <1>3, IdleType DEF Agent, PC
  <1>5. /\ a.pc = s /\ a.hold = j /\ a.verdict = "success" /\ a.making = None /\ a.calls = {}
        /\ a.marks = {} /\ a.closing = {} /\ a.fallback = {}
    BY <1>4 DEF Idle
  <1>6. Become(w, a)
    BY <1>2, <1>3, <1>4 DEF Take
  <1>7. Says(a)
    <2>1. j \in Tasks => row[j] \in {"absent", "pending"} /\ announced[j] = <<>>
      BY <1>1, <1>2 DEF VerdictInv, WaitingJobs, Waits
    <2>2. s = "picked" => j \in Tasks
      BY <1>3 DEF Jobs
    <2> QED
      BY <1>3, <1>5, <2>1, <2>2 DEF Says
  <1>8. \A t \in Tasks : Waits(t)' => Waits(t)
    BY <1>1 DEF Waits
  <1> QED
    BY <1>0, <1>1, <1>5, <1>6, <1>7, <1>8, VerdictQuiet

\* An agent that drops its job, or lists jobs.
LEMMA VerdictRests ==
    ASSUME TypeInv, TypeInv', LockInv, VerdictInv, NEW p \in Procs, NEW j,
           NEW c \in {"idle", "sweep"}, NEW l \in SUBSET Jobs,
           Become(p, [Idle EXCEPT !.pc = c, !.seen = l]), UNCHANGED <<queue, busy>> \/ Release(j),
           UNCHANGED <<row, announced, parked, told, unsent, unused, spoilt>>
    PROVE  VerdictInv'
  <1>1. PICK a \in Agent : a = [Idle EXCEPT !.pc = c, !.seen = l]
    BY IdleType DEF Agent, PC
  <1>2. /\ a.pc = c /\ a.verdict = "success" /\ a.making = None /\ a.calls = {}
        /\ a.marks = {} /\ a.closing = {} /\ a.fallback = {}
    BY <1>1 DEF Idle
  <1>3. Says(a)
    BY <1>2 DEF Says
  <1>4. \A t \in Tasks : Waits(t)' => Waits(t)
    BY QueueWaits, ReleaseWaits
  <1> QED
    BY <1>1, <1>2, <1>3, <1>4, VerdictQuiet

LEMMA VerdictIdles ==
    ASSUME TypeInv, TypeInv', LockInv, VerdictInv, NEW p \in Procs, NEW j, Become(p, Idle),
           UNCHANGED <<queue, busy>> \/ Release(j),
           UNCHANGED <<row, announced, parked, told, unsent, unused, spoilt>>
    PROVE  VerdictInv'
  <1>1. PICK a \in Agent : a = Idle
    BY IdleType
  <1>2. /\ a.pc = "idle" /\ a.verdict = "success" /\ a.making = None /\ a.calls = {}
        /\ a.marks = {} /\ a.closing = {} /\ a.fallback = {}
    BY <1>1 DEF Idle
  <1>3. Says(a)
    BY <1>2 DEF Says
  <1>4. \A t \in Tasks : Waits(t)' => Waits(t)
    BY QueueWaits, ReleaseWaits
  <1> QED
    BY <1>1, <1>2, <1>3, <1>4, VerdictQuiet

LEMMA VerdictSweepOn ==
    ASSUME TypeInv, TypeInv', LockInv, VerdictInv, NEW s \in Procs, NEW j, SweepOn(s, j),
           UNCHANGED <<queue, busy>> \/ Release(j),
           UNCHANGED <<row, announced, parked, told, unsent, unused, spoilt>>
    PROVE  VerdictInv'
  <1>1. PICK l \in SUBSET Jobs : l = agent[s].seen \ {j}
    BY Spoken DEF Agent
  <1>2. PICK c \in {"idle", "sweep"} : c = IF l = {} THEN "idle" ELSE "sweep"
    OBVIOUS
  <1>3. Become(s, [Idle EXCEPT !.pc = c, !.seen = l])
    BY <1>1, <1>2 DEF SweepOn
  <1> QED
    BY <1>3, VerdictRests

LEMMA VerdictReleases ==
    ASSUME TypeInv, TypeInv', LockInv, VerdictInv, NEW p \in Procs,
           FinishJob(p) \/ WriteFails(p) \/ ReleaseJob(p) \/ Crash(p)
    PROVE  VerdictInv'
  <1>1. CASE FinishJob(p) \/ WriteFails(p) \/ Crash(p)
    BY <1>1, VerdictIdles DEF FinishJob, WriteFails, Crash
  <1>2. CASE ReleaseJob(p)
    <2>1. /\ Release(agent[p].hold)
          /\ SweepOn(p, agent[p].hold) \/ Become(p, Idle)
          /\ UNCHANGED <<row, announced, parked, told, unsent, unused, spoilt>>
      BY <1>2 DEF ReleaseJob
    <2> QED
      BY <2>1, VerdictIdles, VerdictSweepOn
  <1> QED
    BY <1>1, <1>2

LEMMA VerdictListed ==
    ASSUME TypeInv, TypeInv', LockInv, VerdictInv, NEW s \in Procs,
           List(s) \/ \E j \in Jobs : LeaseTaken(s, j)
    PROVE  VerdictInv'
  <1>1. CASE List(s)
    <2>1. PICK l \in SUBSET Jobs : l = Listed
      BY DoingQueued DEF Listed, Stalled
    <2>2. Become(s, [Idle EXCEPT !.pc = "sweep", !.seen = l]) /\ "sweep" \in {"idle", "sweep"}
          /\ UNCHANGED <<row, announced, parked, told, unsent, unused, queue, busy, spoilt>>
      BY <1>1, <2>1 DEF List
    <2> QED
      BY <2>2, VerdictRests
  <1>2. CASE \E j \in Jobs : LeaseTaken(s, j)
    BY <1>2, VerdictSweepOn DEF LeaseTaken
  <1> QED
    BY <1>1, <1>2

LEMMA VerdictTakeLease ==
    ASSUME TypeInv, TypeInv', LockInv, VerdictInv, NEW s \in Procs, NEW j \in Jobs,
           TakeLease(s, j)
    PROVE  VerdictInv'
  <1>1. PICK b \in Agent : b = agent[s]
    BY Spoken
  <1>2. PICK a \in Agent : a = [b EXCEPT !.pc = "settle", !.hold = j]
    BY DEF Agent, PC
  <1>3. /\ a.pc = "settle" /\ a.verdict = b.verdict /\ a.making = b.making /\ a.calls = b.calls
        /\ a.marks = b.marks /\ a.closing = b.closing /\ a.fallback = b.fallback
    BY <1>2 DEF Agent
  <1>4. /\ b.pc = "sweep" /\ Become(s, a)
        /\ UNCHANGED <<row, announced, parked, told, unsent, unused, queue, busy, spoilt>>
    BY <1>1, <1>2 DEF TakeLease, At
  <1>5. Says(a)
    <2>1. Says(b)
      BY <1>1, Spoken
    <2> QED
      BY <1>3, <1>4, <2>1 DEF Says
  <1> QED
    BY <1>1, <1>3, <1>4, <1>5, QueueWaits, VerdictQuiet

\* A settlement goes on with what the row records.
LEMMA VerdictSettles ==
    ASSUME TypeInv, TypeInv', LockInv, VerdictInv, NEW s \in Procs, At(s, "settle"),
           NEW c \in PC, NEW v \in Verdict, NEW f \in SUBSET Tasks,
           Become(s, [agent[s] EXCEPT !.pc = c, !.verdict = v, !.fallback = f]),
           c \in {"finish", "peek", "announce", "failing"},
           c = "failing" => v = "success" /\ agent[s].hold \in Tasks
                            /\ row[agent[s].hold] \in {"pending", "running"},
           c \in {"peek", "announce"} => agent[s].hold \in Tasks /\ row[agent[s].hold] # "absent"
                                         /\ Records(agent[s].hold, v),
           c = "announce" => v = "success",
           \A t \in f : Succeeded(t),
           UNCHANGED <<row, announced, parked, told, unsent, unused, queue, busy, spoilt>>
    PROVE  VerdictInv'
  <1>1. PICK b \in Agent : b = agent[s]
    BY Spoken
  <1>2. PICK a \in Agent : a = [b EXCEPT !.pc = c, !.verdict = v, !.fallback = f]
    BY DEF Agent
  <1>3. /\ a.pc = c /\ a.hold = b.hold /\ a.verdict = v /\ a.making = b.making
        /\ a.calls = b.calls /\ a.marks = b.marks /\ a.closing = b.closing /\ a.fallback = f
    BY <1>2 DEF Agent
  <1>4. Become(s, a)
    BY <1>1, <1>2
  <1>5. Says(a)
    <2>1. \A t \in b.marks \cup b.closing : Succeeded(t)
      BY <1>1, Spoken DEF Says
    <2> QED
      BY <1>1, <1>3, <2>1 DEF Says
  <1> QED
    BY <1>1, <1>3, <1>4, <1>5, QueueWaits, VerdictQuiet

LEMMA VerdictSettle ==
    ASSUME TypeInv, TypeInv', LockInv, VerdictInv, NEW s \in Procs,
           SettleNothing(s) \/ SettleClosed(s) \/ SettleReported(s) \/ SettleUnreported(s)
    PROVE  VerdictInv'
  <1> DEFINE h == agent[s].hold
             goes(c, v, f) == Become(s, [agent[s] EXCEPT !.pc = c, !.verdict = v, !.fallback = f])
  <1>1. /\ agent[s] \in Agent /\ At(s, "settle") /\ agent[s].verdict = "success"
        /\ UNCHANGED <<row, announced, parked, told, unsent, unused, queue, busy, spoilt>>
    <2>1. At(s, "settle") /\ Says(agent[s]) /\ agent[s] \in Agent
      BY Spoken DEF SettleNothing, SettleClosed, SettleReported, SettleUnreported
    <2> QED
      BY <2>1 DEF Says, At, SettleNothing, SettleClosed, SettleReported, SettleUnreported
  <1>2. agent[s].fallback \in SUBSET Tasks /\ \A t \in agent[s].fallback : Succeeded(t)
    BY Spoken DEF Says
  <1>3. h \in Tasks => h \notin unused
    <2>1. h \in Tasks => h # None
      BY Identities
    <2> QED
      BY <2>1, HoldNotFresh DEF Fresh
  <1>4. CASE SettleNothing(s)
    <2>1. goes("finish", "success", agent[s].fallback)
      BY <1>1, <1>4 DEF SettleNothing, Goto, Agent
    <2> QED
      BY <1>1, <1>2, <2>1, VerdictSettles DEF PC, Verdict
  <1>5. CASE SettleClosed(s)
    <2>1. PICK v \in Verdict : v = IF row[h] = "failed" THEN "failed" ELSE "success"
      BY DEF Verdict
    <2>2. goes("peek", v, agent[s].fallback) /\ h \in Tasks /\ row[h] \in Closed
      BY <1>1, <1>5, <2>1 DEF SettleClosed, Agent
    <2>3. row[h] # "absent" /\ Records(h, v)
      BY <1>3, <2>1, <2>2 DEF Closed, Records, Succeeded, Fell
    <2> QED
      BY <1>1, <1>2, <2>2, <2>3, VerdictSettles DEF PC
  <1>6. CASE SettleReported(s)
    <2>1. goes("announce", "success", {h}) /\ h \in Tasks /\ row[h] \in Active \cap Reported
      BY <1>1, <1>6 DEF SettleReported, Agent
    <2>2. row[h] # "absent" /\ Succeeded(h)
      BY <1>3, <2>1 DEF Active, Reported, Succeeded
    <2>3. /\ Records(h, "success") /\ {h} \in SUBSET Tasks /\ \A t \in {h} : Succeeded(t)
          /\ "announce" \in PC /\ "success" \in Verdict
      BY <2>1, <2>2 DEF PC, Verdict, Records
    <2> HIDE DEF h
    <2> QED
      BY <1>1, <2>1, <2>2, <2>3, VerdictSettles DEF h
  <1>7. CASE SettleUnreported(s)
    <2>1. goes("failing", "success", agent[s].fallback) /\ h \in Tasks /\ row[h] \in Active \ Reported
      BY <1>1, <1>7 DEF SettleUnreported, Goto, Agent
    <2>2. row[h] \in {"pending", "running"} /\ "failing" \in PC /\ "success" \in Verdict
      BY <2>1 DEF Active, Reported, PC, Verdict
    <2> QED
      BY <1>1, <1>2, <2>1, <2>2, VerdictSettles
  <1> QED
    BY <1>4, <1>5, <1>6, <1>7

LEMMA VerdictAnswer ==
    ASSUME TypeInv, TypeInv', LockInv, LockInv', VerdictInv, NEW p \in Procs, Answer(p)
    PROVE  VerdictInv'
  BY VerdictFailTask, VerdictAnnounce, VerdictLeaves, VerdictGather, VerdictMarkResuming,
     VerdictCloseRow, VerdictCreateRow, VerdictDeferJob, VerdictRefuseJob, VerdictCheckpoint,
     VerdictEnds DEF Answer

LEMMA VerdictStutters == ASSUME VerdictInv, UNCHANGED vars PROVE VerdictInv'
  <1>1. UNCHANGED <<row, announced, parked, told, unsent, unused, queue, busy, agent, spoilt>>
    BY DEF vars
  <1>2. \A t \in Tasks : \A v : Records(t, v)' = Records(t, v)
    BY <1>1 DEF Records, Succeeded, Fell
  <1>3. \A t : Verdicts(t)' = Verdicts(t) /\ Announced(t)' = Announced(t)
    BY <1>1 DEF Verdicts, Announced
  <1>4. Agreed' /\ SpoiltRows' /\ Untold' /\ UnusedRows' /\ MakingRows'
    BY <1>1, <1>2, <1>3 DEF VerdictInv, Agreed, SpoiltRows, Untold, UnusedRows, MakingRows
  <1>5. Asked' /\ WaitingJobs'
    BY <1>1 DEF VerdictInv, Asked, Fresh, WaitingJobs, Waits
  <1>6. SpokenFor'
    <2> SUFFICES ASSUME NEW q \in Procs PROVE Says(agent[q])'
      BY DEF SpokenFor
    <2>1. Says(agent[q])
      BY DEF VerdictInv, SpokenFor
    <2> QED
      BY <1>1, <2>1 DEF Says, Records, Succeeded, Fell
  <1> QED
    BY <1>4, <1>5, <1>6 DEF VerdictInv

LEMMA VerdictNext ==
    ASSUME "age" \notin Faults
    PROVE  TypeInv /\ LockInv /\ VerdictInv /\ [Next]_vars => VerdictInv'
  <1> SUFFICES ASSUME TypeInv, LockInv, VerdictInv, [Next]_vars PROVE VerdictInv'
    OBVIOUS
  <1>1. TypeInv' /\ LockInv'
    BY TypeNext, LockNext
  <1>2. ASSUME NEW c \in Turns, Send(c) PROVE VerdictInv'
    BY <1>2, VerdictSend
  <1>3. ASSUME NEW w \in Workers, Work(w) \/ WriteFails(w) PROVE VerdictInv'
    <2>1. w \in Procs
      BY DEF Procs
    <2> QED
      BY <1>1, <1>3, <2>1, VerdictTake, VerdictStartBody, VerdictBodyReturns, VerdictAnswer,
         VerdictReleases DEF Work
  <1>4. ASSUME NEW s \in Sweepers, Sweep(s) PROVE VerdictInv'
    <2>1. s \in Procs
      BY DEF Procs
    <2> QED
      BY <1>1, <1>4, <2>1, VerdictListed, VerdictTakeLease, VerdictSettle, VerdictAnswer,
         VerdictReleases DEF Sweep
  <1>5. ASSUME NEW p \in Procs, Crash(p) PROVE VerdictInv'
    BY <1>1, <1>5, VerdictReleases
  <1> QED
    BY <1>2, <1>3, <1>4, <1>5, VerdictStutters DEF Next

LEMMA VerdictInit == Init => VerdictInv
  <1> SUFFICES ASSUME Init PROVE VerdictInv
    OBVIOUS
  <1>1. \A t \in Tasks : Verdicts(t) = {} /\ Announced(t) = {} /\ row[t] = "absent"
    BY EmptySeq DEF Init, Verdicts, Announced
  <1>2. Agreed /\ SpoiltRows /\ Untold /\ UnusedRows /\ MakingRows
    BY <1>1 DEF Init, Agreed, SpoiltRows, Untold, UnusedRows, MakingRows, Idle
  <1>3. Asked /\ WaitingJobs
    BY EmptySeq DEF Init, Asked, WaitingJobs, Waits, Idle
  <1>4. SpokenFor
    BY DEF Init, SpokenFor, Says, Idle
  <1> QED
    BY <1>2, <1>3, <1>4 DEF VerdictInv

\* Without the age timeout, wherever workers and sweeps die and however they
\* overlap, with refused defers and failed turns, a task has one outcome: what its
\* log announces and what its turns are given agree, but for a task that announced
\* its success and whose own completion turn then raised (runner._settle_row).
THEOREM OneVerdictAlways == ASSUME "age" \notin Faults PROVE Spec => []OneVerdict
  <1>1. TypeInv /\ VerdictInv => OneVerdict
    <2> SUFFICES ASSUME TypeInv, VerdictInv, NEW t \in Tasks
                 PROVE  \/ \A v, u \in Verdicts(t) : v = u
                        \/ t \in spoilt /\ Announced(t) \subseteq {"success"}
      BY DEF OneVerdict
    <2>1. CASE t \in spoilt
      BY <2>1 DEF VerdictInv, SpoiltRows
    <2>2. CASE t \notin spoilt /\ row[t] = "absent"
      BY <2>2 DEF VerdictInv, Untold, Verdicts
    <2>3. CASE t \notin spoilt /\ row[t] # "absent"
      <3>1. \A v \in Verdicts(t) : v \in Verdict /\ Records(t, v)
        <4>1. \A v \in Verdicts(t) : v \in Verdict
          <5>1. announced[t] \in Seq(Verdict) /\ told[t] \subseteq Verdict
            BY DEF TypeInv, TypeOK
          <5> QED
            BY <5>1, LenProperties DEF Verdicts, Announced
        <4> QED
          BY <4>1 DEF VerdictInv, Agreed
      <3>2. ~(Succeeded(t) /\ Fell(t))
        BY <2>3 DEF Succeeded, Fell
      <3>3. \A v \in Verdicts(t) : v = IF Fell(t) THEN "failed" ELSE "success"
        BY <3>1, <3>2 DEF Records, Verdict
      <3> QED
        BY <3>3
    <2> QED
      BY <2>1, <2>2, <2>3
  <1> QED
    BY <1>1, TypeInit, TypeNext, LockInit, LockNext, VerdictInit, VerdictNext, PTL DEF Spec

-----------------------------------------------------------------------------
(* Announced before the turn                                                *)
(*                                                                         *)
(* A reported row was announced, or its agent is about to announce it: that *)
(* agent holds the thread, so no turn opens in between. Where nothing died   *)
(* no job is stalled, so no sweep has anything to do.                        *)

Heard(t)      == announced[t] # <<>>
Announcing(t) == \E p \in Procs : At(p, "announce") /\ agent[p].hold = t

Said   == \A t \in Tasks : row[t] \in Reported => Heard(t) \/ Announcing(t)
Peeked == \A p \in Procs : At(p, "peek") => Heard(agent[p].hold)

Calm ==
    /\ late = {}
    /\ \A s \in Sweepers : agent[s].hold = None /\ agent[s].seen = {}
    /\ \A j \in Doing : \E w \in Workers : agent[w].hold = j

HeardInv == faults = 0 => Said /\ Peeked /\ Calm

\* A handler that keeps its job and its list.
LEMMA CalmKept ==
    ASSUME TypeInv, Calm, NEW p \in Procs, NEW a, Become(p, a),
           a.hold = agent[p].hold, a.seen = agent[p].seen, late' = late, Doing' = Doing
    PROVE  Calm'
  <1>1. \A q \in Procs : agent'[q].hold = agent[q].hold /\ agent'[q].seen = agent[q].seen
    BY DEF Become, TypeInv, TypeOK
  <1> QED
    BY <1>1 DEF Calm, Procs

LEMMA CalmKeeps == ASSUME Calm, Keeps, late' = late PROVE Calm'
  <1>1. Doing' = Doing
    BY DEF Keeps, Doing
  <1> QED
    BY <1>1 DEF Keeps, Calm, Procs

LEMMA CalmAnswer ==
    ASSUME TypeInv, LockInv, Calm, NEW p \in Procs, Answer(p) PROVE Calm'
  <1>1. agent[p] \in Agent /\ QueuedOnce
    BY DEF LockInv, TypeInv, TypeOK
  <1>0. late' = late
    BY DEF Answer, FailTask, Announce, NothingParked, WaitForSiblings, Gather, MarkResuming,
       CloseRow, CreateRow, DeferJob, RefuseJob, Checkpoint, Finalize, CompletionTurnRaises, TurnRaises
  <1>2. ASSUME NEW t \in Tasks, CreateRow(p, t) PROVE Calm'
    <2> DEFINE a == [agent[p] EXCEPT !.making = t]
    <2>1. a.hold = agent[p].hold /\ a.seen = agent[p].seen
      BY <1>1 DEF Agent
    <2>2. Become(p, a) /\ UNCHANGED <<queue, busy>>
      BY <1>2 DEF CreateRow
    <2> HIDE DEF a
    <2>3. Doing' = Doing
      BY <2>2 DEF Doing
    <2> QED
      BY <1>0, <2>1, <2>2, <2>3, CalmKept
  <1>3. agent[p].making \in Tasks => ~InQueue(agent[p].making) /\ agent[p].making \in Jobs
    BY <1>1 DEF QueuedOnce, Fresh, Jobs
  <1>4. CASE DeferJob(p)
    <2> DEFINE a == [agent[p] EXCEPT !.making = None, !.calls = @ \cup {agent[p].making}]
    <2>1. /\ agent[p].making \in Tasks /\ queue' = Append(queue, agent[p].making)
          /\ Become(p, a) /\ busy' = busy
      BY <1>1, <1>4 DEF DeferJob, Agent
    <2>2. a.hold = agent[p].hold /\ a.seen = agent[p].seen
      BY <1>1, <2>1 DEF Agent
    <2> HIDE DEF a
    <2>3. Doing' = Doing
      BY <1>1, <1>3, <2>1, QueueAppends
    <2> QED
      BY <1>0, <2>1, <2>2, <2>3, CalmKept
  <1>5. CASE RefuseJob(p)
    <2>1. /\ agent[p].making \in Tasks /\ queue' \in {queue, Append(queue, agent[p].making)}
          /\ busy' = busy
      BY <1>1, <1>5 DEF RefuseJob, Agent
    <2>2. PICK a \in Agent : /\ Become(p, a) /\ a.making = None
                             /\ a.hold = agent[p].hold /\ a.seen = agent[p].seen
      BY <1>1, <1>5, EndTurnAgent DEF RefuseJob
    <2>3. Doing' = Doing
      <3>1. CASE queue' = queue
        BY <2>1, <3>1 DEF Doing
      <3>2. CASE queue' = Append(queue, agent[p].making)
        BY <1>1, <1>3, <2>1, <3>2, QueueAppends
      <3> QED
        BY <2>1, <3>1, <3>2
    <2> QED
      BY <1>0, <2>2, <2>3, CalmKept
  <1> QED
    BY <1>0, <1>2, <1>4, <1>5, AnswerKeeps, CalmKeeps DEF Answer

LEMMA CalmWork ==
    ASSUME TypeInv, LockInv, Calm, NEW w \in Workers, Work(w) PROVE Calm'
  <1>1. w \in Procs
    BY DEF Procs
  <1>2. CASE Take(w)
    <2> DEFINE a == [Idle EXCEPT !.hold = Head(queue),
                              !.pc = IF Head(queue) \in Turns THEN "turn" ELSE "picked"]
    <2>1. Become(w, a) /\ queue' = queue /\ late' = late
      BY <1>2 DEF Take
    <2>2. a.hold = Head(queue)
      BY DEF Idle
    <2> HIDE DEF a
    <2>3. agent'[w] = a /\ \A s \in Sweepers : agent'[s] = agent[s]
      BY <1>1, <2>1, Identities DEF Become, TypeInv, TypeOK, Procs
    <2> QED
      BY <2>1, <2>2, <2>3 DEF Calm, Doing
  <1>3. CASE FinishJob(w)
    <2>1. agent[w].hold \in Doing
      BY <1>1, <1>3 DEF FinishJob, At, LockInv, HasJob, Resting, WorkerHolds
    <2>2. Doing' = {}
      BY <1>3, <2>1, QueueReleases DEF FinishJob, LockInv
    <2>3. late' = late /\ \A s \in Sweepers : agent'[s] = agent[s]
      BY <1>1, <1>3, Identities DEF FinishJob, Become, TypeInv, TypeOK, Procs
    <2> QED
      BY <2>2, <2>3 DEF Calm
  <1>4. CASE StartBody(w) \/ BodyReturns(w)
    BY <1>4, WorkKeeps, CalmKeeps DEF StartBody, BodyReturns
  <1> QED
    BY <1>1, <1>2, <1>3, <1>4, CalmAnswer DEF Work

\* With nothing stalled a sweep takes no step.
LEMMA CalmSweeps ==
    ASSUME "age" \notin Faults, LockInv, Calm, NEW s \in Sweepers PROVE ~Sweep(s)
  <1>1. s \in Procs /\ Resting(s) /\ agent[s].seen = {}
    BY DEF Calm, LockInv, HasJob, Procs
  <1>2. ~Answer(s)
    BY <1>1, AnswerSpeaks
  <1>3. ~List(s)
    BY DEF List, Listed, Stalled, Calm
  <1>4. \A j \in Jobs : ~TakeLease(s, j) /\ ~LeaseTaken(s, j)
    BY <1>1 DEF TakeLease, LeaseTaken
  <1>5. ~SettleNothing(s) /\ ~SettleClosed(s) /\ ~SettleReported(s) /\ ~SettleUnreported(s)
        /\ ~ReleaseJob(s)
    BY <1>1 DEF Resting, SettleNothing, SettleClosed, SettleReported, SettleUnreported,
                ReleaseJob, At
  <1> QED
    BY <1>2, <1>3, <1>4, <1>5 DEF Sweep

\* A step that neither announces nor comes to the peek.
LEMMA HeardKept ==
    ASSUME TypeInv, Said, Peeked, NEW p \in Procs, NEW a, Become(p, a), ~At(p, "announce"),
           a.pc # "peek", announced' = announced,
           \A t \in Tasks : row'[t] \in Reported =>
               row[t] \in Reported \/ (a.pc = "announce" /\ a.hold = t)
    PROVE  Said' /\ Peeked'
  <1>1. agent'[p] = a /\ \A q \in Procs : q # p => agent'[q] = agent[q]
    BY DEF Become, TypeInv, TypeOK
  <1>2. Peeked'
    BY <1>1 DEF Peeked, At, Heard
  <1>3. ASSUME NEW t \in Tasks, row[t] \in Reported PROVE Heard(t)' \/ Announcing(t)'
    BY <1>1, <1>3 DEF Said, Announcing, Heard, At
  <1>4. ASSUME NEW t \in Tasks, a.pc = "announce" /\ a.hold = t PROVE Announcing(t)'
    BY <1>1, <1>4 DEF Announcing, At
  <1> QED
    BY <1>2, <1>3, <1>4 DEF Said

\* ... and writes no row.
LEMMA HeardQuiet ==
    ASSUME TypeInv, Said, Peeked, NEW p \in Procs, NEW a, Become(p, a), ~At(p, "announce"),
           a.pc # "peek", UNCHANGED <<announced, row>>
    PROVE  Said' /\ Peeked'
  BY HeardKept

\* The row of a task that waits with a result was reported already.
LEMMA WaitingWritten ==
    ASSUME TypeInv, NEW t \in Tasks, NEW s, SetRow(t, s), Waiting(t)
    PROVE  \A u \in Tasks : row'[u] \in Reported => row[u] \in Reported
  <1>1. /\ \A u \in Tasks : u # t => row'[u] = row[u]
        /\ row'[t] = IF row[t] = "absent" THEN "absent" ELSE s
    BY SetRowIs
  <1> QED
    BY <1>1 DEF Waiting, Reported

LEMMA HeardCloseRows ==
    ASSUME TypeInv, Said, Peeked, NEW p \in Procs, NEW rows, NEW failed \in BOOLEAN,
           CloseRows(p, rows, failed), ~At(p, "announce"), announced' = announced,
           \A t \in Tasks : row'[t] \in Reported => row[t] \in Reported
    PROVE  Said' /\ Peeked'
  <1> DEFINE s == IF rows = {} THEN "finish" ELSE "close"
             a == [agent[p] EXCEPT !.pc = s, !.closing = rows, !.marks = {}, !.fallback = {},
                               !.erred = failed, !.calls = {}, !.making = None]
  <1>1. Become(p, a) /\ agent[p] \in Agent
    BY DEF CloseRows, TypeInv, TypeOK
  <1>2. s \notin {"peek", "announce"}
    OBVIOUS
  <1> HIDE DEF s
  <1>3. a.pc # "peek"
    BY <1>1, <1>2 DEF Agent
  <1> HIDE DEF a
  <1> QED
    BY <1>1, <1>3, HeardKept

LEMMA HeardEndTurn ==
    ASSUME TypeInv, Said, Peeked, NEW p \in Procs, NEW failed \in BOOLEAN, EndTurn(p, failed),
           ~At(p, "announce"), announced' = announced,
           \A t \in Tasks : row'[t] \in Reported => row[t] \in Reported
    PROVE  Said' /\ Peeked'
  BY HeardCloseRows DEF EndTurn

LEMMA HeardAnnounce ==
    ASSUME TypeInv, TypeInv', Said, Peeked, NEW p \in Procs, Announce(p), agent[p].hold \in Tasks,
           \A q \in Procs : At(q, "peek") => agent[q].hold \in Tasks
    PROVE  Said' /\ Peeked'
  <1> DEFINE h == agent[p].hold
  <1>0. agent[p] \in Agent /\ announced \in [Tasks -> Seq(Verdict)] /\ agent[p].verdict \in Verdict
    BY DEF TypeInv, TypeOK, Agent
  <1>1. /\ agent' = [agent EXCEPT ![p] = [agent[p] EXCEPT !.pc = "peek"]]
        /\ announced' = [announced EXCEPT ![h] = Append(@, agent[p].verdict)] /\ row' = row
    BY DEF Announce, Goto, Become
  <1>2. agent'[p].hold = h /\ \A q \in Procs : q # p => agent'[q] = agent[q]
    BY <1>0, <1>1 DEF TypeInv, TypeOK, Agent
  <1>3. \A t \in Tasks : t # h => announced'[t] = announced[t]
    BY <1>0, <1>1
  <1>4. announced'[h] # <<>>
    <2>1. announced'[h] = Append(announced[h], agent[p].verdict) /\ announced[h] \in Seq(Verdict)
      BY <1>0, <1>1
    <2> HIDE DEF h
    <2> QED
      BY <1>0, <2>1, AppendProperties
  <1> HIDE DEF h
  <1>5. \A t \in Tasks : Heard(t) => announced'[t] # <<>>
    BY <1>3, <1>4 DEF Heard
  <1>6. Peeked'
    <2> SUFFICES ASSUME NEW q \in Procs, At(q, "peek")' PROVE announced'[agent'[q].hold] # <<>>
      BY DEF Peeked, Heard
    <2>1. CASE q = p
      BY <1>2, <1>4, <2>1
    <2>2. CASE q # p
      <3>1. At(q, "peek") /\ agent'[q].hold = agent[q].hold /\ Heard(agent[q].hold)
        BY <1>2, <2>2 DEF At, Peeked
      <3> QED
        BY <1>5, <3>1
    <2> QED
      BY <2>1, <2>2
  <1>7. Said'
    <2> SUFFICES ASSUME NEW t \in Tasks, row'[t] \in Reported
                 PROVE  announced'[t] # <<>> \/ Announcing(t)'
      BY DEF Said, Heard
    <2>1. CASE t = h
      BY <1>4, <2>1
    <2>2. CASE t # h
      <3>1. Heard(t) \/ Announcing(t)
        <4>1. row[t] \in Reported
          BY <1>1
        <4> QED
          BY <4>1 DEF Said
      <3>2. Announcing(t) => Announcing(t)'
        <4> SUFFICES ASSUME NEW q \in Procs, At(q, "announce"), agent[q].hold = t
                     PROVE  Announcing(t)'
          BY DEF Announcing
        <4>1. agent'[q] = agent[q]
          BY <1>2, <2>2 DEF h
        <4> QED
          BY <4>1 DEF Announcing, At
      <3> QED
        BY <1>5, <3>1, <3>2
    <2> QED
      BY <2>1, <2>2
  <1> QED
    BY <1>6, <1>7


\* What one agent does inside a job, the settlement of a closed row aside.
LEMMA HeardAnswer ==
    ASSUME StepsInv, TypeInv', Said, Peeked, NEW p \in Procs, Alone(p), Answer(p)
    PROVE  Said' /\ Peeked'
  <1>1. TypeInv /\ AgentRow(p) /\ agent[p] \in Agent
    BY Here
  <1>2. CASE FailTask(p)
    <2> DEFINE a == [agent[p] EXCEPT !.pc = "announce", !.verdict = "failed"]
    <2>1. /\ agent[p].pc \in {"body", "failing"} /\ SetRow(agent[p].hold, "failed")
          /\ Become(p, a) /\ announced' = announced
      BY <1>2 DEF FailTask
    <2>2. agent[p].hold \in Tasks /\ a.pc = "announce" /\ a.hold = agent[p].hold
      BY <1>1, <2>1 DEF TypeInv, HoldsTask, AgentRow, HeldRow, At, Agent
    <2>3. \A t \in Tasks : row'[t] \in Reported => row[t] \in Reported \/ t = agent[p].hold
      BY <1>1, <2>1, <2>2, SetRowIs
    <2>4. ~At(p, "announce")
      BY <2>1 DEF At
    <2> HIDE DEF a
    <2> QED
      BY <1>1, <2>1, <2>2, <2>3, <2>4, HeardKept
  <1>3. CASE Announce(p)
    <2>1. \A q \in Procs : q = p \/ ~At(q, "peek")
      BY DEF Alone, StepsInv, LockInv, HasJob, Resting, At
    <2>2. agent[p].hold \in Tasks
      BY <1>1, <1>3 DEF AgentRow, HeldRow, Announce, At
    <2> QED
      BY <1>1, <1>3, <2>1, <2>2, HeardAnnounce
  <1>4. CASE NothingParked(p) \/ WaitForSiblings(p) \/ CompletionTurnRaises(p)
    <2>1. ~At(p, "announce") /\ UNCHANGED <<announced, row>>
      BY <1>4 DEF NothingParked, WaitForSiblings, CompletionTurnRaises, At
    <2> QED
      BY <1>1, <1>4, <2>1, HeardCloseRows DEF NothingParked, WaitForSiblings, CompletionTurnRaises
  <1>5. CASE Gather(p)
    <2> DEFINE delivered == {t \in parked : AnswerOf(p, t) = "success"}
               s == IF delivered = {} THEN "turn" ELSE "marking"
               a == [agent[p] EXCEPT !.pc = s, !.marks = delivered, !.closing = delivered]
    <2>1. ~At(p, "announce") /\ UNCHANGED <<announced, row>> /\ Become(p, a)
      BY <1>5 DEF Gather, At
    <2>2. s # "peek"
      OBVIOUS
    <2> HIDE DEF s
    <2>3. a.pc # "peek"
      BY <1>1, <2>2 DEF Agent
    <2> HIDE DEF a
    <2> QED
      BY <1>1, <2>1, <2>3, HeardQuiet
  <1>6. ASSUME NEW t \in Tasks, MarkResuming(p, t) PROVE Said' /\ Peeked'
    <2> DEFINE s == IF agent[p].marks = {t} THEN "turn" ELSE agent[p].pc
               a == [agent[p] EXCEPT !.marks = @ \ {t}, !.pc = s]
    <2>1. /\ At(p, "marking") /\ t \in agent[p].marks /\ SetRow(t, "resuming")
          /\ Become(p, a) /\ announced' = announced
      BY <1>6 DEF MarkResuming
    <2>2. s # "peek" /\ ~At(p, "announce")
      BY <2>1 DEF At
    <2> HIDE DEF s
    <2>3. a.pc # "peek"
      BY <1>1, <2>2 DEF Agent
    <2>4. Waiting(t)
      BY <1>1, <2>1 DEF AgentRow, Writes
    <2> HIDE DEF a
    <2> QED
      BY <1>1, <2>1, <2>2, <2>3, <2>4, WaitingWritten, HeardKept
  <1>7. ASSUME NEW t \in Tasks, CloseRow(p, t) PROVE Said' /\ Peeked'
    <2> DEFINE s == IF agent[p].closing = {t} THEN "finish" ELSE agent[p].pc
               a == [agent[p] EXCEPT !.closing = @ \ {t}, !.pc = s]
               r == IF agent[p].erred THEN "failed" ELSE "complete"
    <2>1. /\ At(p, "close") /\ t \in agent[p].closing /\ SetRow(t, r)
          /\ Become(p, a) /\ announced' = announced
      BY <1>7 DEF CloseRow
    <2>2. s # "peek" /\ ~At(p, "announce")
      BY <2>1 DEF At
    <2> HIDE DEF s, r
    <2>3. a.pc # "peek"
      BY <1>1, <2>2 DEF Agent
    <2>4. Waiting(t)
      BY <1>1, <2>1 DEF AgentRow, Writes
    <2> HIDE DEF a
    <2> QED
      BY <1>1, <2>1, <2>2, <2>3, <2>4, WaitingWritten, HeardKept
  <1>8. ASSUME NEW t \in Tasks, CreateRow(p, t) PROVE Said' /\ Peeked'
    <2> DEFINE a == [agent[p] EXCEPT !.making = t]
    <2>1. /\ At(p, "turn") /\ row' = [row EXCEPT ![t] = "pending"]
          /\ Become(p, a) /\ announced' = announced
      BY <1>8 DEF CreateRow
    <2>2. a.pc # "peek" /\ ~At(p, "announce")
      BY <1>1, <2>1 DEF Agent, At
    <2>3. \A u \in Tasks : row'[u] \in Reported => row[u] \in Reported
      BY <1>1, <2>1 DEF TypeInv, TypeOK, Reported
    <2> HIDE DEF a
    <2> QED
      BY <1>1, <2>1, <2>2, <2>3, HeardKept
  <1>9. CASE DeferJob(p)
    <2> DEFINE a == [agent[p] EXCEPT !.making = None, !.calls = @ \cup {agent[p].making}]
    <2>1. At(p, "turn") /\ UNCHANGED <<announced, row>> /\ Become(p, a)
      BY <1>9 DEF DeferJob
    <2>2. a.pc # "peek" /\ ~At(p, "announce")
      BY <1>1, <2>1 DEF Agent, At
    <2> HIDE DEF a
    <2> QED
      BY <1>1, <2>1, <2>2, HeardQuiet
  <1>12. CASE Checkpoint(p)
    <2> DEFINE a == [agent[p] EXCEPT !.pc = "finalize"]
    <2>1. At(p, "turn") /\ UNCHANGED <<announced, row>> /\ Become(p, a)
      BY <1>12 DEF Checkpoint, Goto
    <2>2. a.pc # "peek" /\ ~At(p, "announce")
      BY <1>1, <2>1 DEF Agent, At
    <2> HIDE DEF a
    <2> QED
      BY <1>1, <2>1, <2>2, HeardQuiet
  <1>10. CASE RefuseJob(p)
    <2>1. ~At(p, "announce") /\ announced' = announced /\ EndTurn(p, TRUE)
      BY <1>10 DEF RefuseJob, At
    <2>2. row' = row \/ row' = [row EXCEPT ![agent[p].making] =
                                   IF @ = "pending" THEN "absent" ELSE @]
      BY <1>10 DEF RefuseJob
    <2>3. \A u \in Tasks : row'[u] \in Reported => row[u] \in Reported
      BY <1>1, <2>2 DEF TypeInv, TypeOK, Reported
    <2> QED
      BY <1>1, <2>1, <2>3, HeardEndTurn
  <1>11. CASE Finalize(p) \/ TurnRaises(p)
    <2>1. ~At(p, "announce") /\ UNCHANGED <<announced, row>>
      BY <1>11 DEF Finalize, TurnRaises, At
    <2> QED
      BY <1>1, <1>11, <2>1, HeardEndTurn DEF Finalize, TurnRaises
  <1> QED
    BY <1>2, <1>3, <1>4, <1>5, <1>6, <1>7, <1>8, <1>9, <1>10, <1>11, <1>12 DEF Answer

LEMMA HeardBody ==
    ASSUME StepsInv, Said, Peeked, NEW w \in Workers, StartBody(w) \/ BodyReturns(w)
    PROVE  Said' /\ Peeked'
  <1>1. w \in Procs /\ TypeInv /\ agent[w] \in Agent
    BY DEF Procs, StepsInv, TypeInv, TypeOK
  <1>2. agent[w].pc \in {"picked", "body"} /\ announced' = announced
    BY DEF StartBody, BodyReturns, At
  <1>3. agent[w].hold \in Tasks /\ ~At(w, "announce")
    BY <1>1, <1>2 DEF TypeInv, HoldsTask, At
  <1>4. CASE StartBody(w)
    <2> DEFINE a == [agent[w] EXCEPT !.pc = "body"]
    <2>1. Become(w, a) /\ SetRow(agent[w].hold, "running") /\ a.pc # "peek"
      BY <1>1, <1>4 DEF StartBody, Goto, Agent
    <2>2. \A t \in Tasks : row'[t] \in Reported => row[t] \in Reported
      BY <1>1, <1>3, <2>1, SetRowIs DEF Reported
    <2> HIDE DEF a
    <2> QED
      BY <1>1, <1>2, <1>3, <2>1, <2>2, HeardKept
  <1>5. CASE BodyReturns(w)
    <2> DEFINE a == [agent[w] EXCEPT !.pc = "announce", !.fallback = {agent[w].hold}]
    <2>1. Become(w, a) /\ SetRow(agent[w].hold, "result_ready") /\ a.pc = "announce"
          /\ a.hold = agent[w].hold
      BY <1>1, <1>5 DEF BodyReturns, Agent
    <2>2. \A t \in Tasks : row'[t] \in Reported => row[t] \in Reported \/ t = agent[w].hold
      BY <1>1, <1>3, <2>1, SetRowIs
    <2> HIDE DEF a
    <2> QED
      BY <1>1, <1>2, <1>3, <2>1, <2>2, HeardKept
  <1> QED
    BY <1>4, <1>5

LEMMA HeardIdles ==
    ASSUME TypeInv, Said, Peeked, NEW p \in Procs, Become(p, Idle), ~At(p, "announce"),
           UNCHANGED <<announced, row>>
    PROVE  Said' /\ Peeked'
  <1>1. Idle.pc # "peek"
    BY DEF Idle
  <1> QED
    BY <1>1, HeardQuiet

LEMMA HeardNext ==
    ASSUME "age" \notin Faults, LockedInv, TypeInv', late = {} => RowInv, HeardInv, [Next]_vars
    PROVE  HeardInv'
  <1> SUFFICES ASSUME faults' = 0 PROVE Said' /\ Peeked' /\ Calm'
    BY DEF HeardInv
  <1>0. TypeInv /\ LockInv /\ faults \in Nat
    BY DEF LockedInv, TypeInv, TypeOK
  <1>1. \/ UNCHANGED faults
        \/ \E w \in Workers : WriteFails(w)
        \/ \E p \in Procs : Crash(p) \/ RefuseJob(p)
    <2>1. ASSUME NEW p \in Procs, Answer(p), ~RefuseJob(p) PROVE UNCHANGED faults
      BY <2>1 DEF Answer, FailTask, Announce, NothingParked, WaitForSiblings, Gather, MarkResuming,
                  CloseRow, CreateRow, DeferJob, Checkpoint, Finalize, CompletionTurnRaises, TurnRaises
    <2>2. ASSUME NEW w \in Workers, Work(w), ~Answer(w) PROVE UNCHANGED faults
      BY <2>2 DEF Work, Take, StartBody, BodyReturns, FinishJob
    <2>3. ASSUME NEW s \in Sweepers, Sweep(s), ~Answer(s) PROVE UNCHANGED faults
      <3>1. CASE List(s) \/ SettleNothing(s) \/ SettleClosed(s) \/ SettleReported(s) \/ SettleUnreported(s)
        BY <3>1 DEF List, SettleNothing, SettleClosed, SettleReported, SettleUnreported
      <3>2. CASE (\E j \in Jobs : TakeLease(s, j) \/ LeaseTaken(s, j)) \/ ReleaseJob(s)
        BY <3>2 DEF TakeLease, LeaseTaken, ReleaseJob
      <3> QED
        BY <2>3, <3>1, <3>2 DEF Sweep
    <2>4. ASSUME (\E c \in Turns : Send(c)) \/ UNCHANGED vars PROVE UNCHANGED faults
      BY <2>4 DEF Send, vars
    <2> QED
      BY <2>1, <2>2, <2>3, <2>4 DEF Next, Procs
  <1>2. UNCHANGED faults /\ (\A w \in Workers : ~WriteFails(w)) /\ \A p \in Procs : ~Crash(p)
    <2>1. (\A w \in Workers : ~WriteFails(w)) /\ \A p \in Procs : ~Crash(p)
      BY <1>0 DEF WriteFails, Crash
    <2>2. ASSUME NEW p \in Procs, RefuseJob(p) PROVE UNCHANGED faults
      <3>1. faults' = faults \/ faults' = faults + 1
        BY <2>2 DEF RefuseJob
      <3> QED
        BY <1>0, <3>1
    <2> QED
      BY <1>1, <2>1, <2>2
  <1>3. Said /\ Peeked /\ Calm /\ late = {} /\ StepsInv
    BY <1>0, <1>2 DEF HeardInv, Calm, StepsInv
  <1>4. ASSUME NEW p \in Procs, Answer(p) PROVE Said' /\ Peeked'
    BY <1>3, <1>4, AnswerSpeaks, Speaks, HeardAnswer
  <1>5. ASSUME NEW c \in Turns, Send(c) PROVE Said' /\ Peeked' /\ Calm'
    <2>1. Said' /\ Peeked'
      BY <1>3, <1>5 DEF Send, Said, Peeked, Heard, Announcing, At
    <2>2. c \in Jobs /\ ~InQueue(c)
      BY <1>0, <1>5 DEF Send, LockInv, QueuedOnce, Fresh, Jobs
    <2>3. Doing' = Doing
      BY <1>0, <1>5, <2>2, QueueAppends DEF Send, LockInv
    <2> QED
      BY <1>3, <1>5, <2>1, <2>3 DEF Send, Calm
  <1>6. ASSUME NEW w \in Workers, Work(w) PROVE Said' /\ Peeked'
    <2>1. w \in Procs
      BY DEF Procs
    <2>2. CASE Take(w)
      <3> DEFINE s == IF Head(queue) \in Turns THEN "turn" ELSE "picked"
                 a == [Idle EXCEPT !.hold = Head(queue), !.pc = s]
      <3>1. At(w, "idle") /\ UNCHANGED <<announced, row>> /\ Become(w, a)
        BY <2>2 DEF Take
      <3>2. a.pc # "peek" /\ ~At(w, "announce")
        BY <3>1 DEF Idle, At
      <3> HIDE DEF a
      <3> QED
        BY <1>0, <1>3, <2>1, <3>1, <3>2, HeardQuiet
    <2>3. CASE FinishJob(w)
      BY <1>0, <1>3, <2>1, <2>3, HeardIdles DEF FinishJob, At
    <2> QED
      BY <1>0, <1>3, <1>4, <1>6, <2>1, <2>2, <2>3, HeardBody DEF Work
  <1>7. ASSUME NEW w \in Workers, Work(w) PROVE Calm'
    BY <1>0, <1>3, <1>7, CalmWork
  <1>8. CASE UNCHANGED vars
    BY <1>3, <1>8 DEF vars, Said, Peeked, Heard, Announcing, At, Calm, Doing
  <1> QED
    BY <1>0, <1>2, <1>3, <1>5, <1>6, <1>7, <1>8, CalmSweeps DEF Next

LEMMA HeardInit == Init => HeardInv
  BY DEF Init, HeardInv, Said, Peeked, Calm, Doing, Reported, At, Idle, Procs

\* Only the step that gathers the answers opens a turn.
LEMMA OpensGather ==
    ASSUME TypeInv, [Next]_vars, NEW p \in Procs, Opens(p) PROVE Gather(p)
  <1>0. agent[p] \in Agent /\ At(p, "peek") /\ agent'[p].pc \in {"marking", "turn"}
    BY DEF TypeInv, TypeOK, Opens
  <1>1. ASSUME NEW q \in Procs, q # p, NEW a, Become(q, a) PROVE FALSE
    BY <1>0, <1>1 DEF Become, TypeInv, TypeOK, At
  <1>2. ASSUME NEW a, Become(p, a), a.pc \notin {"marking", "turn"} PROVE FALSE
    BY <1>0, <1>2 DEF Become, TypeInv, TypeOK
  <1>3. ASSUME NEW rows, NEW failed, CloseRows(p, rows, failed) PROVE FALSE
    <2> DEFINE s == IF rows = {} THEN "finish" ELSE "close"
               a == [agent[p] EXCEPT !.pc = s, !.closing = rows, !.marks = {}, !.fallback = {},
                                 !.erred = failed, !.calls = {}, !.making = None]
    <2>1. Become(p, a)
      BY <1>3 DEF CloseRows
    <2>2. s \notin {"marking", "turn"}
      OBVIOUS
    <2> HIDE DEF s
    <2>3. a.pc \notin {"marking", "turn"}
      BY <1>0, <2>2 DEF Agent
    <2> HIDE DEF a
    <2> QED
      BY <1>2, <2>1, <2>3
  <1>4. ASSUME NEW q \in Procs, q # p, Answer(q) PROVE FALSE
    BY <1>1, <1>4 DEF Answer, FailTask, Announce, NothingParked, WaitForSiblings, Gather, MarkResuming,
       CloseRow, CreateRow, DeferJob, RefuseJob, Checkpoint, Finalize, CompletionTurnRaises,
       TurnRaises, EndTurn, CloseRows, Goto
  <1>5. ASSUME Answer(p) PROVE Gather(p)
    BY <1>0, <1>3, <1>5 DEF At, Answer, FailTask, Announce, NothingParked, WaitForSiblings,
       MarkResuming, CloseRow, CreateRow, DeferJob, RefuseJob, Checkpoint, Finalize,
       CompletionTurnRaises, TurnRaises
  <1>6. Idle.pc \notin {"marking", "turn"}
    BY DEF Idle
  <1>7. ASSUME NEW w \in Workers, Work(w) \/ WriteFails(w) PROVE Gather(p)
    <2>1. w \in Procs
      BY DEF Procs
    <2>2. CASE w = p
      BY <1>0, <1>2, <1>5, <1>6, <1>7, <2>2
      DEF Work, Take, StartBody, BodyReturns, FinishJob, WriteFails, At
    <2>3. CASE w # p
      BY <1>1, <1>4, <1>7, <2>1, <2>3 DEF Work, Take, StartBody, BodyReturns, FinishJob, WriteFails, Goto
    <2> QED
      BY <2>2, <2>3
  <1>8. ASSUME NEW s \in Sweepers, Sweep(s) PROVE Gather(p)
    <2>1. s \in Procs
      BY DEF Procs
    <2>2. CASE s = p
      <3>1. Answer(s)
        BY <1>0, <1>8, <2>2 DEF Sweep, At, List, TakeLease, LeaseTaken, SettleNothing, SettleClosed,
           SettleReported, SettleUnreported, ReleaseJob
      <3> QED
        BY <1>5, <2>2, <3>1
    <2>3. CASE s # p
      <3>1. \E a : Become(s, a) \/ Answer(s)
        <4>1. CASE List(s) \/ SettleNothing(s) \/ SettleClosed(s) \/ SettleReported(s) \/ SettleUnreported(s)
          BY <4>1 DEF List, SettleNothing, SettleClosed, SettleReported, SettleUnreported, Goto
        <4>2. CASE (\E j \in Jobs : TakeLease(s, j) \/ LeaseTaken(s, j)) \/ ReleaseJob(s)
          BY <4>2 DEF TakeLease, LeaseTaken, ReleaseJob, SweepOn
        <4> QED
          BY <1>8, <4>1, <4>2 DEF Sweep
      <3> QED
        BY <1>1, <1>4, <2>1, <2>3, <3>1
    <2> QED
      BY <2>2, <2>3
  <1>9. ASSUME (\E c \in Turns : Send(c)) \/ UNCHANGED vars PROVE FALSE
    BY <1>0, <1>9 DEF Send, vars, At
  <1>10. ASSUME NEW q \in Procs, Crash(q) PROVE FALSE
    BY <1>1, <1>2, <1>6, <1>10 DEF Crash
  <1> QED
    BY <1>7, <1>8, <1>9, <1>10 DEF Next

LEMMA HeardOpens ==
    ASSUME LockedInv, HeardInv, [Next]_vars
    PROVE  \A p \in Procs : Opens(p) /\ faults = 0 => \A t \in parked : announced[t] # <<>>
  <1> SUFFICES ASSUME NEW p \in Procs, Opens(p), faults = 0, NEW t \in parked
               PROVE  Heard(t)
    BY DEF Heard
  <1>1. TypeInv /\ Said /\ Peeked /\ late = {} /\ t \in Tasks
    BY DEF LockedInv, HeardInv, Calm, TypeInv, TypeOK
  <1>2. Gather(p)
    BY <1>1, OpensGather
  <1>3. At(p, "peek") /\ AllReported(p)
    BY <1>2 DEF Gather
  <1>4. Alone(p)
    BY <1>1, <1>3, Speaks DEF Resting, At
  <1>5. CASE t = agent[p].hold
    BY <1>1, <1>3, <1>5 DEF Peeked
  <1>6. CASE row[t] \in Reported
    <2>1. None \notin Tasks
      BY Identities DEF Jobs
    <2>2. ~Announcing(t)
      BY <1>1, <1>3, <1>4, <2>1 DEF Announcing, Alone, At
    <2> QED
      BY <1>1, <1>6, <2>2 DEF Said
  <1> QED
    BY <1>3, <1>5, <1>6 DEF AllReported

\* A completion turn opens only after the log announced every task it answers,
\* where nothing died: whatever stops, refusals and failed turns came before
\* (PROTOCOL.md 6.1, runner._report_and_resume).
THEOREM AnnouncedAlways ==
    ASSUME "age" \notin Faults PROVE Spec => AnnouncedBeforeTurn
  <1> DEFINE Inv == LockedInv /\ (late = {} => RowInv) /\ HeardInv
  <1>1. Init => Inv
    BY LockedInit, StepInit, HeardInit
  <1>2. Inv /\ [Next]_vars => Inv'
    <2> SUFFICES ASSUME Inv, [Next]_vars PROVE Inv'
      OBVIOUS
    <2>1. LockedInv' /\ (late = {} => RowInv)'
      BY LockedNext, StepNext, LateGrows
    <2> QED
      BY <2>1, HeardNext DEF LockedInv
  <1>3. Inv /\ [Next]_vars =>
            [\A p \in Procs : Opens(p) /\ faults = 0 => \A t \in parked : announced[t] # <<>>]_vars
    BY HeardOpens
  <1> QED
    BY <1>1, <1>2, <1>3, PTL DEF Spec, AnnouncedBeforeTurn
=============================================================================
