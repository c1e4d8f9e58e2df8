------------------------- MODULE StopProtocol_proofs -------------------------
(***************************************************************************)
(* What holds of the stop of a turn for every number of messages, tasks,    *)
(* workers, deletes, stops and sweeps, and however many of them die.         *)
(***************************************************************************)
EXTENDS StopProtocol, SequenceTheorems, TLAPS

Releasing == {"lease", "settle", "error", "end", "release"}
Stopping  == {"request", "dead", "queued", "cancel", "tell", "close", "poll"}
Working   == {"run", "closing", "finish"}

-----------------------------------------------------------------------------
(* Types *)

\* Which steps each kind of agent takes, and what it holds there.
WorkerOK(a) ==
    /\ a.pc \in Working \cup {"idle"}
    /\ IF a.pc = "idle" THEN a.job = None ELSE a.job \in Jobs

ReleaserOK(p, a) ==
    /\ a.pc \notin Working
    /\ a.pc \in Releasing => a.job \in Jobs
    /\ a.pc \in {"error", "end"} => a.job \in Turns
    /\ p \in Stoppers /\ a.pc \in Stopping \cup Releasing => a.turn \in Turns
    /\ p \in Sweepers => a.pc \in Releasing \cup {"idle"}

Phases ==
    /\ \A w \in Workers : WorkerOK(agent[w])
    /\ \A p \in Releasers : ReleaserOK(p, agent[p])
    /\ \A t \in Turns : post[t].pc = "stop" => post[t].found \in Turns

TypeInv == TypeOK /\ Phases

LEMMA IdleType == Idle \in Agent
  BY DEF Idle, Agent, PC

LEMMA AgentsAre ==
    /\ Workers \subseteq Agents /\ Releasers \subseteq Agents
    /\ Stoppers \subseteq Releasers /\ Sweepers \subseteq Releasers /\ Deleters \subseteq Stoppers
    /\ Workers \cap Releasers = {} /\ Stoppers \cap Sweepers = {}
    /\ Turns \subseteq Jobs /\ None \notin Jobs /\ None \notin Turns /\ None \notin Releasers
  BY Identities DEF Agents, Releasers, Stoppers, Jobs

\* What an agent's step leaves of the agents.
LEMMA BecomeIs ==
    ASSUME TypeOK, NEW p \in Agents, NEW a \in Agent, Become(p, a)
    PROVE  /\ agent' \in [Agents -> Agent] /\ agent'[p] = a
           /\ \A q \in Agents : q # p => agent'[q] = agent[q]
  BY DEF TypeOK, Become

LEMMA GotoIs ==
    ASSUME TypeOK, NEW p \in Agents, NEW s \in PC, Goto(p, s)
    PROVE  /\ agent' \in [Agents -> Agent]
           /\ agent'[p].pc = s /\ agent'[p].job = agent[p].job /\ agent'[p].turn = agent[p].turn
           /\ \A q \in Agents : q # p => agent'[q] = agent[q]
  <1> DEFINE a == [agent[p] EXCEPT !.pc = s]
  <1>1. agent[p] \in Agent
    BY DEF TypeOK
  <1>2. a \in Agent /\ a.pc = s /\ a.job = agent[p].job /\ a.turn = agent[p].turn
    BY <1>1 DEF Agent
  <1>3. Become(p, a)
    BY DEF Goto
  <1> HIDE DEF a
  <1> QED
    BY <1>2, <1>3, BecomeIs

\* A row at the end of the log.
LEMMA WriteIs ==
    ASSUME TypeOK, NEW t \in Turns \cup {None}, NEW k \in Kind, Write(t, k)
    PROVE  /\ log' \in Seq(Row) /\ Len(log) \in Nat /\ Len(log') = Len(log) + 1
           /\ DOMAIN log = 1..Len(log) /\ DOMAIN log' = 1..Len(log) + 1
           /\ \A i \in DOMAIN log : log'[i] = log[i] /\ log[i] \in Row
           /\ log'[Len(log) + 1] = [turn |-> t, kind |-> k]
  <1>1. log \in Seq(Row) /\ [turn |-> t, kind |-> k] \in Row
    BY DEF TypeOK, Row
  <1> QED
    BY <1>1, AppendProperties, LenProperties DEF Write

LEMMA OpenTurnType ==
    ASSUME TypeOK
    PROVE  OpenTurn \in Turns \cup {None}
  <1>1. log # <<>> => log[Len(log)] \in Row
    BY EmptySeq, LenProperties, ElementOfSeq DEF TypeOK
  <1> QED
    BY <1>1 DEF OpenTurn, Row

LEMMA TypeInit == Init => TypeInv
  <1> SUFFICES ASSUME Init PROVE TypeInv
    OBVIOUS
  <1>1. job \in [Jobs -> Status] /\ log \in Seq(Row)
    BY EmptySeq DEF Init, Status
  <1>2. agent \in [Agents -> Agent] /\ \A p \in Agents : agent[p] = Idle
    BY IdleType DEF Init
  <1>3. Idle.pc = "idle" /\ Idle.job = None
    BY DEF Idle
  <1>4. /\ post \in [Turns -> [pc : PostPC, found : Turns \cup {None}]]
        /\ \A t \in Turns : post[t].pc = "new"
    BY DEF Init, PostPC
  <1>5. lease \in [Jobs -> Releasers \cup {None}] /\ ahead \in [Jobs -> SUBSET Jobs]
        /\ faults \in 0..MaxFaults
    BY Bounds DEF Init
  <1>6. TypeOK
    BY <1>1, <1>2, <1>4, <1>5 DEF Init, TypeOK
  <1>7. Phases
    BY <1>2, <1>3, <1>4, AgentsAre
    DEF Phases, WorkerOK, ReleaserOK, Working, Releasing, Stopping
  <1> QED
    BY <1>6, <1>7 DEF TypeInv

\* A step of one agent keeps the phases when it leaves that agent in one.
LEMMA PhasesStep ==
    ASSUME TypeInv, NEW p \in Agents, agent' \in [Agents -> Agent], UNCHANGED post,
           \A q \in Agents : q # p => agent'[q] = agent[q],
           p \in Workers => WorkerOK(agent'[p]),
           p \in Releasers => ReleaserOK(p, agent'[p])
    PROVE  Phases'
  <1>1. \A w \in Workers : WorkerOK(agent[w])'
    BY AgentsAre DEF TypeInv, Phases, WorkerOK
  <1>2. \A q \in Releasers : ReleaserOK(q, agent[q])'
    BY AgentsAre DEF TypeInv, Phases, ReleaserOK
  <1> QED
    BY <1>1, <1>2 DEF TypeInv, Phases

\* A releaser goes on, or rests.
LEMMA ReleasedIs ==
    ASSUME TypeInv, NEW p \in Releasers, agent[p].pc \in Releasing \cup {"dead"}
    PROVE  /\ Released(p) \in Agent /\ Idle \in Agent
           /\ ReleaserOK(p, Released(p)) /\ ReleaserOK(p, Idle)
           /\ Released(p).pc \in {"queued", "idle"} /\ Released(p).job = None
           /\ Idle.pc = "idle" /\ Idle.job = None
  <1>1. p \in Deleters => agent[p].turn \in Turns
    BY AgentsAre DEF TypeInv, Phases, ReleaserOK, Stopping, Releasing
  <1> QED
    BY <1>1, AgentsAre
    DEF Released, Idle, Agent, PC, ReleaserOK, Working, Stopping, Releasing

LEMMA TypePost == ASSUME TypeInv, NEW t \in Turns, Post(t) PROVE TypeInv'
  <1>1. ASSUME NEW s \in PostPC, NEW u \in Turns \cup {None}, PostPos(t, s, u),
               s = "stop" => u \in Turns, UNCHANGED agent
        PROVE  Phases' /\ post' \in [Turns -> [pc : PostPC, found : Turns \cup {None}]]
    <2>1. post' \in [Turns -> [pc : PostPC, found : Turns \cup {None}]]
      BY <1>1 DEF TypeInv, TypeOK, PostPos
    <2>2. \A v \in Turns : post'[v].pc = "stop" => post'[v].found \in Turns
      BY <1>1 DEF TypeInv, TypeOK, Phases, PostPos
    <2>3. /\ \A w \in Workers : WorkerOK(agent[w])'
          /\ \A p \in Releasers : ReleaserOK(p, agent[p])'
      BY <1>1 DEF TypeInv, Phases, WorkerOK, ReleaserOK
    <2> QED
      BY <2>1, <2>2, <2>3 DEF Phases
  <1>2. CASE PostReads(t)
    <2>1. Phases' /\ post' \in [Turns -> [pc : PostPC, found : Turns \cup {None}]]
      BY <1>1, <1>2, OpenTurnType, AgentsAre DEF PostReads, PostPC, TypeInv
    <2> QED
      BY <1>2, <2>1 DEF PostReads, TypeInv, TypeOK
  <1>3. CASE PostStops(t)
    <2>1. Phases' /\ post' \in [Turns -> [pc : PostPC, found : Turns \cup {None}]]
      BY <1>1, <1>3 DEF PostStops, PostPC
    <2>2. stops' \in SUBSET Turns
      BY <1>3 DEF PostStops, TypeInv, TypeOK, Phases
    <2> QED
      BY <1>3, <2>1, <2>2 DEF PostStops, TypeInv, TypeOK
  <1>4. CASE PostAsks(t)
    <2>1. Phases' /\ post' \in [Turns -> [pc : PostPC, found : Turns \cup {None}]]
      BY <1>1, <1>4 DEF PostAsks, PostPC
    <2>2. log' \in Seq(Row)
      BY <1>4, WriteIs DEF PostAsks, Kind, TypeInv
    <2> QED
      BY <1>4, <2>1, <2>2 DEF PostAsks, TypeInv, TypeOK
  <1>5. CASE PostDefers(t)
    <2>1. Phases' /\ post' \in [Turns -> [pc : PostPC, found : Turns \cup {None}]]
      BY <1>1, <1>5 DEF PostDefers, PostPC
    <2>2. job' \in [Jobs -> Status] /\ ahead' \in [Jobs -> SUBSET Jobs]
      BY <1>5, AgentsAre DEF PostDefers, TypeInv, TypeOK, Status
    <2> QED
      BY <1>5, <2>1, <2>2 DEF PostDefers, TypeInv, TypeOK
  <1>6. CASE PostDies(t)
    <2>1. Phases' /\ post' \in [Turns -> [pc : PostPC, found : Turns \cup {None}]]
      BY <1>1, <1>6 DEF PostDies, PostPC
    <2>2. faults' \in 0..MaxFaults
      BY <1>6, Bounds DEF PostDies, TypeInv, TypeOK
    <2> QED
      BY <1>6, <2>1, <2>2 DEF PostDies, TypeInv, TypeOK
  <1> QED
    BY <1>2, <1>3, <1>4, <1>5, <1>6 DEF Post

LEMMA TypeWork == ASSUME TypeInv, NEW w \in Workers, Work(w) PROVE TypeInv'
  <1>1. w \in Agents /\ w \notin Releasers /\ WorkerOK(agent[w])
    BY AgentsAre DEF TypeInv, Phases
  <1>2. ASSUME NEW s \in Working, Goto(w, s), UNCHANGED post, agent[w].pc # "idle"
        PROVE  agent' \in [Agents -> Agent] /\ Phases'
    <2>1. /\ agent' \in [Agents -> Agent] /\ agent'[w].pc = s /\ agent'[w].job = agent[w].job
          /\ \A q \in Agents : q # w => agent'[q] = agent[q]
      BY <1>1, <1>2, GotoIs DEF TypeInv, Working, PC
    <2>2. WorkerOK(agent'[w])
      BY <1>1, <1>2, <2>1 DEF WorkerOK, Working
    <2> QED
      BY <1>1, <1>2, <2>1, <2>2, PhasesStep
  <1>3. ASSUME Become(w, Idle), UNCHANGED post
        PROVE  agent' \in [Agents -> Agent] /\ Phases'
    <2>1. /\ agent' \in [Agents -> Agent] /\ agent'[w] = Idle
          /\ \A q \in Agents : q # w => agent'[q] = agent[q]
      BY <1>1, <1>3, IdleType, BecomeIs DEF TypeInv
    <2>2. WorkerOK(agent'[w])
      BY <2>1 DEF WorkerOK, Idle
    <2> QED
      BY <1>1, <1>3, <2>1, <2>2, PhasesStep
  <1>4. ASSUME UNCHANGED <<agent, post>> PROVE Phases'
    BY <1>4 DEF TypeInv, Phases, WorkerOK, ReleaserOK
  <1>5. CASE Take(w)
    <2>1. PICK j \in Jobs : /\ Leaves(j, "doing")
                            /\ Become(w, [Idle EXCEPT !.pc = "run", !.job = j])
      BY <1>5 DEF Take
    <2> DEFINE a == [Idle EXCEPT !.pc = "run", !.job = j]
    <2>2. a \in Agent /\ WorkerOK(a)
      BY DEF Idle, Agent, PC, WorkerOK, Working
    <2>3. Become(w, a)
      BY <2>1
    <2> HIDE DEF a
    <2>4. agent' \in [Agents -> Agent] /\ Phases'
      BY <1>1, <1>5, <2>2, <2>3, BecomeIs, PhasesStep DEF TypeInv, Take
    <2>5. job' \in [Jobs -> Status] /\ ahead' \in [Jobs -> SUBSET Jobs]
      BY <2>1 DEF Leaves, TypeInv, TypeOK, Status
    <2> QED
      BY <1>5, <2>4, <2>5 DEF Take, TypeInv, TypeOK
  <1>6. CASE WriteText(w)
    <2>1. log' \in Seq(Row)
      BY <1>6, WriteIs DEF WriteText, Kind, TypeInv
    <2> QED
      BY <1>4, <1>6, <2>1 DEF WriteText, TypeInv, TypeOK
  <1>7. CASE WriteProgress(w)
    <2>1. log' \in Seq(Row)
      BY <1>7, WriteIs DEF WriteProgress, Kind, TypeInv
    <2> QED
      BY <1>4, <1>7, <2>1 DEF WriteProgress, TypeInv, TypeOK
  <1>8. CASE Notice(w)
    <2>1. agent[w].job \in Turns
      BY <1>8 DEF Notice, TypeInv, TypeOK
    <2>2. log' \in Seq(Row)
      BY <1>8, <2>1, WriteIs DEF Notice, Kind, TypeInv
    <2>3. agent' \in [Agents -> Agent] /\ Phases'
      BY <1>2, <1>8 DEF Notice, At, Working
    <2> QED
      BY <1>8, <2>2, <2>3 DEF Notice, TypeInv, TypeOK
  <1>9. CASE CloseTurn(w)
    <2>2. log' \in Seq(Row)
      BY <1>9, WriteIs DEF CloseTurn, Kind, TypeInv
    <2>3. agent' \in [Agents -> Agent] /\ Phases'
      BY <1>2, <1>9 DEF CloseTurn, At, Working
    <2> QED
      BY <1>9, <2>2, <2>3 DEF CloseTurn, TypeInv, TypeOK
  <1>10. CASE EndTask(w)
    <2>1. agent' \in [Agents -> Agent] /\ Phases'
      BY <1>2, <1>10 DEF EndTask, At, Working
    <2> QED
      BY <1>10, <2>1 DEF EndTask, TypeInv, TypeOK
  <1>11. CASE FinishJob(w)
    <2>1. agent' \in [Agents -> Agent] /\ Phases'
      BY <1>3, <1>11 DEF FinishJob
    <2>2. job' \in [Jobs -> Status]
      BY <1>11 DEF FinishJob, TypeInv, TypeOK, Status
    <2> QED
      BY <1>11, <2>1, <2>2 DEF FinishJob, TypeInv, TypeOK
  <1>12. CASE Crash(w)
    <2>1. agent' \in [Agents -> Agent] /\ Phases'
      BY <1>3, <1>12 DEF Crash
    <2>2. faults' \in 0..MaxFaults
      BY <1>12, Bounds DEF Crash, TypeInv, TypeOK
    <2> QED
      BY <1>12, <2>1, <2>2 DEF Crash, TypeInv, TypeOK
  <1> QED
    BY <1>5, <1>6, <1>7, <1>8, <1>9, <1>10, <1>11, <1>12 DEF Work

\* What moving a releaser to another step, or to a new task, leaves.
LEMMA ReleaserGoes ==
    ASSUME TypeInv, NEW p \in Releasers, NEW s \in PC, Goto(p, s), UNCHANGED post,
           s \notin Working,
           s \in Releasing => agent[p].job \in Jobs,
           s \in {"error", "end"} => agent[p].job \in Turns,
           p \in Stoppers /\ s \in Stopping \cup Releasing => agent[p].turn \in Turns,
           p \in Sweepers => s \in Releasing \cup {"idle"}
    PROVE  agent' \in [Agents -> Agent] /\ Phases'
  <1>1. /\ p \in Agents /\ p \notin Workers
        /\ agent' \in [Agents -> Agent]
        /\ agent'[p].pc = s /\ agent'[p].job = agent[p].job /\ agent'[p].turn = agent[p].turn
        /\ \A q \in Agents : q # p => agent'[q] = agent[q]
    BY AgentsAre, GotoIs DEF TypeInv
  <1>2. ReleaserOK(p, agent'[p])
    BY <1>1 DEF ReleaserOK
  <1> QED
    BY <1>1, <1>2, PhasesStep

LEMMA ReleaserBecomes ==
    ASSUME TypeInv, NEW p \in Releasers, NEW a \in Agent, Become(p, a), UNCHANGED post,
           ReleaserOK(p, a)
    PROVE  agent' \in [Agents -> Agent] /\ Phases'
  BY AgentsAre, BecomeIs, PhasesStep DEF TypeInv

LEMMA TypeRelease == ASSUME TypeInv, NEW p \in Releasers, ReleaseStep(p) PROVE TypeInv'
  <1>1. /\ ReleaserOK(p, agent[p])
        /\ p \in Stoppers /\ agent[p].pc \in Releasing => agent[p].turn \in Turns
        /\ agent[p].pc \in Releasing => agent[p].job \in Jobs
        /\ agent[p].pc \in {"error", "end"} => agent[p].job \in Turns
    BY DEF TypeInv, Phases, ReleaserOK
  <1>2. ASSUME NEW s \in Releasing, agent[p].pc \in Releasing, Goto(p, s), UNCHANGED post,
               s \in {"error", "end"} => agent[p].job \in Turns
        PROVE  agent' \in [Agents -> Agent] /\ Phases'
    BY <1>1, <1>2, ReleaserGoes DEF Releasing, Working, PC
  <1>3. CASE TakeLease(p)
    <2>1. agent' \in [Agents -> Agent] /\ Phases'
      BY <1>2, <1>3 DEF TakeLease, At, Releasing
    <2>2. lease' \in [Jobs -> Releasers \cup {None}]
      BY <1>3 DEF TakeLease, TypeInv, TypeOK
    <2> QED
      BY <1>3, <2>1, <2>2 DEF TakeLease, TypeInv, TypeOK
  <1>4. CASE LeaseIsTaken(p)
    <2>1. agent[p].pc \in Releasing
      BY <1>4 DEF LeaseIsTaken, At, Releasing
    <2>2. agent' \in [Agents -> Agent] /\ Phases'
      BY <1>4, <2>1, ReleasedIs, ReleaserBecomes DEF LeaseIsTaken
    <2> QED
      BY <1>4, <2>2 DEF LeaseIsTaken, TypeInv, TypeOK
  <1>5. CASE Settle(p)
    <2> DEFINE s == IF agent[p].job \in Turns /\ StreamIsOpen THEN "error" ELSE "release"
    <2>1. /\ s \in Releasing /\ (s \in {"error", "end"} => agent[p].job \in Turns)
          /\ Goto(p, s) /\ agent[p].pc \in Releasing
      BY <1>5 DEF Settle, At, Releasing
    <2> HIDE DEF s
    <2>2. agent' \in [Agents -> Agent] /\ Phases'
      BY <1>2, <1>5, <2>1 DEF Settle
    <2> QED
      BY <1>5, <2>2 DEF Settle, TypeInv, TypeOK
  <1>6. CASE WriteError(p)
    <2>1. agent[p].job \in Turns /\ agent[p].pc \in Releasing
      BY <1>1, <1>6 DEF WriteError, At, Releasing
    <2>2. agent' \in [Agents -> Agent] /\ Phases'
      BY <1>2, <1>6, <2>1 DEF WriteError, Releasing
    <2>3. log' \in Seq(Row)
      BY <1>6, <2>1, WriteIs DEF WriteError, Kind, TypeInv
    <2> QED
      BY <1>6, <2>2, <2>3 DEF WriteError, TypeInv, TypeOK
  <1>7. CASE WriteDone(p)
    <2>1. agent[p].job \in Turns /\ agent[p].pc \in Releasing
      BY <1>1, <1>7 DEF WriteDone, At, Releasing
    <2>2. agent' \in [Agents -> Agent] /\ Phases'
      BY <1>2, <1>7, <2>1 DEF WriteDone, Releasing
    <2>3. log' \in Seq(Row)
      BY <1>7, <2>1, WriteIs DEF WriteDone, Kind, TypeInv
    <2> QED
      BY <1>7, <2>2, <2>3 DEF WriteDone, TypeInv, TypeOK
  <1>8. CASE ReleaseJob(p)
    <2>1. agent[p].pc \in Releasing
      BY <1>8 DEF ReleaseJob, At, Releasing
    <2>2. agent' \in [Agents -> Agent] /\ Phases'
      BY <1>8, <2>1, ReleasedIs, ReleaserBecomes DEF ReleaseJob
    <2>3. /\ lease' \in [Jobs -> Releasers \cup {None}] /\ job' \in [Jobs -> Status]
          /\ silent' \in BOOLEAN
      BY <1>8 DEF ReleaseJob, TypeInv, TypeOK, Status
    <2> QED
      BY <1>8, <2>2, <2>3 DEF ReleaseJob, TypeInv, TypeOK
  <1> QED
    BY <1>3, <1>4, <1>5, <1>6, <1>7, <1>8 DEF ReleaseStep

LEMMA TypeDies == ASSUME TypeInv, NEW p \in Releasers, Dies(p) PROVE TypeInv'
  <1>1. ReleaserOK(p, Idle) /\ Idle \in Agent
    BY IdleType DEF ReleaserOK, Idle, Working, Stopping, Releasing
  <1>2. agent' \in [Agents -> Agent] /\ Phases'
    BY <1>1, ReleaserBecomes DEF Dies
  <1>3. lease' \in [Jobs -> Releasers \cup {None}] /\ faults' \in 0..MaxFaults
    BY Bounds DEF Dies, TypeInv, TypeOK
  <1> QED
    BY <1>2, <1>3 DEF Dies, TypeInv, TypeOK

LEMMA TypeLists == ASSUME TypeInv, NEW s \in Sweepers, SweepLists(s) PROVE TypeInv'
  <1>1. PICK j \in Jobs : Become(s, [Idle EXCEPT !.pc = "lease", !.job = j])
    BY DEF SweepLists, DeadJobs, Doing
  <1> DEFINE a == [Idle EXCEPT !.pc = "lease", !.job = j]
  <1>2. a \in Agent /\ ReleaserOK(s, a)
    BY AgentsAre DEF Idle, Agent, PC, ReleaserOK, Working, Stopping, Releasing
  <1>3. Become(s, a)
    BY <1>1
  <1> HIDE DEF a
  <1>4. agent' \in [Agents -> Agent] /\ Phases'
    BY <1>2, <1>3, AgentsAre, ReleaserBecomes DEF SweepLists
  <1> QED
    BY <1>4 DEF SweepLists, TypeInv, TypeOK

LEMMA TypeStop == ASSUME TypeInv, NEW s \in Stoppers, Stop(s) PROVE TypeInv'
  <1>1. /\ s \in Releasers /\ s \notin Sweepers /\ ReleaserOK(s, agent[s])
        /\ agent[s].pc \in Stopping => agent[s].turn \in Turns
    BY AgentsAre DEF TypeInv, Phases, ReleaserOK
  <1>2. ASSUME NEW q \in Stopping \cup {"clean"}, agent[s].pc \in Stopping \/ q = "clean",
               Goto(s, q), UNCHANGED post
        PROVE  agent' \in [Agents -> Agent] /\ Phases'
    BY <1>1, <1>2, ReleaserGoes DEF Stopping, Releasing, Working, PC
  <1>3. CASE FindsNothing(s)
    BY <1>2, <1>3 DEF FindsNothing, TypeInv, TypeOK
  <1>4. CASE FindsTurn(s)
    <2> DEFINE a == [Idle EXCEPT !.pc = "request", !.turn = OpenTurn]
    <2>1. OpenTurn \in Turns
      BY <1>4, OpenTurnType DEF FindsTurn, TypeInv
    <2>2. a \in Agent /\ ReleaserOK(s, a) /\ Become(s, a)
      BY <1>1, <1>4, <2>1
      DEF FindsTurn, Idle, Agent, PC, ReleaserOK, Working, Stopping, Releasing
    <2> HIDE DEF a
    <2>3. agent' \in [Agents -> Agent] /\ Phases'
      BY <1>1, <1>4, <2>2, ReleaserBecomes DEF FindsTurn
    <2> QED
      BY <1>4, <2>3 DEF FindsTurn, TypeInv, TypeOK
  <1>5. CASE RequestCancel(s)
    <2>1. agent' \in [Agents -> Agent] /\ Phases'
      BY <1>2, <1>5 DEF RequestCancel, At, Stopping
    <2>2. stops' \in SUBSET Turns
      BY <1>1, <1>5 DEF RequestCancel, At, Stopping, TypeInv, TypeOK
    <2> QED
      BY <1>5, <2>1, <2>2 DEF RequestCancel, TypeInv, TypeOK
  <1>6. CASE ReleaseDead(s)
    <2>1. agent[s].pc = "dead" /\ agent[s].turn \in Turns
      BY <1>1, <1>6 DEF ReleaseDead, At, Stopping
    <2>2. ASSUME NEW j \in Turns, Become(s, [agent[s] EXCEPT !.pc = "lease", !.job = j])
          PROVE  agent' \in [Agents -> Agent] /\ Phases'
      <3> DEFINE a == [agent[s] EXCEPT !.pc = "lease", !.job = j]
      <3>1. agent[s] \in Agent
        BY AgentsAre DEF TypeInv, TypeOK
      <3>2. a \in Agent /\ ReleaserOK(s, a)
        BY <1>1, <2>1, <3>1, AgentsAre DEF Agent, PC, ReleaserOK, Working, Stopping, Releasing
      <3>3. Become(s, a)
        BY <2>2
      <3> HIDE DEF a
      <3> QED
        BY <1>1, <1>6, <3>2, <3>3, ReleaserBecomes DEF ReleaseDead
    <2>3. ASSUME Become(s, Released(s)) PROVE agent' \in [Agents -> Agent] /\ Phases'
      BY <1>1, <1>6, <2>1, <2>3, ReleasedIs, ReleaserBecomes DEF ReleaseDead
    <2>4. agent' \in [Agents -> Agent] /\ Phases'
      BY <1>6, <2>2, <2>3 DEF ReleaseDead
    <2> QED
      BY <1>6, <2>4 DEF ReleaseDead, TypeInv, TypeOK
  <1>7. CASE ListQueued(s)
    <2>1. agent' \in [Agents -> Agent] /\ Phases'
      BY <1>2, <1>7 DEF ListQueued, At, Stopping
    <2> QED
      BY <1>7, <2>1 DEF ListQueued, TypeInv, TypeOK
  <1>8. CASE CancelJob(s)
    <2>1. agent' \in [Agents -> Agent] /\ Phases'
      BY <1>2, <1>8 DEF CancelJob, At, Stopping
    <2>2. job' \in [Jobs -> Status] /\ ahead' \in [Jobs -> SUBSET Jobs]
      BY <1>8 DEF CancelJob, Leaves, TypeInv, TypeOK, Status
    <2> QED
      BY <1>8, <2>1, <2>2 DEF CancelJob, TypeInv, TypeOK
  <1>9. CASE TellStopped(s)
    <2>1. agent' \in [Agents -> Agent] /\ Phases'
      BY <1>2, <1>9 DEF TellStopped, At, Stopping
    <2>2. log' \in Seq(Row)
      BY <1>1, <1>9, WriteIs DEF TellStopped, At, Stopping, Kind, TypeInv
    <2> QED
      BY <1>9, <2>1, <2>2 DEF TellStopped, TypeInv, TypeOK
  <1>10. CASE CloseQueued(s)
    <2>1. agent' \in [Agents -> Agent] /\ Phases'
      BY <1>2, <1>10 DEF CloseQueued, At, Stopping
    <2>2. log' \in Seq(Row)
      BY <1>1, <1>10, WriteIs DEF CloseQueued, At, Stopping, Kind, TypeInv
    <2> QED
      BY <1>10, <2>1, <2>2 DEF CloseQueued, TypeInv, TypeOK
  <1>11. ASSUME NEW q \in {"clean", "refused"}, Become(s, [Idle EXCEPT !.pc = q]), UNCHANGED post
         PROVE  agent' \in [Agents -> Agent] /\ Phases'
    <2> DEFINE a == [Idle EXCEPT !.pc = q]
    <2>1. a \in Agent /\ ReleaserOK(s, a)
      BY <1>1, <1>11 DEF Idle, Agent, PC, ReleaserOK, Working, Stopping, Releasing
    <2>2. Become(s, a)
      BY <1>11
    <2> HIDE DEF a
    <2> QED
      BY <1>1, <1>11, <2>1, <2>2, ReleaserBecomes
  <1>12. CASE PollClean(s)
    BY <1>11, <1>12 DEF PollClean, TypeInv, TypeOK
  <1>13. CASE Deadline(s)
    BY <1>11, <1>13 DEF Deadline, TypeInv, TypeOK
  <1> QED
    BY <1>3, <1>4, <1>5, <1>6, <1>7, <1>8, <1>9, <1>10, <1>12, <1>13 DEF Stop

LEMMA TypeStep == TypeInv /\ [Next]_vars => TypeInv'
  <1> SUFFICES ASSUME TypeInv, [Next]_vars PROVE TypeInv'
    OBVIOUS
  <1>1. CASE Lapse
    BY <1>1 DEF Lapse, TypeInv, TypeOK, Phases, WorkerOK, ReleaserOK
  <1>2. CASE UNCHANGED vars
    BY <1>2 DEF vars, TypeInv, TypeOK, Phases, WorkerOK, ReleaserOK
  <1> QED
    BY <1>1, <1>2, TypePost, TypeWork, TypeRelease, TypeDies, TypeStop, TypeLists, AgentsAre DEF Next

(* Every variable keeps its type, and every agent is at a step of its own    *)
(* kind, holding what that step uses.                                       *)
THEOREM TypeCorrect == Spec => []TypeOK
  <1>1. Spec => []TypeInv
    BY TypeInit, TypeStep, PTL DEF Spec
  <1>2. TypeInv => TypeOK
    BY DEF TypeInv
  <1> QED
    BY <1>1, <1>2, PTL

-----------------------------------------------------------------------------
(* Who holds which job *)

OneDoing == \A j, k \in Jobs : job[j] = "doing" /\ job[k] = "doing" => j = k

HeldIsDoing == \A w \in Workers : agent[w].pc \in Working => job[agent[w].job] = "doing"

OneWorker ==
    \A v, w \in Workers : agent[v].pc \in Working /\ agent[w].pc \in Working => v = w

SilentIsDead == silent => Doing # {} /\ \A w \in Workers : agent[w].pc \notin Working

\* What a releaser holds was a dead worker's, and no worker takes it again.
ReleasedIsDead ==
    \A p \in Releasers : agent[p].pc \in Releasing =>
       /\ job[agent[p].job] \in {"doing", "gone"}
       /\ \A w \in Workers : agent[w].job # agent[p].job

ReleaserLeases ==
    \A p \in Releasers : agent[p].pc \in Releasing \ {"lease"} => lease[agent[p].job] = p

Telling(s) == agent[s].pc \in {"tell", "close"}

TellsCancelled == \A s \in Stoppers : Telling(s) => job[agent[s].turn] = "cancelled"

OneTeller ==
    \A r, s \in Stoppers :
       Telling(r) /\ Telling(s) /\ agent[r].turn = agent[s].turn => r = s

UnsentIsNone == \A t \in Turns : post[t].pc # "sent" => job[t] = "none"

LockInv ==
    /\ OneDoing /\ HeldIsDoing /\ OneWorker /\ SilentIsDead
    /\ ReleasedIsDead /\ ReleaserLeases /\ TellsCancelled /\ OneTeller /\ UnsentIsNone

LEMMA LockInit == Init => LockInv
  <1> SUFFICES ASSUME Init PROVE LockInv
    OBVIOUS
  <1>1. \A p \in Agents : agent[p].pc = "idle"
    BY DEF Init, Idle
  <1>2. \A j \in Jobs : job[j] \in {"todo", "none"}
    BY DEF Init
  <1>3. \A t \in Turns : job[t] = "none"
    BY Identities DEF Init, Jobs
  <1>4. /\ \A w \in Workers : agent[w].pc \notin Working
        /\ \A p \in Releasers : agent[p].pc \notin Releasing
        /\ \A s \in Stoppers : ~Telling(s)
    BY <1>1, AgentsAre DEF Working, Releasing, Telling
  <1>5. ~silent
    BY DEF Init
  <1> QED
    BY <1>2, <1>3, <1>4, <1>5
    DEF LockInv, OneDoing, HeldIsDoing, OneWorker, SilentIsDead, ReleasedIsDead,
        ReleaserLeases, TellsCancelled, OneTeller, UnsentIsNone

\* A step that starts no work and no release keeps who holds what.
LEMMA LockFrame ==
    ASSUME TypeInv, LockInv, NEW p \in Agents, agent' \in [Agents -> Agent],
           UNCHANGED <<job, silent, lease, post>>,
           \A q \in Agents : q # p => agent'[q] = agent[q],
           p \in Workers =>
              /\ agent'[p].pc \in Working =>
                    agent[p].pc \in Working /\ agent'[p].job = agent[p].job
              /\ agent'[p].job \in {agent[p].job, None},
           p \in Releasers =>
              /\ agent'[p].pc \in Releasing =>
                    /\ agent[p].pc \in Releasing /\ agent'[p].job = agent[p].job
                    /\ agent[p].pc = "lease" => agent'[p].pc = "lease"
              /\ agent'[p].pc \in {"tell", "close"} =>
                    Telling(p) /\ agent'[p].turn = agent[p].turn
    PROVE  LockInv'
  <1>1. OneDoing' /\ UnsentIsNone'
    BY DEF LockInv, OneDoing, UnsentIsNone
  <1>2. HeldIsDoing' /\ OneWorker'
    BY AgentsAre DEF LockInv, HeldIsDoing, OneWorker
  <1>3. SilentIsDead'
    BY AgentsAre DEF LockInv, SilentIsDead, Doing
  <1>4. ReleasedIsDead'
    <2>1. \A q \in Releasers : agent[q].pc \in Releasing => agent[q].job \in Jobs
      BY DEF TypeInv, Phases, ReleaserOK
    <2> QED
      BY <2>1, AgentsAre DEF LockInv, ReleasedIsDead
  <1>5. ReleaserLeases'
    BY AgentsAre DEF LockInv, ReleaserLeases, Releasing
  <1>6. TellsCancelled' /\ OneTeller'
    BY AgentsAre DEF LockInv, TellsCancelled, OneTeller, Telling
  <1> QED
    BY <1>1, <1>2, <1>3, <1>4, <1>5, <1>6 DEF LockInv

LEMMA LockUnchanged ==
    ASSUME LockInv, UNCHANGED <<job, silent, lease, agent>>,
           \A t \in Turns : post'[t].pc = "sent" \/ post[t].pc # "sent"
    PROVE  LockInv'
  BY DEF LockInv, OneDoing, HeldIsDoing, OneWorker, SilentIsDead, Doing, ReleasedIsDead,
         ReleaserLeases, TellsCancelled, OneTeller, Telling, UnsentIsNone

LEMMA LockPost == ASSUME TypeInv, LockInv, NEW t \in Turns, Post(t) PROVE LockInv'
  <1>1. CASE PostDefers(t)
    <2>1. job[t] = "none" /\ job'[t] = "todo" /\ \A j \in Jobs : j # t => job'[j] = job[j]
      BY <1>1, AgentsAre DEF PostDefers, LockInv, UnsentIsNone, TypeInv, TypeOK
    <2>2. \A v \in Turns : post'[v].pc = "sent" \/ (v # t /\ post'[v].pc = post[v].pc)
      BY <1>1 DEF PostDefers, PostPos, TypeInv, TypeOK
    <2>3. /\ \A w \in Workers : agent[w].pc \in Working => agent[w].job \in Jobs
          /\ \A p \in Releasers : agent[p].pc \in Releasing => agent[p].job \in Jobs
          /\ \A s \in Stoppers : Telling(s) => agent[s].turn \in Jobs
      BY AgentsAre DEF TypeInv, Phases, WorkerOK, ReleaserOK, Telling, Stopping, Working
    <2>4. UNCHANGED <<agent, silent, lease>>
      BY <1>1 DEF PostDefers
    <2>5. OneDoing' /\ HeldIsDoing' /\ OneWorker'
      BY <2>1, <2>3, <2>4 DEF LockInv, OneDoing, HeldIsDoing, OneWorker
    <2>6. SilentIsDead'
      BY <2>1, <2>4 DEF LockInv, SilentIsDead, Doing
    <2>7. ReleasedIsDead' /\ ReleaserLeases'
      BY <2>1, <2>3, <2>4 DEF LockInv, ReleasedIsDead, ReleaserLeases
    <2>8. TellsCancelled' /\ OneTeller'
      BY <2>1, <2>3, <2>4 DEF LockInv, TellsCancelled, OneTeller, Telling
    <2>9. UnsentIsNone'
      BY <2>1, <2>2, AgentsAre DEF LockInv, UnsentIsNone
    <2> QED
      BY <2>5, <2>6, <2>7, <2>8, <2>9 DEF LockInv
  <1>2. CASE PostReads(t) \/ PostStops(t) \/ PostAsks(t) \/ PostDies(t)
    <2>1. /\ \A v \in Turns : post'[v].pc = "sent" \/ post[v].pc # "sent"
          /\ UNCHANGED <<job, silent, lease, agent>>
      BY <1>2 DEF PostReads, PostStops, PostAsks, PostDies, PostPos, TypeInv, TypeOK
    <2> QED
      BY <2>1, LockUnchanged
  <1> QED
    BY <1>1, <1>2 DEF Post

LEMMA LockWork == ASSUME TypeInv, LockInv, NEW w \in Workers, Work(w) PROVE LockInv'
  <1>1. w \in Agents /\ w \notin Releasers /\ WorkerOK(agent[w])
    BY AgentsAre DEF TypeInv, Phases
  <1>2. /\ \A v \in Workers : agent[v].pc \in Working => agent[v].job \in Jobs
        /\ \A v \in Workers : agent[v].pc \notin Working => agent[v].job = None
        /\ \A p \in Releasers : agent[p].pc \in Releasing => agent[p].job \in Jobs
        /\ \A s \in Stoppers : Telling(s) => agent[s].turn \in Jobs
    BY AgentsAre DEF TypeInv, Phases, WorkerOK, ReleaserOK, Telling, Stopping, Working
  <1>3. ASSUME NEW s \in Working, Goto(w, s), agent[w].pc \in Working,
               UNCHANGED <<job, silent, lease, post>>
        PROVE  LockInv'
    <2>1. /\ agent' \in [Agents -> Agent] /\ agent'[w].job = agent[w].job
          /\ \A q \in Agents : q # w => agent'[q] = agent[q]
      BY <1>1, <1>3, GotoIs DEF TypeInv, Working, PC
    <2> QED
      BY <1>1, <1>3, <2>1, LockFrame
  <1>4. ASSUME Become(w, Idle)
        PROVE  /\ agent' \in [Agents -> Agent]
               /\ agent'[w].pc \notin Working /\ agent'[w].job = None
               /\ \A q \in Agents : q # w => agent'[q] = agent[q]
    BY <1>1, <1>4, IdleType, BecomeIs DEF TypeInv, Idle, Working
  <1>5. CASE Take(w)
    <2>1. PICK j \in Jobs : /\ job[j] = "todo" /\ Doing = {} /\ Leaves(j, "doing")
                            /\ Become(w, [Idle EXCEPT !.pc = "run", !.job = j])
      BY <1>5 DEF Take
    <2> DEFINE a == [Idle EXCEPT !.pc = "run", !.job = j]
    <2>2. a \in Agent /\ a.pc = "run" /\ a.job = j
      BY DEF Idle, Agent, PC
    <2>3. Become(w, a)
      BY <2>1
    <2> HIDE DEF a
    <2>4. /\ agent'[w].pc = "run" /\ agent'[w].job = j
          /\ \A q \in Agents : q # w => agent'[q] = agent[q]
      BY <1>1, <2>2, <2>3, BecomeIs DEF TypeInv
    <2>5. job'[j] = "doing" /\ \A k \in Jobs : k # j => job'[k] = job[k] /\ job[k] # "doing"
      BY <2>1 DEF Leaves, Doing, TypeInv, TypeOK
    <2>6. ~silent /\ UNCHANGED <<silent, lease, post>>
      BY <1>5, <2>1 DEF Take, LockInv, SilentIsDead
    <2>7. \A v \in Workers : agent[v].pc \notin Working
      BY <1>2, <2>1 DEF LockInv, HeldIsDoing, Doing
    <2>8. OneDoing' /\ HeldIsDoing' /\ OneWorker' /\ SilentIsDead'
      BY <1>1, <2>4, <2>5, <2>6, <2>7, AgentsAre
      DEF OneDoing, HeldIsDoing, OneWorker, SilentIsDead
    <2>9. ReleasedIsDead'
      BY <1>1, <1>2, <2>1, <2>4, <2>5, AgentsAre DEF LockInv, ReleasedIsDead
    <2>10. ReleaserLeases'
      BY <1>1, <2>4, <2>6, AgentsAre DEF LockInv, ReleaserLeases
    <2>11. TellsCancelled' /\ OneTeller'
      BY <1>1, <1>2, <2>1, <2>4, <2>5, AgentsAre DEF LockInv, TellsCancelled, OneTeller, Telling
    <2>12. UnsentIsNone'
      BY <2>1, <2>5, <2>6, AgentsAre DEF LockInv, UnsentIsNone
    <2> QED
      BY <2>8, <2>9, <2>10, <2>11, <2>12 DEF LockInv
  <1>6. CASE WriteText(w) \/ WriteProgress(w)
    BY <1>6, LockUnchanged DEF WriteText, WriteProgress
  <1>7. CASE Notice(w)
    BY <1>3, <1>7 DEF Notice, At, Working
  <1>8. CASE CloseTurn(w)
    BY <1>3, <1>8 DEF CloseTurn, At, Working
  <1>9. CASE EndTask(w)
    BY <1>3, <1>9 DEF EndTask, At, Working
  <1>10. CASE FinishJob(w)
    <2> DEFINE j == agent[w].job
    <2>1. agent[w].pc \in Working /\ j \in Jobs /\ job[j] = "doing" /\ ~silent
      BY <1>2, <1>10 DEF FinishJob, At, Working, LockInv, HeldIsDoing, SilentIsDead
    <2>2. /\ agent'[w].pc \notin Working /\ agent'[w].job = None
          /\ \A q \in Agents : q # w => agent'[q] = agent[q]
      BY <1>4, <1>10 DEF FinishJob
    <2>3. job'[j] = "gone" /\ \A k \in Jobs : k # j => job'[k] = job[k] /\ job[k] # "doing"
      BY <1>10, <2>1 DEF FinishJob, TypeInv, TypeOK, LockInv, OneDoing
    <2>4. UNCHANGED <<silent, lease, post>>
      BY <1>10 DEF FinishJob
    <2>5. \A v \in Workers : v # w => agent[v].pc \notin Working
      BY <2>1 DEF LockInv, OneWorker
    <2> HIDE DEF j
    <2>6. OneDoing' /\ HeldIsDoing' /\ OneWorker' /\ SilentIsDead'
      BY <1>1, <2>1, <2>2, <2>3, <2>4, <2>5, AgentsAre
      DEF OneDoing, HeldIsDoing, OneWorker, SilentIsDead
    <2>7. ReleasedIsDead'
      BY <1>1, <1>2, <2>1, <2>2, <2>3, AgentsAre DEF LockInv, ReleasedIsDead
    <2>8. ReleaserLeases'
      BY <1>1, <2>2, <2>4, AgentsAre DEF LockInv, ReleaserLeases
    <2>9. TellsCancelled' /\ OneTeller'
      BY <1>1, <1>2, <2>1, <2>2, <2>3, AgentsAre DEF LockInv, TellsCancelled, OneTeller, Telling
    <2>10. UnsentIsNone'
      BY <2>1, <2>3, <2>4, AgentsAre DEF LockInv, UnsentIsNone
    <2> QED
      BY <2>6, <2>7, <2>8, <2>9, <2>10 DEF LockInv
  <1>11. CASE Crash(w)
    BY <1>1, <1>4, <1>11, LockFrame DEF Crash
  <1> QED
    BY <1>5, <1>6, <1>7, <1>8, <1>9, <1>10, <1>11 DEF Work

LEMMA LockRelease == ASSUME TypeInv, LockInv, NEW p \in Releasers, ReleaseStep(p) PROVE LockInv'
  <1>1. p \in Agents /\ p \notin Workers
    BY AgentsAre
  <1>2. /\ \A w \in Workers : agent[w].pc \in Working => agent[w].job \in Jobs
        /\ \A q \in Releasers : agent[q].pc \in Releasing => agent[q].job \in Jobs
        /\ \A s \in Stoppers : Telling(s) => agent[s].turn \in Jobs
    BY AgentsAre DEF TypeInv, Phases, WorkerOK, ReleaserOK, Telling, Stopping, Working
  <1>3. ASSUME NEW s \in Releasing, Goto(p, s)
        PROVE  /\ agent' \in [Agents -> Agent] /\ agent'[p].pc = s
               /\ agent'[p].job = agent[p].job /\ agent'[p].turn = agent[p].turn
               /\ \A q \in Agents : q # p => agent'[q] = agent[q]
    BY <1>1, <1>3, GotoIs DEF TypeInv, Releasing, PC
  <1>4. ASSUME NEW s \in Releasing, Goto(p, s), agent[p].pc \in Releasing \ {"lease"},
               UNCHANGED <<job, silent, lease, post>>
        PROVE  LockInv'
    BY <1>1, <1>3, <1>4, LockFrame DEF Releasing
  <1>5. ASSUME Become(p, Released(p)) \/ Become(p, Idle), agent[p].pc \in Releasing
        PROVE  /\ agent' \in [Agents -> Agent] /\ agent'[p].pc \in {"queued", "idle"}
               /\ agent'[p].job = None
               /\ \A q \in Agents : q # p => agent'[q] = agent[q]
    BY <1>1, <1>5, ReleasedIs, BecomeIs DEF TypeInv
  <1>6. CASE TakeLease(p)
    <2>1. /\ agent[p].pc = "lease" /\ agent'[p].pc = "settle" /\ agent'[p].job = agent[p].job
          /\ \A q \in Agents : q # p => agent'[q] = agent[q]
          /\ agent[p].job \in Jobs
      BY <1>2, <1>3, <1>6 DEF TakeLease, At, Releasing
    <2>2. /\ lease[agent[p].job] = None /\ lease'[agent[p].job] = p
          /\ \A j \in Jobs : j # agent[p].job => lease'[j] = lease[j]
          /\ UNCHANGED <<job, silent, post>>
      BY <1>6, <2>1 DEF TakeLease, TypeInv, TypeOK
    <2>3. /\ OneDoing' /\ HeldIsDoing' /\ OneWorker' /\ SilentIsDead'
          /\ TellsCancelled' /\ OneTeller' /\ UnsentIsNone'
      BY <1>1, <2>1, <2>2, AgentsAre
      DEF LockInv, OneDoing, HeldIsDoing, OneWorker, SilentIsDead, Doing,
          TellsCancelled, OneTeller, Telling, UnsentIsNone
    <2>4. ReleasedIsDead'
      BY <1>1, <2>1, <2>2, AgentsAre DEF LockInv, ReleasedIsDead, Releasing
    <2>5. ReleaserLeases'
      BY <1>1, <1>2, <2>1, <2>2, AgentsAre DEF LockInv, ReleaserLeases
    <2> QED
      BY <2>3, <2>4, <2>5 DEF LockInv
  <1>7. CASE LeaseIsTaken(p)
    <2>1. agent[p].pc \in Releasing
      BY <1>7 DEF LeaseIsTaken, At, Releasing
    <2>2. /\ agent' \in [Agents -> Agent] /\ agent'[p].pc \in {"queued", "idle"}
          /\ \A q \in Agents : q # p => agent'[q] = agent[q]
      BY <1>5, <1>7, <2>1 DEF LeaseIsTaken
    <2> QED
      BY <1>1, <1>7, <2>2, LockFrame DEF LeaseIsTaken, Releasing
  <1>8. CASE Settle(p)
    <2> DEFINE s == IF agent[p].job \in Turns /\ StreamIsOpen THEN "error" ELSE "release"
    <2>1. s \in Releasing /\ Goto(p, s) /\ agent[p].pc = "settle"
      BY <1>8 DEF Settle, At, Releasing
    <2> HIDE DEF s
    <2> QED
      BY <1>4, <1>8, <2>1 DEF Settle, Releasing
  <1>9. CASE WriteError(p) \/ WriteDone(p)
    BY <1>4, <1>9 DEF WriteError, WriteDone, At, Releasing
  <1>10. CASE ReleaseJob(p)
    <2> DEFINE j == agent[p].job
    <2>1. agent[p].pc = "release" /\ j \in Jobs /\ lease[j] = p
      BY <1>2, <1>10 DEF ReleaseJob, At, Releasing, LockInv, ReleaserLeases
    <2>2. /\ agent'[p].pc \in {"queued", "idle"} /\ agent'[p].job = None
          /\ \A q \in Agents : q # p => agent'[q] = agent[q]
      BY <1>5, <1>10, <2>1 DEF ReleaseJob, Releasing
    <2>3. /\ \A k \in Jobs : k # j => lease'[k] = lease[k] /\ job'[k] = job[k]
          /\ job'[j] = "gone" /\ job[j] \in {"doing", "gone"}
          /\ job[j] = "gone" => UNCHANGED <<job, silent>>
          /\ job[j] = "doing" => ~silent'
      BY <1>10, <2>1
      DEF ReleaseJob, Doing, TypeInv, TypeOK, LockInv, ReleasedIsDead, Releasing
    <2>4. \A w \in Workers : agent[w].job # j
      BY <2>1 DEF LockInv, ReleasedIsDead, Releasing
    <2>5. UNCHANGED post
      BY <1>10 DEF ReleaseJob
    <2> HIDE DEF j
    <2>6. OneDoing' /\ HeldIsDoing' /\ OneWorker'
      BY <1>1, <1>2, <2>2, <2>3, <2>4, AgentsAre DEF LockInv, OneDoing, HeldIsDoing, OneWorker
    <2>7. SilentIsDead'
      BY <1>1, <2>2, <2>3, AgentsAre DEF LockInv, SilentIsDead, Doing
    <2>8. ReleasedIsDead'
      BY <1>1, <1>2, <2>2, <2>3, AgentsAre DEF LockInv, ReleasedIsDead, Releasing
    <2>9. ReleaserLeases'
      BY <1>1, <1>2, <2>1, <2>2, <2>3, AgentsAre DEF LockInv, ReleaserLeases, Releasing
    <2>10. TellsCancelled' /\ OneTeller'
      BY <1>1, <1>2, <2>2, <2>3, AgentsAre DEF LockInv, TellsCancelled, OneTeller, Telling
    <2>11. UnsentIsNone'
      BY <2>3, <2>5, AgentsAre DEF LockInv, UnsentIsNone
    <2> QED
      BY <2>6, <2>7, <2>8, <2>9, <2>10, <2>11 DEF LockInv
  <1> QED
    BY <1>6, <1>7, <1>8, <1>9, <1>10 DEF ReleaseStep

LEMMA LockDies == ASSUME TypeInv, LockInv, NEW p \in Releasers, Dies(p) PROVE LockInv'
  <1>1. p \in Agents /\ p \notin Workers
    BY AgentsAre
  <1>2. /\ agent'[p].pc = "idle" /\ \A q \in Agents : q # p => agent'[q] = agent[q]
    BY <1>1, IdleType, BecomeIs DEF Dies, TypeInv, Idle
  <1>3. /\ \A j \in Jobs : lease'[j] = lease[j] \/ lease[j] = p
        /\ UNCHANGED <<job, silent, post>>
    BY DEF Dies
  <1>4. \A q \in Releasers : agent[q].pc \in Releasing => agent[q].job \in Jobs
    BY DEF TypeInv, Phases, ReleaserOK
  <1>5. /\ OneDoing' /\ HeldIsDoing' /\ OneWorker' /\ SilentIsDead'
        /\ TellsCancelled' /\ OneTeller' /\ UnsentIsNone'
    BY <1>1, <1>2, <1>3, AgentsAre
    DEF LockInv, OneDoing, HeldIsDoing, OneWorker, SilentIsDead, Doing,
        TellsCancelled, OneTeller, Telling, UnsentIsNone
  <1>6. ReleasedIsDead' /\ ReleaserLeases'
    BY <1>1, <1>2, <1>3, <1>4, AgentsAre DEF LockInv, ReleasedIsDead, ReleaserLeases, Releasing
  <1> QED
    BY <1>5, <1>6 DEF LockInv

\* A job listed as a dead worker's is held by no live one.
LEMMA LockListed ==
    ASSUME TypeInv, LockInv, NEW p \in Releasers, NEW j \in DeadJobs, agent' \in [Agents -> Agent],
           agent'[p].pc = "lease", agent'[p].job = j,
           \A q \in Agents : q # p => agent'[q] = agent[q],
           UNCHANGED <<job, silent, lease, post>>
    PROVE  LockInv'
  <1>1. silent /\ j \in Jobs /\ job[j] = "doing"
    BY DEF DeadJobs, Doing
  <1>2. \A w \in Workers : agent[w].job = None
    BY <1>1 DEF LockInv, SilentIsDead, TypeInv, Phases, WorkerOK
  <1>3. p \in Agents /\ p \notin Workers
    BY AgentsAre
  <1>4. /\ OneDoing' /\ HeldIsDoing' /\ OneWorker' /\ SilentIsDead'
        /\ TellsCancelled' /\ OneTeller' /\ UnsentIsNone'
    BY <1>3, AgentsAre
    DEF LockInv, OneDoing, HeldIsDoing, OneWorker, SilentIsDead, Doing,
        TellsCancelled, OneTeller, Telling, UnsentIsNone
  <1>5. ReleasedIsDead' /\ ReleaserLeases'
    BY <1>1, <1>2, <1>3, AgentsAre DEF LockInv, ReleasedIsDead, ReleaserLeases, Releasing
  <1> QED
    BY <1>4, <1>5 DEF LockInv

LEMMA LockLists == ASSUME TypeInv, LockInv, NEW s \in Sweepers, SweepLists(s) PROVE LockInv'
  <1>1. PICK j \in DeadJobs : Become(s, [Idle EXCEPT !.pc = "lease", !.job = j])
    BY DEF SweepLists
  <1> DEFINE a == [Idle EXCEPT !.pc = "lease", !.job = j]
  <1>2. j \in Jobs
    BY DEF DeadJobs, Doing
  <1>3. a \in Agent /\ a.pc = "lease" /\ a.job = j /\ Become(s, a)
    BY <1>1, <1>2 DEF Idle, Agent, PC
  <1> HIDE DEF a
  <1>4. /\ agent' \in [Agents -> Agent] /\ agent'[s] = a
        /\ \A q \in Agents : q # s => agent'[q] = agent[q]
    BY <1>3, AgentsAre, BecomeIs DEF TypeInv
  <1> QED
    BY <1>3, <1>4, AgentsAre, LockListed DEF SweepLists

LEMMA LockStop == ASSUME TypeInv, LockInv, NEW s \in Stoppers, Stop(s) PROVE LockInv'
  <1>1. /\ s \in Releasers /\ s \in Agents /\ s \notin Workers /\ agent[s] \in Agent
        /\ agent[s].pc \in Stopping => agent[s].turn \in Turns
    BY AgentsAre DEF TypeInv, TypeOK, Phases, ReleaserOK
  <1>2. ASSUME NEW q \in PC, q \notin Releasing, q \in {"tell", "close"} => Telling(s),
               Goto(s, q), UNCHANGED <<job, silent, lease, post>>
        PROVE  LockInv'
    <2>1. /\ agent' \in [Agents -> Agent] /\ agent'[s].pc = q /\ agent'[s].turn = agent[s].turn
          /\ \A r \in Agents : r # s => agent'[r] = agent[r]
      BY <1>1, <1>2, GotoIs DEF TypeInv
    <2> QED
      BY <1>1, <1>2, <2>1, LockFrame
  <1>3. ASSUME NEW a \in Agent, a.pc \notin Releasing, a.pc \notin {"tell", "close"},
               Become(s, a), UNCHANGED <<job, silent, lease, post>>
        PROVE  LockInv'
    <2>1. /\ agent' \in [Agents -> Agent] /\ agent'[s] = a
          /\ \A r \in Agents : r # s => agent'[r] = agent[r]
      BY <1>1, <1>3, BecomeIs DEF TypeInv
    <2> QED
      BY <1>1, <1>3, <2>1, LockFrame
  <1>4. CASE FindsNothing(s)
    BY <1>2, <1>4 DEF FindsNothing, PC, Releasing
  <1>5. CASE FindsTurn(s)
    <2> DEFINE a == [Idle EXCEPT !.pc = "request", !.turn = OpenTurn]
    <2>1. a \in Agent /\ a.pc = "request" /\ Become(s, a)
      BY <1>5, OpenTurnType DEF FindsTurn, Idle, Agent, PC, TypeInv
    <2> HIDE DEF a
    <2> QED
      BY <1>3, <1>5, <2>1 DEF FindsTurn, Releasing
  <1>6. CASE RequestCancel(s)
    BY <1>2, <1>6 DEF RequestCancel, PC, Releasing
  <1>7. CASE ReleaseDead(s)
    <2>1. ASSUME NEW j \in DeadJobs \cap Turns,
                 Become(s, [agent[s] EXCEPT !.pc = "lease", !.job = j])
          PROVE  LockInv'
      <3> DEFINE a == [agent[s] EXCEPT !.pc = "lease", !.job = j]
      <3>1. a \in Agent /\ a.pc = "lease" /\ a.job = j /\ Become(s, a)
        BY <1>1, <2>1, AgentsAre DEF Agent, PC
      <3> HIDE DEF a
      <3>2. /\ agent' \in [Agents -> Agent] /\ agent'[s] = a
            /\ \A q \in Agents : q # s => agent'[q] = agent[q]
        BY <1>1, <3>1, BecomeIs DEF TypeInv
      <3> QED
        BY <1>1, <1>7, <3>1, <3>2, LockListed DEF ReleaseDead
    <2>2. ASSUME Become(s, Released(s)) PROVE LockInv'
      <3>1. Released(s) \in Agent /\ Released(s).pc \in {"queued", "idle"}
        BY <1>1, <1>7, ReleasedIs DEF ReleaseDead, At
      <3> QED
        BY <1>3, <1>7, <2>2, <3>1 DEF ReleaseDead, Releasing
    <2> QED
      BY <1>7, <2>1, <2>2 DEF ReleaseDead
  <1>8. CASE ListQueued(s)
    BY <1>2, <1>8 DEF ListQueued, PC, Releasing
  <1>9. CASE CancelJob(s) /\ job[agent[s].turn] # "todo"
    BY <1>2, <1>9 DEF CancelJob, PC, Releasing
  <1>10. CASE CancelJob(s) /\ job[agent[s].turn] = "todo"
    <2> DEFINE t == agent[s].turn
    <2>1. t \in Turns /\ t \in Jobs /\ agent[s].pc = "cancel" /\ job[t] = "todo"
      BY <1>1, <1>10, AgentsAre DEF CancelJob, At, Stopping
    <2>2. /\ agent'[s].pc = "tell" /\ agent'[s].turn = t
          /\ \A q \in Agents : q # s => agent'[q] = agent[q]
      BY <1>1, <1>10, GotoIs DEF CancelJob, PC, TypeInv
    <2>3. job'[t] = "cancelled" /\ \A k \in Jobs : k # t => job'[k] = job[k]
      BY <1>10, <2>1 DEF CancelJob, Leaves, TypeInv, TypeOK
    <2>4. UNCHANGED <<silent, lease, post>>
      BY <1>10 DEF CancelJob
    <2>5. /\ \A w \in Workers : agent[w].pc \in Working => agent[w].job \in Jobs
          /\ \A q \in Releasers : agent[q].pc \in Releasing => agent[q].job \in Jobs
          /\ \A r \in Stoppers : Telling(r) => agent[r].turn \in Jobs
      BY AgentsAre DEF TypeInv, Phases, WorkerOK, ReleaserOK, Telling, Stopping, Working
    <2> HIDE DEF t
    <2>6. OneDoing' /\ HeldIsDoing' /\ OneWorker'
      BY <1>1, <2>1, <2>2, <2>3, <2>5, AgentsAre DEF LockInv, OneDoing, HeldIsDoing, OneWorker
    <2>7. SilentIsDead'
      BY <1>1, <2>1, <2>2, <2>3, <2>4, AgentsAre DEF LockInv, SilentIsDead, Doing
    <2>8. ReleasedIsDead' /\ ReleaserLeases'
      BY <1>1, <2>1, <2>2, <2>3, <2>4, <2>5, AgentsAre
      DEF LockInv, ReleasedIsDead, ReleaserLeases, Releasing
    <2>9. TellsCancelled' /\ OneTeller'
      BY <1>1, <2>1, <2>2, <2>3, <2>5, AgentsAre DEF LockInv, TellsCancelled, OneTeller, Telling
    <2>10. UnsentIsNone'
      BY <2>1, <2>3, <2>4, AgentsAre DEF LockInv, UnsentIsNone
    <2> QED
      BY <2>6, <2>7, <2>8, <2>9, <2>10 DEF LockInv
  <1>11. CASE TellStopped(s) \/ CloseQueued(s)
    BY <1>2, <1>11 DEF TellStopped, CloseQueued, At, Telling, PC, Releasing
  <1>12. CASE PollClean(s) \/ Deadline(s)
    <2>1. ASSUME NEW q \in {"clean", "refused"}, Become(s, [Idle EXCEPT !.pc = q])
          PROVE  LockInv'
      <3> DEFINE a == [Idle EXCEPT !.pc = q]
      <3>1. a \in Agent /\ a.pc = q /\ Become(s, a)
        BY <2>1 DEF Idle, Agent, PC
      <3> HIDE DEF a
      <3> QED
        BY <1>3, <1>12, <3>1 DEF PollClean, Deadline, Releasing
    <2> QED
      BY <1>12, <2>1 DEF PollClean, Deadline
  <1> QED
    BY <1>4, <1>5, <1>6, <1>7, <1>8, <1>9, <1>10, <1>11, <1>12 DEF Stop

LEMMA LockStep == TypeInv /\ LockInv /\ [Next]_vars => LockInv'
  <1> SUFFICES ASSUME TypeInv, LockInv, [Next]_vars PROVE LockInv'
    OBVIOUS
  <1>1. CASE Lapse
    <2>1. PICK j \in Doing : \A w \in Workers : agent[w].job # j
      BY <1>1 DEF Lapse
    <2>2. \A w \in Workers : agent[w].pc \in Working =>
             agent[w].job \in Jobs /\ job[agent[w].job] = "doing"
      BY DEF TypeInv, Phases, WorkerOK, LockInv, HeldIsDoing, Working
    <2>3. \A w \in Workers : agent[w].pc \notin Working
      BY <2>1, <2>2 DEF LockInv, OneDoing, Doing
    <2>4. SilentIsDead'
      BY <1>1, <2>1, <2>3 DEF Lapse, SilentIsDead, Doing
    <2> QED
      BY <1>1, <2>4
      DEF Lapse, LockInv, OneDoing, HeldIsDoing, OneWorker, ReleasedIsDead,
          ReleaserLeases, TellsCancelled, OneTeller, Telling, UnsentIsNone
  <1>2. CASE UNCHANGED vars
    BY <1>2, LockUnchanged DEF vars
  <1> QED
    BY <1>1, <1>2, LockPost, LockWork, LockRelease, LockDies, LockStop, LockLists DEF Next

LEMMA LocksHold == Spec => [](TypeInv /\ LockInv)
  <1>1. Init => TypeInv /\ LockInv
    BY TypeInit, LockInit
  <1>2. TypeInv /\ LockInv /\ [Next]_vars => (TypeInv /\ LockInv)'
    BY TypeStep, LockStep
  <1> QED
    BY <1>1, <1>2, PTL DEF Spec

(* A turn has one writer at a time: its live worker, the one releaser that   *)
(* leases the job of its dead one, or the one stop that took it out of the  *)
(* queue. The states of its job tell the three apart.                       *)
THEOREM OneWriterAlways == Spec => []OneWriterPerTurn
  <1>1. TypeInv /\ LockInv => OneWriterPerTurn
    <2> SUFFICES ASSUME TypeInv, LockInv, NEW t \in Turns, NEW p \in Writers(t), NEW q \in Writers(t)
                 PROVE  p = q
      BY DEF OneWriterPerTurn
    <2>1. t \in Jobs
      BY AgentsAre
    <2> DEFINE Works(r)    == r \in Workers /\ agent[r].job = t /\ agent[r].pc \in {"run", "closing"}
               Releases(r) == r \in Releasers /\ agent[r].job = t /\ agent[r].pc \in {"error", "end"}
               Tells(r)    == r \in Stoppers /\ agent[r].turn = t /\ Telling(r)
    <2>2. \A r \in Writers(t) : Works(r) \/ Releases(r) \/ Tells(r)
      BY DEF Writers, Telling
    <2>3. \A r : Works(r) => job[t] = "doing" /\ agent[r].pc \in Working
      BY DEF LockInv, HeldIsDoing, Working
    <2>4. \A r : Releases(r) =>
             /\ job[t] \in {"doing", "gone"} /\ lease[t] = r
             /\ \A w \in Workers : agent[w].job # t
      BY DEF LockInv, ReleasedIsDead, ReleaserLeases, Releasing
    <2>5. \A r : Tells(r) => job[t] = "cancelled"
      BY DEF LockInv, TellsCancelled
    <2>6. CASE Works(p) /\ Works(q)
      BY <2>3, <2>6 DEF LockInv, OneWorker
    <2>7. CASE Releases(p) /\ Releases(q)
      BY <2>4, <2>7
    <2>8. CASE Tells(p) /\ Tells(q)
      BY <2>8 DEF LockInv, OneTeller
    <2> QED
      BY <2>2, <2>3, <2>4, <2>5, <2>6, <2>7, <2>8
  <1> QED
    BY <1>1, LocksHold, PTL

-----------------------------------------------------------------------------
(* What the log holds of a turn *)

Live(w, t) == w \in Workers /\ agent[w].job = t /\ agent[w].pc \in {"run", "closing"}

AskedIsLogged ==
    \A t \in Turns : post[t].pc \in {"defer", "sent"} => \E i \in DOMAIN log : log[i].turn = t

QueuedIsOpen == \A t \in Turns : job[t] \in {"none", "todo"} => ~Has(t, "done")

LiveIsOpen == \A w \in Workers, t \in Turns : Live(w, t) => ~Has(t, "done")

LogInv == AskedIsLogged /\ QueuedIsOpen /\ LiveIsOpen

\* A written row is the only one that is new.
LEMMA WriteHas ==
    ASSUME TypeOK, NEW u \in Turns \cup {None}, NEW k \in Kind, Write(u, k)
    PROVE  /\ \A t, m : Has(t, m)' <=> Has(t, m) \/ (t = u /\ m = k)
           /\ \A t : (\E i \in DOMAIN log : log[i].turn = t) => \E i \in DOMAIN log' : log'[i].turn = t
           /\ \E i \in DOMAIN log' : log'[i].turn = u
  <1>1. /\ DOMAIN log' = DOMAIN log \cup {Len(log) + 1} /\ Len(log) + 1 \notin DOMAIN log
        /\ \A i \in DOMAIN log : log'[i] = log[i]
        /\ log'[Len(log) + 1] = [turn |-> u, kind |-> k]
    <2>1. /\ Len(log) \in Nat /\ DOMAIN log = 1..Len(log) /\ DOMAIN log' = 1..Len(log) + 1
          /\ \A i \in DOMAIN log : log'[i] = log[i]
          /\ log'[Len(log) + 1] = [turn |-> u, kind |-> k]
      BY WriteIs
    <2>2. \A n \in Nat : 1..n + 1 = (1..n) \cup {n + 1} /\ n + 1 \notin 1..n
      OBVIOUS
    <2> QED
      BY <2>1, <2>2
  <1>2. \A t, m : [turn |-> u, kind |-> k] = [turn |-> t, kind |-> m] <=> t = u /\ m = k
    <2> TAKE t, m
    <2>1. ASSUME [turn |-> u, kind |-> k] = [turn |-> t, kind |-> m] PROVE t = u /\ m = k
      <3>1. /\ [turn |-> u, kind |-> k].turn = [turn |-> t, kind |-> m].turn
            /\ [turn |-> u, kind |-> k].kind = [turn |-> t, kind |-> m].kind
        BY <2>1
      <3> QED
        BY <3>1
    <2> QED
      BY <2>1
  <1>3. \A t, m : Has(t, m)' <=> Has(t, m) \/ (t = u /\ m = k)
    BY <1>1, <1>2 DEF Has
  <1> QED
    BY <1>1, <1>3

\* A step that writes at most one row, and a terminator only for a turn that no
\* worker runs and no queue holds.
LEMMA LogFrame ==
    ASSUME TypeInv, LogInv,
           NEW u \in Turns \cup {None}, NEW k \in Kind, UNCHANGED log \/ Write(u, k),
           \A t \in Turns : post'[t].pc \in {"defer", "sent"} =>
              post[t].pc \in {"defer", "sent"} \/ (Write(u, k) /\ t = u),
           \A t \in Turns : job'[t] \in {"none", "todo"} => job[t] \in {"none", "todo"},
           \A w \in Workers, t \in Turns : Live(w, t)' => Live(w, t) \/ job[t] = "todo",
           Write(u, k) /\ k = "done" => /\ u \in Turns => job'[u] \notin {"none", "todo"}
                                        /\ \A w \in Workers : ~Live(w, u)'
    PROVE  LogInv'
  <1>1. CASE UNCHANGED log
    <2>1. \A t, m : Has(t, m)' <=> Has(t, m)
      BY <1>1 DEF Has
    <2>2. ~Write(u, k)
      <3>1. ASSUME Write(u, k) PROVE FALSE
        <4>1. Len(log) \in Nat /\ Len(log') = Len(log) + 1
          BY <3>1, WriteIs DEF TypeInv
        <4>2. Len(log') = Len(log)
          BY <1>1
        <4> QED
          BY <4>1, <4>2
      <3> QED
        BY <3>1
    <2>3. \A t \in Turns : post'[t].pc \in {"defer", "sent"} => post[t].pc \in {"defer", "sent"}
      BY <2>2
    <2>4. AskedIsLogged'
      BY <1>1, <2>3 DEF LogInv, AskedIsLogged
    <2> QED
      BY <2>1, <2>4 DEF LogInv, QueuedIsOpen, LiveIsOpen
  <1>2. CASE Write(u, k)
    <2>1. /\ \A t, m : Has(t, m)' <=> Has(t, m) \/ (t = u /\ m = k)
          /\ \A t : (\E i \in DOMAIN log : log[i].turn = t) => \E i \in DOMAIN log' : log'[i].turn = t
          /\ \E i \in DOMAIN log' : log'[i].turn = u
      BY <1>2, WriteHas DEF TypeInv
    <2>2. AskedIsLogged'
      BY <2>1 DEF LogInv, AskedIsLogged
    <2>3. QueuedIsOpen'
      BY <1>2, <2>1 DEF LogInv, QueuedIsOpen
    <2>4. LiveIsOpen'
      BY <1>2, <2>1 DEF LogInv, LiveIsOpen, QueuedIsOpen
    <2> QED
      BY <2>2, <2>3, <2>4 DEF LogInv
  <1> QED
    BY <1>1, <1>2

LEMMA LogInit == Init => LogInv
  <1> SUFFICES ASSUME Init PROVE LogInv
    OBVIOUS
  <1>1. DOMAIN log = {} /\ \A t \in Turns : post[t].pc = "new"
    BY DEF Init
  <1> QED
    BY <1>1 DEF LogInv, AskedIsLogged, QueuedIsOpen, LiveIsOpen, Has

LEMMA LogPost == ASSUME TypeInv, LockInv, LogInv, NEW t \in Turns, Post(t) PROVE LogInv'
  <1>1. ASSUME NEW s \in PostPC, NEW v \in Turns \cup {None}, PostPos(t, s, v)
        PROVE  /\ post'[t].pc = s /\ \A w \in Turns : w # t => post'[w] = post[w]
    BY <1>1 DEF PostPos, TypeInv, TypeOK
  <1>2. CASE PostReads(t) \/ PostStops(t) \/ PostDies(t)
    <2>1. \A v \in Turns : post'[v].pc \in {"defer", "sent"} => post[v].pc \in {"defer", "sent"}
      BY <1>2 DEF PostReads, PostStops, PostDies, PostPos, TypeInv, TypeOK
    <2>2. UNCHANGED <<log, job, agent>>
      BY <1>2 DEF PostReads, PostStops, PostDies
    <2> QED
      BY <2>1, <2>2 DEF LogInv, AskedIsLogged, QueuedIsOpen, LiveIsOpen, Live, Has
  <1>3. CASE PostAsks(t)
    <2>1. /\ Write(t, "ask") /\ UNCHANGED <<job, agent>> /\ "ask" \in Kind
          /\ \A v \in Turns : post'[v].pc \in {"defer", "sent"} =>
                post[v].pc \in {"defer", "sent"} \/ v = t
      BY <1>3 DEF PostAsks, PostPos, Kind, TypeInv, TypeOK
    <2>2. /\ \A v, m : Has(v, m)' <=> Has(v, m) \/ (v = t /\ m = "ask")
          /\ \A v : (\E i \in DOMAIN log : log[i].turn = v) => \E i \in DOMAIN log' : log'[i].turn = v
          /\ \E i \in DOMAIN log' : log'[i].turn = t
      BY <2>1, WriteHas DEF TypeInv
    <2>3. AskedIsLogged'
      BY <2>1, <2>2 DEF LogInv, AskedIsLogged
    <2> QED
      BY <2>1, <2>2, <2>3 DEF LogInv, QueuedIsOpen, LiveIsOpen, Live
  <1>4. CASE PostDefers(t)
    <2>1. /\ job[t] = "none" /\ UNCHANGED <<log, agent>>
          /\ \A v \in Turns : v # t => job'[v] = job[v]
          /\ \A v \in Turns : post'[v].pc \in {"defer", "sent"} => post[v].pc \in {"defer", "sent"}
      BY <1>4, AgentsAre
      DEF PostDefers, PostPos, LockInv, UnsentIsNone, TypeInv, TypeOK
    <2> QED
      BY <2>1 DEF LogInv, AskedIsLogged, QueuedIsOpen, LiveIsOpen, Live, Has
  <1> QED
    BY <1>2, <1>3, <1>4 DEF Post

\* What a step that is not a POST's leaves of the jobs and of the posts.
LEMMA StepJobs ==
    ASSUME TypeInv, LockInv,
           \/ \E w \in Workers : Work(w)
           \/ \E p \in Releasers : ReleaseStep(p) \/ Dies(p)
           \/ \E s \in Stoppers : Stop(s)
           \/ \E s \in Sweepers : SweepLists(s)
           \/ Lapse
    PROVE  /\ UNCHANGED post
           /\ \A j \in Jobs : job'[j] \in {"none", "todo"} => job[j] \in {"none", "todo"}
  <1>1. ASSUME NEW w \in Workers, Work(w)
        PROVE  /\ UNCHANGED post
               /\ \A j \in Jobs : job'[j] \in {"none", "todo"} => job[j] \in {"none", "todo"}
    <2>1. UNCHANGED post
      BY <1>1 DEF Work, Take, WriteText, WriteProgress, Notice, CloseTurn, EndTask, FinishJob, Crash
    <2>2. UNCHANGED job \/ Take(w) \/ FinishJob(w)
      BY <1>1 DEF Work, Take, WriteText, WriteProgress, Notice, CloseTurn, EndTask, FinishJob, Crash
    <2> QED
      BY <2>1, <2>2 DEF Take, FinishJob, Leaves, TypeInv, TypeOK
  <1>2. ASSUME NEW p \in Releasers, ReleaseStep(p) \/ Dies(p)
        PROVE  /\ UNCHANGED post
               /\ \A j \in Jobs : job'[j] \in {"none", "todo"} => job[j] \in {"none", "todo"}
    BY <1>2 DEF ReleaseStep, Dies, TakeLease, LeaseIsTaken, Settle, WriteError, WriteDone,
                ReleaseJob, TypeInv, TypeOK
  <1>3. ASSUME NEW s \in Stoppers, Stop(s)
        PROVE  /\ UNCHANGED post
               /\ \A j \in Jobs : job'[j] \in {"none", "todo"} => job[j] \in {"none", "todo"}
    <2>1. UNCHANGED post /\ (UNCHANGED job \/ Leaves(agent[s].turn, "cancelled"))
      BY <1>3 DEF Stop, FindsTurn, FindsNothing, RequestCancel, ReleaseDead, ListQueued,
                  CancelJob, TellStopped, CloseQueued, PollClean, Deadline
    <2> QED
      BY <2>1 DEF Leaves, TypeInv, TypeOK
  <1> QED
    BY <1>1, <1>2, <1>3 DEF SweepLists, Lapse

LEMMA LogWork == ASSUME TypeInv, LockInv, LogInv, NEW w \in Workers, Work(w) PROVE LogInv'
  <1>1. w \in Agents /\ WorkerOK(agent[w]) /\ None \notin Turns
    BY AgentsAre DEF TypeInv, Phases
  <1>2. /\ UNCHANGED post
        /\ \A t \in Turns : job'[t] \in {"none", "todo"} => job[t] \in {"none", "todo"}
    BY StepJobs, AgentsAre
  <1>3. ASSUME NEW a \in Agent, Become(w, a), UNCHANGED log,
               \A t \in Turns : a.job = t /\ a.pc \in {"run", "closing"} => Live(w, t) \/ job[t] = "todo"
        PROVE  LogInv'
    <2>1. agent'[w] = a /\ \A q \in Agents : q # w => agent'[q] = agent[q]
      BY <1>1, <1>3, BecomeIs DEF TypeInv
    <2>2. \A v \in Workers, t \in Turns : Live(v, t)' => Live(v, t) \/ job[t] = "todo"
      BY <1>3, <2>1, AgentsAre DEF Live
    <2>3. \A t, m : Has(t, m)' <=> Has(t, m)
      BY <1>3 DEF Has
    <2> QED
      BY <1>2, <1>3, <2>2, <2>3 DEF LogInv, AskedIsLogged, QueuedIsOpen, LiveIsOpen
  <1>4. ASSUME NEW s \in {"closing", "finish"}, Goto(w, s)
        PROVE  /\ agent'[w].pc = s /\ agent'[w].job = agent[w].job
               /\ \A q \in Agents : q # w => agent'[q] = agent[q]
    BY <1>1, <1>4, GotoIs DEF TypeInv, PC
  <1>5. CASE Take(w)
    <2>1. PICK j \in Jobs : job[j] = "todo" /\ Become(w, [Idle EXCEPT !.pc = "run", !.job = j])
      BY <1>5 DEF Take
    <2> DEFINE a == [Idle EXCEPT !.pc = "run", !.job = j]
    <2>2. a \in Agent /\ a.job = j /\ Become(w, a)
      BY <2>1 DEF Idle, Agent, PC
    <2> HIDE DEF a
    <2> QED
      BY <1>3, <1>5, <2>1, <2>2 DEF Take
  <1>6. CASE WriteText(w) \/ WriteProgress(w)
    <2>1. /\ UNCHANGED <<job, agent>>
          /\ \/ Write(agent[w].job, "text") /\ agent[w].job \in Turns
             \/ Write(None, "progress")
      BY <1>6 DEF WriteText, WriteProgress
    <2>2. \A v \in Workers, t \in Turns : Live(v, t)' <=> Live(v, t)
      BY <2>1 DEF Live
    <2>3. CASE Write(agent[w].job, "text") /\ agent[w].job \in Turns
      BY <1>2, <2>2, <2>3, LogFrame DEF Kind
    <2>4. CASE Write(None, "progress")
      BY <1>2, <2>2, <2>4, LogFrame DEF Kind
    <2> QED
      BY <2>1, <2>3, <2>4
  <1>7. CASE Notice(w)
    <2>1. /\ agent[w].pc = "run" /\ agent[w].job \in Turns /\ Write(agent[w].job, "stopped")
          /\ Goto(w, "closing")
      BY <1>7 DEF Notice, At, TypeInv, TypeOK
    <2>2. \A v \in Workers, t \in Turns : Live(v, t)' => Live(v, t)
      BY <1>4, <2>1, AgentsAre DEF Live
    <2> QED
      BY <1>2, <2>1, <2>2, LogFrame DEF Kind
  <1>8. CASE CloseTurn(w)
    <2>1. PICK u \in Turns : agent[w].job = u
      BY <1>8 DEF CloseTurn
    <2>2. /\ agent[w].pc \in {"run", "closing"} /\ Write(u, "done")
          /\ Goto(w, "finish") /\ UNCHANGED job
      BY <1>8, <2>1 DEF CloseTurn, At
    <2>3. \A v \in Workers, t \in Turns : Live(v, t)' => Live(v, t)
      BY <1>4, <2>2, AgentsAre DEF Live
    <2>4. ASSUME NEW v \in Workers PROVE ~Live(v, u)'
      <3>1. CASE v = w
        BY <1>4, <2>2, <3>1 DEF Live
      <3>2. CASE v # w
        BY <2>1, <2>2, <2>3, <3>2 DEF LockInv, OneWorker, Live, Working
      <3> QED
        BY <3>1, <3>2
    <2>5. job'[u] \notin {"none", "todo"}
      BY <2>1, <2>2 DEF LockInv, HeldIsDoing, Working
    <2> QED
      BY <1>2, <2>2, <2>3, <2>4, <2>5, LogFrame DEF Kind
  <1>9. CASE EndTask(w)
    <2>1. \A v \in Workers, t \in Turns : Live(v, t)' => Live(v, t)
      BY <1>4, <1>9, AgentsAre DEF EndTask, Live
    <2>2. \A t, m : Has(t, m)' <=> Has(t, m)
      BY <1>9 DEF EndTask, Has
    <2> QED
      BY <1>2, <1>9, <2>1, <2>2 DEF EndTask, LogInv, AskedIsLogged, QueuedIsOpen, LiveIsOpen
  <1>10. CASE FinishJob(w) \/ Crash(w)
    <2>1. Become(w, Idle) /\ UNCHANGED log
      BY <1>10 DEF FinishJob, Crash
    <2>2. Idle \in Agent /\ Idle.pc = "idle"
      BY IdleType DEF Idle
    <2> QED
      BY <1>3, <2>1, <2>2
  <1> QED
    BY <1>5, <1>6, <1>7, <1>8, <1>9, <1>10 DEF Work

\* A releaser's or a stop's step starts no work.
LEMMA OthersStart ==
    ASSUME TypeInv, NEW p \in Releasers, ReleaseStep(p) \/ Dies(p) \/ (p \in Stoppers /\ Stop(p))
                                         \/ (p \in Sweepers /\ SweepLists(p))
    PROVE  \A w \in Workers : agent'[w] = agent[w]
  <1>1. \E a : Become(p, a)
    BY DEF ReleaseStep, Dies, Stop, SweepLists, TakeLease, LeaseIsTaken, Settle, WriteError,
           WriteDone, ReleaseJob, FindsTurn, FindsNothing, RequestCancel, ReleaseDead,
           ListQueued, CancelJob, TellStopped, CloseQueued, PollClean, Deadline, Goto
  <1> QED
    BY <1>1, AgentsAre DEF Become, TypeInv, TypeOK

LEMMA LogOthers ==
    ASSUME TypeInv, LockInv, LogInv, NEW p \in Releasers,
           ReleaseStep(p) \/ Dies(p) \/ (p \in Stoppers /\ Stop(p)) \/ (p \in Sweepers /\ SweepLists(p))
    PROVE  LogInv'
  <1>1. /\ UNCHANGED post
        /\ \A t \in Turns : job'[t] \in {"none", "todo"} => job[t] \in {"none", "todo"}
    BY StepJobs, AgentsAre
  <1>2. \A w \in Workers : \A t : Live(w, t)' <=> Live(w, t)
    BY OthersStart DEF Live
  <1>3. ASSUME UNCHANGED log PROVE LogInv'
    <2>1. \A t, m : Has(t, m)' <=> Has(t, m)
      BY <1>3 DEF Has
    <2> QED
      BY <1>1, <1>2, <1>3, <2>1 DEF LogInv, AskedIsLogged, QueuedIsOpen, LiveIsOpen
  <1>4. ASSUME NEW u \in Turns, NEW k \in Kind, Write(u, k), UNCHANGED job,
               job[u] \notin {"none", "todo"}, \A w \in Workers : ~Live(w, u)
        PROVE  LogInv'
    BY <1>1, <1>2, <1>4, LogFrame
  <1>5. CASE WriteError(p) \/ WriteDone(p)
    <2>1. /\ agent[p].pc \in {"error", "end"} /\ UNCHANGED job
          /\ Write(agent[p].job, "failed") \/ Write(agent[p].job, "done")
      BY <1>5 DEF WriteError, WriteDone, At
    <2>2. /\ agent[p].job \in Turns /\ job[agent[p].job] \in {"doing", "gone"}
          /\ \A w \in Workers : agent[w].job # agent[p].job
      BY <2>1 DEF TypeInv, Phases, ReleaserOK, LockInv, ReleasedIsDead, Releasing
    <2> QED
      BY <1>4, <2>1, <2>2 DEF Live, Kind
  <1>6. CASE p \in Stoppers /\ (TellStopped(p) \/ CloseQueued(p))
    <2>1. /\ agent[p].pc \in {"tell", "close"} /\ UNCHANGED job
          /\ Write(agent[p].turn, "stopped") \/ Write(agent[p].turn, "done")
      BY <1>6 DEF TellStopped, CloseQueued, At
    <2>2. agent[p].turn \in Turns /\ agent[p].turn \in Jobs /\ job[agent[p].turn] = "cancelled"
      BY <1>6, <2>1, AgentsAre
      DEF TypeInv, Phases, ReleaserOK, Stopping, LockInv, TellsCancelled, Telling
    <2>3. \A w \in Workers : ~Live(w, agent[p].turn)
      BY <2>2 DEF Live, LockInv, HeldIsDoing, Working
    <2> QED
      BY <1>4, <2>1, <2>2, <2>3 DEF Kind
  <1>7. UNCHANGED log \/ WriteError(p) \/ WriteDone(p)
        \/ (p \in Stoppers /\ (TellStopped(p) \/ CloseQueued(p)))
    BY DEF ReleaseStep, Dies, Stop, SweepLists, TakeLease, LeaseIsTaken, Settle, ReleaseJob,
           FindsTurn, FindsNothing, RequestCancel, ReleaseDead, ListQueued, CancelJob,
           PollClean, Deadline
  <1> QED
    BY <1>3, <1>5, <1>6, <1>7

LEMMA LogStep == TypeInv /\ LockInv /\ LogInv /\ [Next]_vars => LogInv'
  <1> SUFFICES ASSUME TypeInv, LockInv, LogInv, [Next]_vars PROVE LogInv'
    OBVIOUS
  <1>1. CASE Lapse \/ UNCHANGED vars
    <2>1. UNCHANGED <<log, post, job, agent>>
      BY <1>1 DEF Lapse, vars
    <2> QED
      BY <2>1 DEF LogInv, AskedIsLogged, QueuedIsOpen, LiveIsOpen, Live, Has
  <1> QED
    BY <1>1, LogPost, LogWork, LogOthers, AgentsAre DEF Next

LEMMA LogHolds == Spec => [](TypeInv /\ LockInv /\ LogInv)
  <1>1. Init => TypeInv /\ LockInv /\ LogInv
    BY TypeInit, LockInit, LogInit
  <1>2. TypeInv /\ LockInv /\ LogInv /\ [Next]_vars => (TypeInv /\ LockInv /\ LogInv)'
    BY TypeStep, LockStep, LogStep
  <1> QED
    BY <1>1, <1>2, PTL DEF Spec

LEMMA ReleasedGoes ==
    ASSUME TypeOK, NEW p \in Agents PROVE Released(p) \in Agent /\ Released(p).pc # "clean"
  <1> DEFINE a == [Idle EXCEPT !.pc = "queued", !.turn = agent[p].turn]
  <1>1. agent[p] \in Agent /\ Idle \in Agent /\ Idle.pc # "clean"
    BY IdleType DEF TypeOK, Idle
  <1>2. a \in Agent /\ a.pc = "queued"
    BY <1>1 DEF Agent, PC
  <1>3. Released(p) \in {a, Idle}
    BY DEF Released
  <1> HIDE DEF a
  <1> QED
    BY <1>1, <1>2, <1>3

(* A delete is let through under a live worker only when the worker's turn   *)
(* is not the newest of the log. The log a deleter read as closed ends with *)
(* a done or a row of no turn, and a turn with a live worker has a row and  *)
(* no done, so the last row is not its own.                                 *)
THEOREM DeleteWaitsAlways == Spec => DeleteWaits
  <1>1. TypeInv /\ LockInv /\ LogInv /\ [Next]_vars =>
           \A s \in Deleters : LetsDelete(s) =>
              \A w \in Workers, t \in Turns : w \in Writers(t) => Overtaken(t)
    <2> SUFFICES ASSUME TypeInv, LockInv, LogInv, [Next]_vars, NEW s \in Deleters, LetsDelete(s),
                        NEW w \in Workers, NEW t \in Turns, w \in Writers(t)
                 PROVE  Overtaken(t)
      OBVIOUS
    <2>1. Live(w, t) /\ None \notin Turns /\ t \in Jobs
      BY AgentsAre DEF Writers, Live
    <2>2. FindsNothing(s) \/ PollClean(s)
      <3>1. s \in Releasers /\ s \in Agents /\ s \in Stoppers /\ agent'[s] # agent[s]
        BY AgentsAre DEF LetsDelete
      <3>2. ASSUME NEW q \in Agents, q # s, NEW a, Become(q, a) PROVE FALSE
        BY <3>1, <3>2 DEF Become, TypeInv, TypeOK
      <3>3. ASSUME NEW x \in PC, x # "clean", Goto(s, x) PROVE FALSE
        BY <3>1, <3>3, GotoIs DEF LetsDelete, TypeInv
      <3>4. ASSUME NEW a \in Agent, a.pc # "clean", Become(s, a) PROVE FALSE
        BY <3>1, <3>4, BecomeIs DEF LetsDelete, TypeInv
      <3>5. ~Lapse /\ ~UNCHANGED vars /\ \A q \in Turns : ~Post(q)
        BY <3>1 DEF Lapse, vars, Post, PostReads, PostStops, PostAsks, PostDefers, PostDies
      <3>6. ASSUME NEW q \in Workers, Work(q) PROVE FALSE
        <4>1. q # s /\ q \in Agents
          BY AgentsAre
        <4>2. UNCHANGED agent \/ \E a : Become(q, a)
          BY <3>6 DEF Work, Take, WriteText, WriteProgress, Notice, CloseTurn, EndTask, FinishJob,
                      Crash, Goto
        <4> QED
          BY <3>1, <3>2, <4>1, <4>2
      <3>7. ASSUME NEW q \in Sweepers, SweepLists(q) PROVE FALSE
        <4>1. q # s /\ q \in Agents
          BY AgentsAre
        <4> QED
          BY <3>2, <3>7, <4>1 DEF SweepLists
      <3>8. ASSUME NEW q \in Releasers, ReleaseStep(q) \/ Dies(q) PROVE FALSE
        <4>1. q \in Agents /\ \E a : Become(q, a)
          BY <3>8, AgentsAre DEF ReleaseStep, Dies, TakeLease, LeaseIsTaken, Settle, WriteError,
                   WriteDone, ReleaseJob, Goto
        <4>2. q = s
          BY <3>2, <4>1
        <4>3. Idle \in Agent /\ Idle.pc # "clean"
          BY IdleType DEF Idle
        <4>4. Released(s) \in Agent /\ Released(s).pc # "clean"
          BY <3>1, ReleasedGoes DEF TypeInv
        <4> QED
          BY <3>3, <3>4, <3>8, <4>2, <4>3, <4>4
          DEF ReleaseStep, Dies, TakeLease, LeaseIsTaken, Settle, WriteError, WriteDone,
              ReleaseJob, PC
      <3>9. ASSUME NEW q \in Stoppers, Stop(q) PROVE FindsNothing(s) \/ PollClean(s)
        <4>1. q \in Agents /\ \E a : Become(q, a)
          BY <3>9, AgentsAre DEF Stop, FindsTurn, FindsNothing, RequestCancel, ReleaseDead,
                   ListQueued, CancelJob, TellStopped, CloseQueued, PollClean, Deadline, Goto
        <4>2. q = s
          BY <3>2, <4>1
        <4>3. Idle \in Agent /\ agent[s] \in Agent
          BY <3>1, IdleType DEF TypeInv, TypeOK
        <4>4. Released(s) \in Agent /\ Released(s).pc # "clean"
          BY <3>1, ReleasedGoes DEF TypeInv
        <4>5. ~FindsTurn(s)
          <5>1. ASSUME FindsTurn(s) PROVE FALSE
            <6>1. agent'[s] = [Idle EXCEPT !.pc = "request", !.turn = OpenTurn]
              BY <3>1, <5>1 DEF FindsTurn, Become, TypeInv, TypeOK
            <6> QED
              BY <6>1 DEF Idle, LetsDelete
          <5> QED
            BY <5>1
        <4>6. ~ReleaseDead(s)
          <5>1. ASSUME NEW j \in DeadJobs \cap Turns,
                       Become(s, [agent[s] EXCEPT !.pc = "lease", !.job = j])
                PROVE  FALSE
            <6>1. agent'[s] = [agent[s] EXCEPT !.pc = "lease", !.job = j]
              BY <3>1, <5>1 DEF Become, TypeInv, TypeOK
            <6> QED
              BY <4>3, <6>1 DEF Agent, LetsDelete
          <5> QED
            BY <3>4, <4>4, <5>1 DEF ReleaseDead
        <4>7. ~Deadline(s)
          <5>1. ASSUME Deadline(s) PROVE FALSE
            <6>1. agent'[s] = [Idle EXCEPT !.pc = "refused"]
              BY <3>1, <5>1 DEF Deadline, Become, TypeInv, TypeOK
            <6> QED
              BY <6>1 DEF Idle, LetsDelete
          <5> QED
            BY <5>1
        <4>8. ~RequestCancel(s) /\ ~ListQueued(s) /\ ~CancelJob(s) /\ ~TellStopped(s) /\ ~CloseQueued(s)
          BY <3>3 DEF RequestCancel, ListQueued, CancelJob, TellStopped, CloseQueued, PC
        <4> QED
          BY <3>9, <4>2, <4>5, <4>6, <4>7, <4>8 DEF Stop
      <3> QED
        BY <3>5, <3>6, <3>7, <3>8, <3>9 DEF Next
    <2>3. OpenTurn = None
      BY <2>2 DEF FindsNothing, PollClean
    <2>4. ~Has(t, "done") /\ \E i \in DOMAIN log : log[i].turn = t
      <3>1. job[t] = "doing"
        BY <2>1 DEF Live, LockInv, HeldIsDoing, Working
      <3>2. post[t].pc = "sent"
        BY <3>1 DEF LockInv, UnsentIsNone
      <3> QED
        BY <2>1, <3>2 DEF LogInv, AskedIsLogged, LiveIsOpen
    <2>5. PICK i \in DOMAIN log : log[i].turn = t
      BY <2>4
    <2>6. Len(log) \in Nat /\ DOMAIN log = 1..Len(log) /\ log \in Seq(Row)
      BY LenProperties DEF TypeInv, TypeOK
    <2>7. Len(log) \in DOMAIN log /\ log # <<>> /\ log[Len(log)] \in Row
      BY <2>5, <2>6, ElementOfSeq
    <2>8. log[Len(log)].turn # t
      <3>1. CASE log[Len(log)].kind = "done"
        <4>1. log[Len(log)] = [turn |-> log[Len(log)].turn, kind |-> "done"]
          BY <2>7, <3>1 DEF Row
        <4> QED
          BY <2>4, <2>7, <4>1 DEF Has
      <3>2. CASE log[Len(log)].kind # "done"
        BY <2>1, <2>3, <2>7, <3>2 DEF OpenTurn
      <3> QED
        BY <3>1, <3>2
    <2> QED
      BY <2>5, <2>6, <2>7, <2>8 DEF Overtaken
  <1> QED
    BY <1>1, LogHolds, PTL DEF Spec, DeleteWaits
-----------------------------------------------------------------------------
(* Every turn whose job is over ends                                        *)
(*                                                                         *)
(* A job leaves the queue in three ways: its worker finishes it, a releaser *)
(* that leases it deletes it, a stop cancels it. Each has written the       *)
(* terminator by then, or still has it to write, or read a log whose newest *)
(* turn is a later one; only a death in between loses that.                 *)

NewestRow ==
    (\E i \in DOMAIN log : log[i].turn # None) =>
       \E i \in DOMAIN log : log[i].turn # None /\ \A n \in DOMAIN log : n > i => log[n].turn = None

\* A job in status doing that no worker runs cost a death.
DoingHeld ==
    \A j \in Jobs : job[j] = "doing" =>
       faults > 0 \/ \E w \in Workers : agent[w].pc \in Working /\ agent[w].job = j

DeadFault ==
    /\ silent => faults > 0
    /\ \A p \in Releasers : agent[p].pc \in Releasing => faults > 0

Ends(t)    == Has(t, "done") \/ Buried(t)
Closing(t) == \E p \in Releasers : agent[p].job = t /\ agent[p].pc \in {"error", "end"}

FinishedEnds ==
    \A w \in Workers, t \in Turns : agent[w].pc = "finish" /\ agent[w].job = t => Has(t, "done")

ReleasedEnds ==
    faults <= 1 =>
       \A p \in Releasers, t \in Turns : agent[p].pc = "release" /\ agent[p].job = t => Ends(t)

GoneEnds ==
    faults <= 1 => \A t \in Turns : job[t] = "gone" => Ends(t) \/ Closing(t)

CancelledEnds ==
    faults = 0 => \A t \in Turns : job[t] = "cancelled" =>
                     Has(t, "done") \/ \E s \in Stoppers : Telling(s) /\ agent[s].turn = t

EndInv ==
    /\ NewestRow /\ DoingHeld /\ DeadFault
    /\ FinishedEnds /\ ReleasedEnds /\ GoneEnds /\ CancelledEnds

\* An agent is moved by its own steps only.
OwnStep(q) ==
    \/ q \in Workers /\ Work(q)
    \/ q \in Releasers /\ (ReleaseStep(q) \/ Dies(q))
    \/ q \in Stoppers /\ Stop(q)
    \/ q \in Sweepers /\ SweepLists(q)

LEMMA Mover ==
    ASSUME TypeInv, [Next]_vars, NEW q \in Agents PROVE agent'[q] = agent[q] \/ OwnStep(q)
  <1>1. ASSUME NEW p \in Agents, p # q, NEW a, Become(p, a) PROVE agent'[q] = agent[q]
    BY <1>1 DEF Become, TypeInv, TypeOK
  <1>2. ASSUME NEW w \in Workers, Work(w), w # q PROVE agent'[q] = agent[q]
    <2>1. w \in Agents /\ (UNCHANGED agent \/ \E a : Become(w, a))
      BY <1>2, AgentsAre DEF Work, Take, WriteText, WriteProgress, Notice, CloseTurn, EndTask,
                             FinishJob, Crash, Goto
    <2> QED
      BY <1>1, <1>2, <2>1
  <1>3. ASSUME NEW p \in Releasers, ReleaseStep(p) \/ Dies(p), p # q PROVE agent'[q] = agent[q]
    <2>1. p \in Agents /\ \E a : Become(p, a)
      BY <1>3, AgentsAre DEF ReleaseStep, Dies, TakeLease, LeaseIsTaken, Settle, WriteError,
                             WriteDone, ReleaseJob, Goto
    <2> QED
      BY <1>1, <1>3, <2>1
  <1>4. ASSUME NEW p \in Stoppers, Stop(p), p # q PROVE agent'[q] = agent[q]
    <2>1. p \in Agents /\ \E a : Become(p, a)
      BY <1>4, AgentsAre DEF Stop, FindsTurn, FindsNothing, RequestCancel, ReleaseDead,
               ListQueued, CancelJob, TellStopped, CloseQueued, PollClean, Deadline, Goto
    <2> QED
      BY <1>1, <1>4, <2>1
  <1>5. ASSUME NEW p \in Sweepers, SweepLists(p), p # q PROVE agent'[q] = agent[q]
    BY <1>1, <1>5, AgentsAre DEF SweepLists
  <1>6. ASSUME (\E t \in Turns : Post(t)) \/ Lapse \/ UNCHANGED vars PROVE agent'[q] = agent[q]
    BY <1>6 DEF Post, PostReads, PostStops, PostAsks, PostDefers, PostDies, Lapse, vars
  <1> QED
    BY <1>2, <1>3, <1>4, <1>5, <1>6 DEF Next, OwnStep

\* Nobody writes a row but these, each of a turn, or of none.
LEMMA LogGrows ==
    ASSUME TypeInv, [Next]_vars
    PROVE  \/ UNCHANGED log
           \/ \E t \in Turns : PostAsks(t)
           \/ \E w \in Workers : WriteText(w) \/ WriteProgress(w) \/ Notice(w) \/ CloseTurn(w)
           \/ \E p \in Releasers : WriteError(p) \/ WriteDone(p)
           \/ \E s \in Stoppers : TellStopped(s) \/ CloseQueued(s)
  <1>1. ASSUME NEW w \in Workers, Work(w)
        PROVE  UNCHANGED log \/ WriteText(w) \/ WriteProgress(w) \/ Notice(w) \/ CloseTurn(w)
    BY <1>1 DEF Work, Take, EndTask, FinishJob, Crash
  <1>2. ASSUME NEW p \in Releasers, ReleaseStep(p) \/ Dies(p)
        PROVE  UNCHANGED log \/ WriteError(p) \/ WriteDone(p)
    BY <1>2 DEF ReleaseStep, Dies, TakeLease, LeaseIsTaken, Settle, ReleaseJob
  <1>3. ASSUME NEW s \in Stoppers, Stop(s) PROVE UNCHANGED log \/ TellStopped(s) \/ CloseQueued(s)
    BY <1>3 DEF Stop, FindsTurn, FindsNothing, RequestCancel, ReleaseDead, ListQueued, CancelJob,
                PollClean, Deadline
  <1>4. ASSUME NEW t \in Turns, Post(t) PROVE UNCHANGED log \/ PostAsks(t)
    BY <1>4 DEF Post, PostReads, PostStops, PostDefers, PostDies
  <1> QED
    BY <1>1, <1>2, <1>3, <1>4 DEF Next, SweepLists, Lapse, vars

\* Where no worker runs turn t, only a releaser's error and the word of a stop
\* come after its end.
LEMMA LateRows ==
    ASSUME TypeInv, LockInv, [Next]_vars, NEW t \in Turns, job[t] # "none",
           \A w \in Workers : ~Live(w, t)
    PROVE  \/ UNCHANGED log
           \/ \E u \in Turns \cup {None}, k \in Kind : Write(u, k) /\ (u # t \/ k = "done")
           \/ \E p \in Releasers : WriteError(p) /\ agent[p].job = t
           \/ \E s \in Stoppers : TellStopped(s) /\ agent[s].turn = t
  <1>0. None \notin Turns
    BY AgentsAre
  <1>1. ASSUME NEW v \in Turns, PostAsks(v)
        PROVE  Write(v, "ask") /\ v # t
    BY <1>1 DEF PostAsks, LockInv, UnsentIsNone
  <1>2. ASSUME NEW w \in Workers, WriteText(w) \/ WriteProgress(w) \/ Notice(w) \/ CloseTurn(w)
        PROVE  \E u \in Turns \cup {None}, k \in Kind : Write(u, k) /\ (u # t \/ k = "done")
    <2>1. agent[w].job # t \/ agent[w].pc \notin {"run", "closing"}
      BY DEF Live
    <2>2. CASE WriteText(w) \/ Notice(w)
      <3>1. /\ agent[w].job \in Turns /\ agent[w].job # t
            /\ Write(agent[w].job, "text") \/ Write(agent[w].job, "stopped")
        BY <2>1, <2>2 DEF WriteText, Notice, At, TypeInv, TypeOK
      <3> QED
        BY <3>1 DEF Kind
    <2>3. CASE WriteProgress(w)
      BY <1>0, <2>3 DEF WriteProgress, Kind
    <2>4. CASE CloseTurn(w)
      BY <2>4 DEF CloseTurn, Kind
    <2> QED
      BY <1>2, <2>2, <2>3, <2>4
  <1>3. ASSUME NEW p \in Releasers, WriteError(p) \/ WriteDone(p)
        PROVE  \/ WriteError(p) /\ agent[p].job = t
               \/ \E u \in Turns \cup {None}, k \in Kind : Write(u, k) /\ (u # t \/ k = "done")
    <2>1. agent[p].job \in Turns
      BY <1>3 DEF WriteError, WriteDone, At, TypeInv, Phases, ReleaserOK
    <2> QED
      BY <1>3, <2>1 DEF WriteError, WriteDone, Kind
  <1>4. ASSUME NEW s \in Stoppers, TellStopped(s) \/ CloseQueued(s)
        PROVE  \/ TellStopped(s) /\ agent[s].turn = t
               \/ \E u \in Turns \cup {None}, k \in Kind : Write(u, k) /\ (u # t \/ k = "done")
    <2>1. agent[s].turn \in Turns
      BY <1>4, AgentsAre DEF TellStopped, CloseQueued, At, TypeInv, Phases, ReleaserOK, Stopping
    <2> QED
      BY <1>4, <2>1 DEF TellStopped, CloseQueued, Kind
  <1> QED
    BY <1>1, <1>2, <1>3, <1>4, LogGrows DEF Kind

LEMMA WritesOne ==
    ASSUME TypeInv, [Next]_vars
    PROVE  UNCHANGED log \/ \E u \in Turns \cup {None}, m \in Kind : Write(u, m)
  <1>1. ASSUME NEW w \in Workers, WriteText(w) \/ WriteProgress(w) \/ Notice(w) \/ CloseTurn(w)
        PROVE  \E u \in Turns \cup {None}, m \in Kind : Write(u, m)
    BY <1>1 DEF WriteText, WriteProgress, Notice, CloseTurn, Kind, TypeInv, TypeOK
  <1>2. ASSUME NEW p \in Releasers, WriteError(p) \/ WriteDone(p)
        PROVE  \E u \in Turns \cup {None}, m \in Kind : Write(u, m)
    BY <1>2 DEF WriteError, WriteDone, Kind, At, TypeInv, Phases, ReleaserOK
  <1>3. ASSUME NEW s \in Stoppers, TellStopped(s) \/ CloseQueued(s)
        PROVE  \E u \in Turns \cup {None}, m \in Kind : Write(u, m)
    BY <1>3, AgentsAre
    DEF TellStopped, CloseQueued, Kind, At, TypeInv, Phases, ReleaserOK, Stopping
  <1> QED
    BY <1>1, <1>2, <1>3, LogGrows DEF PostAsks, Kind

LEMMA HasStays ==
    ASSUME TypeInv, [Next]_vars, NEW t, NEW k, Has(t, k) PROVE Has(t, k)'
  <1>1. ASSUME NEW u \in Turns \cup {None}, NEW m \in Kind, Write(u, m) PROVE Has(t, k)'
    BY <1>1, WriteHas DEF TypeInv
  <1>2. CASE UNCHANGED log
    BY <1>2 DEF Has
  <1> QED
    BY <1>1, <1>2, WritesOne

LEMMA NewestStep ==
    ASSUME TypeInv, NewestRow, [Next]_vars PROVE NewestRow'
  <1>1. CASE UNCHANGED log
    BY <1>1 DEF NewestRow
  <1>2. ASSUME NEW u \in Turns \cup {None}, NEW m \in Kind, Write(u, m) PROVE NewestRow'
    <2> DEFINE last == Len(log) + 1
    <2>1. /\ Len(log) \in Nat /\ DOMAIN log = 1..Len(log) /\ DOMAIN log' = 1..last
          /\ \A i \in DOMAIN log : log'[i] = log[i]
          /\ log'[last] = [turn |-> u, kind |-> m]
      BY <1>2, WriteIs DEF TypeInv
    <2>2. log'[last].turn = u
      BY <2>1
    <2>3. CASE u # None
      <3>1. last \in DOMAIN log' /\ \A n \in DOMAIN log' : ~(n > last)
        BY <2>1
      <3> QED
        BY <2>2, <2>3, <3>1 DEF NewestRow
    <2>4. CASE u = None
      <3> SUFFICES ASSUME NEW j \in DOMAIN log', log'[j].turn # None
                   PROVE  \E i \in DOMAIN log' : log'[i].turn # None
                             /\ \A n \in DOMAIN log' : n > i => log'[n].turn = None
        BY DEF NewestRow
      <3>1. j \in DOMAIN log /\ log[j].turn # None
        <4>1. j # last
          BY <2>2, <2>4
        <4>2. j \in DOMAIN log
          BY <2>1, <4>1
        <4> QED
          BY <2>1, <4>2
      <3>2. PICK i \in DOMAIN log : log[i].turn # None /\ \A n \in DOMAIN log : n > i => log[n].turn = None
        BY <3>1 DEF NewestRow
      <3>3. i \in DOMAIN log' /\ log'[i].turn # None
        BY <2>1, <3>2
      <3>4. ASSUME NEW n \in DOMAIN log', n > i PROVE log'[n].turn = None
        <4>1. CASE n = last
          BY <2>2, <2>4, <4>1
        <4>2. CASE n # last
          <5>1. n \in DOMAIN log
            BY <2>1, <4>2
          <5> QED
            BY <2>1, <3>2, <3>4, <5>1
        <4> QED
          BY <4>1, <4>2
      <3> QED
        BY <3>3, <3>4
    <2> QED
      BY <2>3, <2>4
  <1> QED
    BY <1>1, <1>2, WritesOne

\* What has ended stays so until a late row of the turn itself.
LEMMA EndsStays ==
    ASSUME TypeInv, NEW t \in Turns, Ends(t),
           \/ UNCHANGED log
           \/ \E u \in Turns \cup {None}, k \in Kind : Write(u, k) /\ (u # t \/ k = "done")
    PROVE  Ends(t)'
  <1>1. CASE UNCHANGED log
    BY <1>1 DEF Ends, Has, Buried
  <1>2. ASSUME NEW u \in Turns \cup {None}, NEW k \in Kind, Write(u, k), u # t \/ k = "done"
        PROVE  Ends(t)'
    <2>1. \A m : Has(t, m)' <=> Has(t, m) \/ (t = u /\ m = k)
      BY <1>2, WriteHas DEF TypeInv
    <2>2. CASE Has(t, "done") \/ (u = t /\ k = "done")
      BY <2>1, <2>2 DEF Ends
    <2>3. CASE Buried(t) /\ u # t
      <3> DEFINE last == Len(log) + 1
      <3>1. /\ Len(log) \in Nat /\ DOMAIN log = 1..Len(log) /\ DOMAIN log' = 1..last
            /\ \A i \in DOMAIN log : log'[i] = log[i]
            /\ log'[last] = [turn |-> u, kind |-> k]
        BY <1>2, WriteIs DEF TypeInv
      <3>2. PICK n \in DOMAIN log : /\ log[n].turn \notin {t, None}
                                    /\ \A i \in DOMAIN log : log[i].turn = t => i < n
        BY <2>3 DEF Buried
      <3>3. n \in DOMAIN log' /\ log'[n].turn \notin {t, None}
        BY <3>1, <3>2
      <3>4. ASSUME NEW i \in DOMAIN log', log'[i].turn = t PROVE i < n
        <4>1. i # last
          BY <2>3, <3>1, <3>4
        <4>2. i \in DOMAIN log
          BY <3>1, <4>1
        <4> QED
          BY <3>1, <3>2, <3>4, <4>2
      <3> QED
        BY <3>3, <3>4 DEF Ends, Buried
    <2> QED
      BY <1>2, <2>2, <2>3 DEF Ends
  <1> QED
    BY <1>1, <1>2

LEMMA FaultsGrow ==
    ASSUME TypeInv, [Next]_vars
    PROVE  /\ faults \in Nat /\ faults' \in Nat /\ faults <= faults'
           /\ \A p \in Releasers : Dies(p) => faults' = faults + 1
  <1>1. faults \in Nat
    BY DEF TypeInv, TypeOK
  <1>2. UNCHANGED faults \/ faults' = faults + 1
    <2>1. ASSUME NEW t \in Turns, Post(t) PROVE UNCHANGED faults \/ faults' = faults + 1
      BY <2>1 DEF Post, PostReads, PostStops, PostAsks, PostDefers, PostDies
    <2>2. ASSUME NEW w \in Workers, Work(w) PROVE UNCHANGED faults \/ faults' = faults + 1
      BY <2>2 DEF Work, Take, WriteText, WriteProgress, Notice, CloseTurn, EndTask, FinishJob, Crash
    <2>3. ASSUME NEW p \in Releasers, ReleaseStep(p) \/ Dies(p)
          PROVE  UNCHANGED faults \/ faults' = faults + 1
      BY <2>3 DEF ReleaseStep, Dies, TakeLease, LeaseIsTaken, Settle, WriteError, WriteDone, ReleaseJob
    <2>4. ASSUME NEW s \in Stoppers, Stop(s) PROVE UNCHANGED faults
      BY <2>4 DEF Stop, FindsTurn, FindsNothing, RequestCancel, ReleaseDead, ListQueued, CancelJob,
                  TellStopped, CloseQueued, PollClean, Deadline
    <2> QED
      BY <2>1, <2>2, <2>3, <2>4 DEF Next, SweepLists, Lapse, vars
  <1> QED
    BY <1>1, <1>2 DEF Dies

\* What a worker's own step does to the job it runs.
LEMMA WorkerLeaves ==
    ASSUME TypeInv, LockInv, NEW w \in Workers, Work(w)
    PROVE  /\ agent[w].pc \in Working =>
                \/ agent'[w].pc \in Working /\ agent'[w].job = agent[w].job
                \/ job'[agent[w].job] = "gone"
                \/ faults' = faults + 1
           /\ agent'[w].pc = "finish" => \/ agent[w].pc = "finish" /\ agent'[w].job = agent[w].job
                                         \/ CloseTurn(w) /\ agent'[w].job = agent[w].job
                                         \/ agent'[w].job \in Tasks
  <1>1. w \in Agents /\ WorkerOK(agent[w]) /\ agent[w] \in Agent
    BY AgentsAre DEF TypeInv, TypeOK, Phases
  <1>2. ASSUME NEW s \in {"closing", "finish"}, Goto(w, s)
        PROVE  agent'[w].pc = s /\ agent'[w].job = agent[w].job
    BY <1>1, <1>2, GotoIs DEF TypeInv, PC
  <1>3. CASE Take(w)
    <2>1. PICK j \in Jobs : At(w, "idle") /\ Become(w, [Idle EXCEPT !.pc = "run", !.job = j])
      BY <1>3 DEF Take
    <2>2. agent'[w] = [Idle EXCEPT !.pc = "run", !.job = j]
      BY <1>1, <2>1 DEF Become, TypeInv, TypeOK
    <2>3. agent'[w].pc = "run" /\ agent[w].pc = "idle"
      BY <2>1, <2>2 DEF Idle, At
    <2> QED
      BY <2>3 DEF Working
  <1>4. CASE WriteText(w) \/ WriteProgress(w)
    BY <1>4 DEF WriteText, WriteProgress, At
  <1>5. CASE Notice(w)
    BY <1>2, <1>5 DEF Notice, Working
  <1>6. CASE CloseTurn(w)
    BY <1>2, <1>6 DEF CloseTurn, Working
  <1>7. CASE EndTask(w)
    BY <1>2, <1>7 DEF EndTask, Working
  <1>8. CASE FinishJob(w) \/ Crash(w)
    <2>1. Become(w, Idle) /\ Idle \in Agent /\ Idle.pc = "idle"
      BY <1>8, IdleType DEF FinishJob, Crash, Idle
    <2>2. agent'[w].pc = "idle"
      BY <1>1, <2>1, BecomeIs DEF TypeInv
    <2>3. Crash(w) => faults' = faults + 1
      BY DEF Crash
    <2>4. ASSUME FinishJob(w) PROVE job'[agent[w].job] = "gone"
      <3>1. agent[w].job \in Jobs
        BY <1>1, <2>4 DEF FinishJob, At, WorkerOK
      <3> QED
        BY <2>4, <3>1 DEF FinishJob, TypeInv, TypeOK
    <2> QED
      BY <1>8, <2>2, <2>3, <2>4
  <1> QED
    BY <1>3, <1>4, <1>5, <1>6, <1>7, <1>8 DEF Work

\* Where a releaser's own step leaves it.
LEMMA ReleaserMoves ==
    ASSUME TypeInv, NEW p \in Releasers, OwnStep(p)
    PROVE  /\ agent'[p].pc \in Releasing => agent[p].pc \in Releasing \/ DeadJobs # {}
           /\ agent'[p].pc = "release" =>
                 /\ agent'[p].job = agent[p].job
                 /\ WriteDone(p) \/ (Settle(p) /\ (agent[p].job \in Turns => ~StreamIsOpen))
           /\ agent[p].pc \in {"error", "end"} =>
                 \/ agent'[p].pc = "end" /\ agent'[p].job = agent[p].job
                 \/ WriteDone(p) \/ Dies(p)
           /\ Telling(p) =>
                 \/ agent'[p].pc = "close" /\ agent'[p].turn = agent[p].turn
                 \/ CloseQueued(p) \/ Dies(p)
  <1> DEFINE Claim(a) ==
               /\ a.pc \in Releasing => agent[p].pc \in Releasing \/ DeadJobs # {}
               /\ a.pc = "release" =>
                     /\ a.job = agent[p].job
                     /\ WriteDone(p) \/ (Settle(p) /\ (agent[p].job \in Turns => ~StreamIsOpen))
               /\ agent[p].pc \in {"error", "end"} =>
                     \/ a.pc = "end" /\ a.job = agent[p].job
                     \/ WriteDone(p) \/ Dies(p)
               /\ Telling(p) =>
                     \/ a.pc = "close" /\ a.turn = agent[p].turn
                     \/ CloseQueued(p) \/ Dies(p)
  <1> SUFFICES Claim(agent'[p])
    OBVIOUS
  <1>0. p \in Agents /\ p \notin Workers /\ agent[p] \in Agent /\ ReleaserOK(p, agent[p])
    BY AgentsAre DEF TypeInv, TypeOK, Phases
  <1>1. ASSUME NEW s \in PC, Goto(p, s)
        PROVE  agent'[p].pc = s /\ agent'[p].job = agent[p].job /\ agent'[p].turn = agent[p].turn
    BY <1>0, <1>1, GotoIs DEF TypeInv
  <1>2. Idle.pc = "idle" /\ Idle \in Agent
    BY IdleType DEF Idle
  <1>3. ASSUME Become(p, Idle), Dies(p) \/ agent[p].pc \in {"release", "lease"} PROVE Claim(agent'[p])
    <2>1. agent'[p].pc = "idle"
      BY <1>0, <1>2, <1>3, BecomeIs DEF TypeInv
    <2> QED
      BY <1>3, <2>1 DEF Releasing, Telling
  <1>4. ASSUME Become(p, Released(p)), agent[p].pc \in {"dead", "lease", "release"}
        PROVE  Claim(agent'[p])
    <2>1. agent'[p].pc \in {"queued", "idle"}
      BY <1>0, <1>4, ReleasedIs, BecomeIs DEF TypeInv, Releasing
    <2> QED
      BY <1>4, <2>1 DEF Releasing, Telling
  <1>5. CASE ReleaseStep(p)
    <2>1. CASE TakeLease(p)
      BY <1>1, <2>1 DEF TakeLease, At, PC, Releasing, Telling
    <2>2. CASE LeaseIsTaken(p)
      BY <1>4, <2>2 DEF LeaseIsTaken, At
    <2>3. CASE Settle(p)
      <3>1. At(p, "settle") /\ \/ Goto(p, "error")
                               \/ Goto(p, "release") /\ (agent[p].job \in Turns => ~StreamIsOpen)
        BY <2>3 DEF Settle
      <3> QED
        BY <1>1, <2>3, <3>1 DEF At, PC, Releasing, Telling
    <2>4. CASE WriteError(p)
      BY <1>1, <2>4 DEF WriteError, At, PC, Releasing, Telling
    <2>5. CASE WriteDone(p)
      BY <1>1, <2>5 DEF WriteDone, At, PC, Releasing, Telling
    <2>6. CASE ReleaseJob(p)
      <3>1. agent[p].pc = "release" /\ (Become(p, Idle) \/ Become(p, Released(p)))
        BY <2>6 DEF ReleaseJob, At
      <3> QED
        BY <1>3, <1>4, <3>1
    <2> QED
      BY <1>5, <2>1, <2>2, <2>3, <2>4, <2>5, <2>6 DEF ReleaseStep
  <1>6. CASE Dies(p)
    BY <1>3, <1>6 DEF Dies
  <1>7. CASE p \in Sweepers /\ SweepLists(p)
    <2>1. PICK j \in DeadJobs : At(p, "idle") /\ Become(p, [Idle EXCEPT !.pc = "lease", !.job = j])
      BY <1>7 DEF SweepLists
    <2>2. agent'[p] = [Idle EXCEPT !.pc = "lease", !.job = j]
      BY <1>0, <2>1 DEF Become, TypeInv, TypeOK
    <2>3. agent'[p].pc = "lease"
      BY <2>2 DEF Idle
    <2> QED
      BY <2>1, <2>3 DEF Telling, At
  <1>8. CASE p \in Stoppers /\ Stop(p)
    <2>1. CASE FindsTurn(p)
      <3>1. agent[p].pc = "idle" /\ agent'[p] = [Idle EXCEPT !.pc = "request", !.turn = OpenTurn]
        BY <1>0, <2>1 DEF FindsTurn, Become, At, TypeInv, TypeOK
      <3>2. agent'[p].pc = "request"
        BY <3>1 DEF Idle
      <3> QED
        BY <3>1, <3>2 DEF Releasing, Telling
    <2>2. CASE FindsNothing(p) \/ RequestCancel(p) \/ TellStopped(p)
      BY <1>1, <2>2 DEF FindsNothing, RequestCancel, TellStopped, At, PC, Releasing, Telling
    <2>3. CASE CloseQueued(p)
      BY <1>1, <2>3 DEF CloseQueued, At, PC, Releasing, Telling
    <2>4. CASE ReleaseDead(p)
      <3>1. ASSUME NEW j \in DeadJobs, Become(p, [agent[p] EXCEPT !.pc = "lease", !.job = j])
            PROVE  Claim(agent'[p])
        <4>1. agent'[p] = [agent[p] EXCEPT !.pc = "lease", !.job = j]
          BY <1>0, <3>1 DEF Become, TypeInv, TypeOK
        <4>2. agent'[p].pc = "lease" /\ agent[p].pc = "dead"
          BY <1>0, <2>4, <4>1 DEF Agent, ReleaseDead, At
        <4> QED
          BY <3>1, <4>2 DEF Telling
      <3> QED
        BY <1>4, <2>4, <3>1 DEF ReleaseDead, At
    <2>5. CASE ListQueued(p)
      <3>1. agent[p].pc = "queued" /\ (Goto(p, "cancel") \/ Goto(p, "poll"))
        BY <2>5 DEF ListQueued, At
      <3> QED
        BY <1>1, <3>1 DEF PC, Releasing, Telling
    <2>6. CASE CancelJob(p)
      <3>1. agent[p].pc = "cancel" /\ (Goto(p, "tell") \/ Goto(p, "poll"))
        BY <2>6 DEF CancelJob, At
      <3> QED
        BY <1>1, <3>1 DEF PC, Releasing, Telling
    <2>7. CASE PollClean(p) \/ Deadline(p)
      <3>1. agent[p].pc = "poll" /\ (\/ agent'[p] = [Idle EXCEPT !.pc = "clean"]
                                    \/ agent'[p] = [Idle EXCEPT !.pc = "refused"])
        BY <1>0, <2>7 DEF PollClean, Deadline, Become, At, TypeInv, TypeOK
      <3>2. agent'[p].pc \in {"clean", "refused"}
        BY <3>1 DEF Idle
      <3> QED
        BY <3>1, <3>2 DEF Releasing, Telling
    <2> QED
      BY <1>8, <2>1, <2>2, <2>3, <2>4, <2>5, <2>6, <2>7 DEF Stop
  <1> QED
    BY <1>0, <1>5, <1>6, <1>7, <1>8 DEF OwnStep

\* How a job comes to each of the states of its end.
LEMMA JobsMove ==
    ASSUME TypeInv, LockInv, [Next]_vars, NEW j \in Jobs, job'[j] # job[j]
    PROVE  \/ job'[j] = "todo"
           \/ \E w \in Workers : Take(w) /\ agent'[w].pc = "run" /\ agent'[w].job = j
           \/ job'[j] = "gone" /\ \E w \in Workers : FinishJob(w) /\ agent[w].job = j
           \/ job'[j] = "gone" /\ \E p \in Releasers : ReleaseJob(p) /\ agent[p].job = j
           \/ job'[j] = "cancelled" /\ \E s \in Stoppers : agent'[s].pc = "tell" /\ agent'[s].turn = j
  <1>0. job \in [Jobs -> Status]
    BY DEF TypeInv, TypeOK
  <1>1. ASSUME NEW t \in Turns, Post(t) PROVE job'[j] = "todo"
    <2>1. PostDefers(t)
      BY <1>1 DEF Post, PostReads, PostStops, PostAsks, PostDies
    <2> QED
      BY <1>0, <2>1, AgentsAre DEF PostDefers
  <1>2. ASSUME NEW w \in Workers, Work(w)
        PROVE  \/ Take(w) /\ agent'[w].pc = "run" /\ agent'[w].job = j
               \/ job'[j] = "gone" /\ FinishJob(w) /\ agent[w].job = j
    <2>0. w \in Agents
      BY AgentsAre
    <2>1. Take(w) \/ FinishJob(w)
      BY <1>2 DEF Work, WriteText, WriteProgress, Notice, CloseTurn, EndTask, Crash
    <2>2. CASE Take(w)
      <3>1. PICK k \in Jobs : Leaves(k, "doing") /\ Become(w, [Idle EXCEPT !.pc = "run", !.job = k])
        BY <2>2 DEF Take
      <3>2. agent'[w] = [Idle EXCEPT !.pc = "run", !.job = k]
        BY <2>0, <3>1 DEF Become, TypeInv, TypeOK
      <3>3. agent'[w].pc = "run" /\ agent'[w].job = k
        BY <3>2 DEF Idle
      <3>4. k = j
        BY <1>0, <3>1 DEF Leaves
      <3> QED
        BY <2>2, <3>3, <3>4
    <2>3. CASE FinishJob(w)
      BY <1>0, <2>3 DEF FinishJob
    <2> QED
      BY <2>1, <2>2, <2>3
  <1>3. ASSUME NEW p \in Releasers, ReleaseStep(p) \/ Dies(p)
        PROVE  job'[j] = "gone" /\ ReleaseJob(p) /\ agent[p].job = j
    <2>1. ReleaseJob(p) /\ job' = [job EXCEPT ![agent[p].job] = "gone"]
      BY <1>3 DEF ReleaseStep, Dies, TakeLease, LeaseIsTaken, Settle, WriteError, WriteDone, ReleaseJob
    <2> QED
      BY <1>0, <2>1
  <1>4. ASSUME NEW s \in Stoppers, Stop(s)
        PROVE  job'[j] = "cancelled" /\ agent'[s].pc = "tell" /\ agent'[s].turn = j
    <2>1. Leaves(agent[s].turn, "cancelled") /\ Goto(s, "tell")
      BY <1>4 DEF Stop, FindsTurn, FindsNothing, RequestCancel, ReleaseDead, ListQueued, CancelJob,
                  TellStopped, CloseQueued, PollClean, Deadline
    <2>2. agent'[s].pc = "tell" /\ agent'[s].turn = agent[s].turn
      BY <2>1, GotoIs, AgentsAre DEF TypeInv, PC
    <2> QED
      BY <1>0, <2>1, <2>2 DEF Leaves
  <1>6. ~UNCHANGED job
    OBVIOUS
  <1> QED
    BY <1>1, <1>2, <1>3, <1>4, <1>6 DEF Next, SweepLists, Lapse, vars

LEMMA HeldStep ==
    ASSUME TypeInv, LockInv, DoingHeld, [Next]_vars PROVE DoingHeld'
  <1>1. faults \in Nat /\ faults' \in Nat /\ faults <= faults'
    BY FaultsGrow
  <1> SUFFICES ASSUME NEW j \in Jobs, job'[j] = "doing", ~(faults' > 0)
               PROVE  \E w \in Workers : agent'[w].pc \in Working /\ agent'[w].job = j
    BY DEF DoingHeld
  <1>2. ~(faults > 0) /\ faults' # faults + 1
    BY <1>1
  <1>3. CASE job[j] = "doing"
    <2>1. PICK w \in Workers : agent[w].pc \in Working /\ agent[w].job = j
      BY <1>2, <1>3 DEF DoingHeld
    <2>2. w \in Agents /\ w \notin Releasers
      BY AgentsAre
    <2>3. CASE agent'[w] = agent[w]
      BY <2>1, <2>3
    <2>4. CASE Work(w)
      BY <1>2, <2>1, <2>4, WorkerLeaves
    <2>5. Stoppers \subseteq Releasers /\ Sweepers \subseteq Releasers
      BY AgentsAre
    <2> QED
      BY <2>2, <2>3, <2>4, <2>5, Mover DEF OwnStep
  <1>4. CASE job[j] # "doing"
    <2>1. \E w \in Workers : agent'[w].pc = "run" /\ agent'[w].job = j
      BY <1>4, JobsMove
    <2> QED
      BY <2>1 DEF Working
  <1> QED
    BY <1>3, <1>4

LEMMA DeadStep ==
    ASSUME TypeInv, LockInv, DoingHeld, DeadFault, [Next]_vars PROVE DeadFault'
  <1>1. faults \in Nat /\ faults' \in Nat /\ faults <= faults'
    BY FaultsGrow
  <1>2. faults > 0 => faults' > 0
    BY <1>1
  <1>3. ASSUME silent', ~silent PROVE faults > 0
    <2>1. Lapse
      <3>1. ASSUME NEW t \in Turns, Post(t) PROVE UNCHANGED silent
        BY <3>1 DEF Post, PostReads, PostStops, PostAsks, PostDefers, PostDies
      <3>2. ASSUME NEW w \in Workers, Work(w) PROVE UNCHANGED silent
        BY <3>2 DEF Work, Take, WriteText, WriteProgress, Notice, CloseTurn, EndTask, FinishJob, Crash
      <3>3. ASSUME NEW p \in Releasers, ReleaseStep(p) \/ Dies(p)
            PROVE  UNCHANGED silent \/ silent' = FALSE
        BY <3>3 DEF ReleaseStep, Dies, TakeLease, LeaseIsTaken, Settle, WriteError, WriteDone, ReleaseJob
      <3>4. ASSUME NEW s \in Stoppers, Stop(s) PROVE UNCHANGED silent
        BY <3>4 DEF Stop, FindsTurn, FindsNothing, RequestCancel, ReleaseDead, ListQueued, CancelJob,
                    TellStopped, CloseQueued, PollClean, Deadline
      <3> QED
        BY <1>3, <3>1, <3>2, <3>3, <3>4 DEF Next, SweepLists, vars
    <2>2. PICK j \in Doing : \A w \in Workers : agent[w].job # j
      BY <2>1 DEF Lapse
    <2> QED
      BY <2>2 DEF DoingHeld, Doing
  <1>4. ASSUME NEW p \in Releasers, agent'[p].pc \in Releasing PROVE faults > 0
    <2>1. DeadJobs # {} => faults > 0
      BY DEF DeadJobs, DeadFault
    <2>2. agent'[p] = agent[p] \/ OwnStep(p)
      BY Mover, AgentsAre
    <2> QED
      BY <1>4, <2>1, <2>2, ReleaserMoves DEF DeadFault
  <1> QED
    BY <1>2, <1>3, <1>4 DEF DeadFault

LEMMA FinishedStep ==
    ASSUME TypeInv, LockInv, FinishedEnds, [Next]_vars PROVE FinishedEnds'
  <1> SUFFICES ASSUME NEW w \in Workers, NEW t \in Turns, agent'[w].pc = "finish", agent'[w].job = t
               PROVE  Has(t, "done")'
    BY DEF FinishedEnds
  <1>1. w \in Agents /\ w \notin Releasers /\ t \notin Tasks
    BY AgentsAre, Identities
  <1>2. ASSUME agent[w].pc = "finish", agent[w].job = t PROVE Has(t, "done")'
    BY <1>2, HasStays DEF FinishedEnds
  <1>3. ASSUME CloseTurn(w), agent[w].job = t PROVE Has(t, "done")'
    BY <1>3, WriteHas DEF CloseTurn, Kind, TypeInv
  <1>4. CASE Work(w)
    BY <1>1, <1>2, <1>3, <1>4, WorkerLeaves
  <1>5. agent'[w] = agent[w] \/ Work(w)
    BY <1>1, Mover, AgentsAre DEF OwnStep
  <1> QED
    BY <1>2, <1>4, <1>5

\* A log whose stream is closed, and that has a row of turn t, ends t.
LEMMA ClosedEnds ==
    ASSUME TypeInv, NewestRow, NEW t \in Turns, \E i \in DOMAIN log : log[i].turn = t, ~StreamIsOpen
    PROVE  Ends(t)
  <1>0. None \notin Turns /\ DOMAIN log = 1..Len(log) /\ Len(log) \in Nat
    BY AgentsAre, LenProperties DEF TypeInv, TypeOK
  <1>1. PICK i \in DOMAIN log : log[i].turn # None /\ \A n \in DOMAIN log : n > i => log[n].turn = None
    BY <1>0 DEF NewestRow
  <1>2. log[i].kind = "done" /\ log[i] \in Row
    BY <1>0, <1>1, ElementOfSeq DEF StreamIsOpen, TypeInv, TypeOK
  <1>3. CASE log[i].turn = t
    <2>1. log[i] = [turn |-> t, kind |-> "done"]
      BY <1>2, <1>3 DEF Row
    <2> QED
      BY <1>1, <2>1 DEF Ends, Has
  <1>4. CASE log[i].turn # t
    <2>1. \A n \in DOMAIN log : log[n].turn = t => n < i
      BY <1>0, <1>1, <1>4
    <2> QED
      BY <1>1, <1>4, <2>1 DEF Ends, Buried
  <1> QED
    BY <1>3, <1>4

LEMMA ReleasedStep ==
    ASSUME TypeInv, LockInv, LogInv, NewestRow, ReleasedEnds, [Next]_vars PROVE ReleasedEnds'
  <1>1. faults \in Nat /\ faults' \in Nat /\ faults <= faults'
    BY FaultsGrow
  <1> SUFFICES ASSUME faults' <= 1, NEW p \in Releasers, NEW t \in Turns,
                      agent'[p].pc = "release", agent'[p].job = t
               PROVE  Ends(t)'
    BY DEF ReleasedEnds
  <1>2. faults <= 1 /\ p \in Agents /\ t \in Jobs
    BY <1>1, AgentsAre
  <1>3. CASE agent'[p] = agent[p]
    <2>1. Ends(t)
      BY <1>2, <1>3 DEF ReleasedEnds
    <2>2. job[t] \in {"doing", "gone"} /\ \A w \in Workers : ~Live(w, t)
      BY <1>3 DEF LockInv, ReleasedIsDead, Releasing, Live
    <2>3. ASSUME NEW q \in Releasers, WriteError(q), agent[q].job = t PROVE FALSE
      <3>1. agent[q].pc = "error" /\ lease[t] = q /\ lease[t] = p
        BY <1>3, <2>3 DEF WriteError, At, LockInv, ReleaserLeases, Releasing
      <3> QED
        BY <1>3, <3>1
    <2>4. ASSUME NEW s \in Stoppers, TellStopped(s), agent[s].turn = t PROVE FALSE
      BY <2>2, <2>4 DEF TellStopped, At, LockInv, TellsCancelled, Telling
    <2> QED
      BY <2>1, <2>2, <2>3, <2>4, LateRows, EndsStays
  <1>4. CASE OwnStep(p)
    <2>1. agent[p].job = t /\ (WriteDone(p) \/ (Settle(p) /\ ~StreamIsOpen))
      BY <1>4, ReleaserMoves
    <2>2. CASE WriteDone(p)
      <3>1. Has(t, "done")'
        BY <2>1, <2>2, WriteHas DEF WriteDone, Kind, TypeInv
      <3> QED
        BY <3>1 DEF Ends
    <2>3. CASE Settle(p) /\ ~StreamIsOpen
      <3>1. job[t] \in {"doing", "gone"} /\ UNCHANGED log
        BY <2>1, <2>3 DEF Settle, At, LockInv, ReleasedIsDead, Releasing
      <3>2. \E i \in DOMAIN log : log[i].turn = t
        BY <3>1 DEF LockInv, UnsentIsNone, LogInv, AskedIsLogged
      <3> QED
        BY <2>3, <3>1, <3>2, ClosedEnds, EndsStays
    <2> QED
      BY <2>1, <2>2, <2>3
  <1> QED
    BY <1>2, <1>3, <1>4, Mover

LEMMA GoneStep ==
    ASSUME TypeInv, LockInv, LogInv, EndInv, [Next]_vars PROVE GoneEnds'
  <1>1. /\ faults \in Nat /\ faults' \in Nat /\ faults <= faults'
        /\ \A p \in Releasers : Dies(p) => faults' = faults + 1
    BY FaultsGrow
  <1> SUFFICES ASSUME faults' <= 1, NEW t \in Turns, job'[t] = "gone"
               PROVE  Ends(t)' \/ Closing(t)'
    BY DEF GoneEnds
  <1>2. faults <= 1 /\ t \in Jobs
    BY <1>1, AgentsAre
  <1>3. ASSUME NEW p \in Releasers, agent[p].job = t, agent[p].pc \in {"error", "end"}
        PROVE  Ends(t)' \/ Closing(t)'
    <2>1. ~Dies(p)
      <3>1. faults > 0
        BY <1>3 DEF EndInv, DeadFault, Releasing
      <3> QED
        BY <1>1, <3>1
    <2>2. CASE agent'[p] = agent[p]
      BY <1>3, <2>2 DEF Closing
    <2>3. CASE WriteDone(p)
      <3>1. Has(t, "done")'
        BY <1>3, <2>3, WriteHas DEF WriteDone, Kind, TypeInv
      <3> QED
        BY <3>1 DEF Ends
    <2>4. CASE OwnStep(p) /\ ~WriteDone(p)
      <3>1. agent'[p].pc = "end" /\ agent'[p].job = t
        BY <1>3, <2>1, <2>4, ReleaserMoves
      <3> QED
        BY <3>1 DEF Closing
    <2> QED
      BY <2>2, <2>3, <2>4, Mover, AgentsAre
  <1>4. CASE job[t] = "gone"
    <2>1. CASE Ends(t)
      <3>1. \A w \in Workers : ~Live(w, t)
        BY <1>4 DEF LockInv, HeldIsDoing, Live, Working
      <3>2. ASSUME NEW s \in Stoppers, TellStopped(s), agent[s].turn = t PROVE FALSE
        BY <1>4, <3>2 DEF TellStopped, At, LockInv, TellsCancelled, Telling
      <3>3. ASSUME NEW p \in Releasers, WriteError(p), agent[p].job = t
            PROVE  Ends(t)' \/ Closing(t)'
        BY <1>3, <3>3 DEF WriteError, At
      <3> QED
        BY <1>4, <2>1, <3>1, <3>2, <3>3, LateRows, EndsStays
    <2>2. CASE Closing(t)
      BY <1>3, <2>2 DEF Closing
    <2> QED
      BY <1>2, <1>4, <2>1, <2>2 DEF EndInv, GoneEnds
  <1>5. CASE job[t] # "gone"
    <2>1. ASSUME NEW w \in Workers, FinishJob(w), agent[w].job = t PROVE Ends(t)'
      <3>1. Has(t, "done")
        BY <2>1 DEF FinishJob, At, EndInv, FinishedEnds
      <3> QED
        BY <3>1, HasStays DEF Ends
    <2>2. ASSUME NEW p \in Releasers, ReleaseJob(p), agent[p].job = t PROVE Ends(t)'
      <3>1. Ends(t) /\ UNCHANGED log
        BY <1>2, <2>2 DEF ReleaseJob, At, EndInv, ReleasedEnds
      <3> QED
        BY <3>1, EndsStays
    <2>3. ASSUME NEW w \in Workers, Take(w), agent'[w].pc = "run", agent'[w].job = t PROVE FALSE
      <3>1. job'[t] = "doing"
        <4>1. PICK j \in Jobs : Leaves(j, "doing") /\ Become(w, [Idle EXCEPT !.pc = "run", !.job = j])
          BY <2>3 DEF Take
        <4>2. agent'[w] = [Idle EXCEPT !.pc = "run", !.job = j]
          BY <4>1, AgentsAre DEF Become, TypeInv, TypeOK
        <4>3. j = t
          BY <2>3, <4>2 DEF Idle
        <4> QED
          BY <4>1, <4>3 DEF Leaves, TypeInv, TypeOK
      <3> QED
        BY <3>1
    <2> QED
      BY <1>2, <1>5, <2>1, <2>2, <2>3, JobsMove
  <1> QED
    BY <1>4, <1>5

LEMMA CancelledStep ==
    ASSUME TypeInv, LockInv, CancelledEnds, [Next]_vars PROVE CancelledEnds'
  <1>1. /\ faults \in Nat /\ faults' \in Nat /\ faults <= faults'
        /\ \A p \in Releasers : Dies(p) => faults' = faults + 1
    BY FaultsGrow
  <1> SUFFICES ASSUME faults' = 0, NEW t \in Turns, job'[t] = "cancelled"
               PROVE  Has(t, "done")' \/ \E s \in Stoppers : Telling(s)' /\ agent'[s].turn = t
    BY DEF CancelledEnds
  <1>2. faults = 0 /\ t \in Jobs /\ \A p \in Releasers : ~Dies(p)
    BY <1>1, AgentsAre
  <1>3. CASE job[t] = "cancelled"
    <2>1. CASE Has(t, "done")
      BY <2>1, HasStays
    <2>2. ASSUME NEW s \in Stoppers, Telling(s), agent[s].turn = t
          PROVE  Has(t, "done")' \/ (Telling(s)' /\ agent'[s].turn = t)
      <3>0. s \in Releasers /\ s \in Agents
        BY AgentsAre
      <3>1. CASE agent'[s] = agent[s]
        BY <2>2, <3>1 DEF Telling
      <3>2. CASE CloseQueued(s)
        BY <2>2, <3>2, WriteHas DEF CloseQueued, Kind, TypeInv
      <3>3. CASE OwnStep(s) /\ ~CloseQueued(s)
        <4>1. agent'[s].pc = "close" /\ agent'[s].turn = t
          BY <1>2, <2>2, <3>0, <3>3, ReleaserMoves
        <4> QED
          BY <4>1 DEF Telling
      <3> QED
        BY <3>0, <3>1, <3>2, <3>3, Mover
    <2> QED
      BY <1>2, <1>3, <2>1, <2>2 DEF CancelledEnds
  <1>4. CASE job[t] # "cancelled"
    <2>1. ASSUME NEW w \in Workers, Take(w), agent'[w].pc = "run", agent'[w].job = t PROVE FALSE
      <3>1. PICK j \in Jobs : Leaves(j, "doing") /\ Become(w, [Idle EXCEPT !.pc = "run", !.job = j])
        BY <2>1 DEF Take
      <3>2. agent'[w] = [Idle EXCEPT !.pc = "run", !.job = j]
        BY <3>1, AgentsAre DEF Become, TypeInv, TypeOK
      <3>3. j = t
        BY <2>1, <3>2 DEF Idle
      <3> QED
        BY <3>1, <3>3 DEF Leaves, TypeInv, TypeOK
    <2>2. \E s \in Stoppers : agent'[s].pc = "tell" /\ agent'[s].turn = t
      BY <1>2, <1>4, <2>1, JobsMove
    <2> QED
      BY <2>2 DEF Telling
  <1> QED
    BY <1>3, <1>4

LEMMA EndInit == Init => EndInv
  <1> SUFFICES ASSUME Init PROVE EndInv
    OBVIOUS
  <1>1. /\ \A p \in Agents : agent[p].pc = "idle"
        /\ \A j \in Jobs : job[j] \in {"todo", "none"}
        /\ DOMAIN log = {} /\ ~silent
    BY DEF Init, Idle
  <1> QED
    BY <1>1, AgentsAre
    DEF EndInv, NewestRow, DoingHeld, DeadFault, FinishedEnds, ReleasedEnds, GoneEnds,
        CancelledEnds, Releasing

LEMMA EndStep == TypeInv /\ LockInv /\ LogInv /\ EndInv /\ [Next]_vars => EndInv'
  BY NewestStep, HeldStep, DeadStep, FinishedStep, ReleasedStep, GoneStep, CancelledStep DEF EndInv

(* For every number of messages, tasks and agents: a turn whose job is over, *)
(* with nobody left to write it, has its terminator, or a later turn spoke   *)
(* after it (maintenance._release_job, host/stop_turn.py).                   *)
THEOREM EndsClosedAlways == Spec => []EndsClosed
  <1>1. Init => TypeInv /\ LockInv /\ LogInv /\ EndInv
    BY TypeInit, LockInit, LogInit, EndInit
  <1>2. TypeInv /\ LockInv /\ LogInv /\ EndInv /\ [Next]_vars => (TypeInv /\ LockInv /\ LogInv /\ EndInv)'
    BY TypeStep, LockStep, LogStep, EndStep
  <1>3. TypeInv /\ EndInv => EndsClosed
    <2> SUFFICES ASSUME TypeInv, EndInv, NEW t \in Turns, Writers(t) = {},
                        (job[t] = "gone" /\ faults <= 1) \/ (job[t] = "cancelled" /\ faults = 0)
                 PROVE  Ends(t)
      BY DEF EndsClosed, Ends
    <2>1. ~Closing(t) /\ ~\E s \in Stoppers : Telling(s) /\ agent[s].turn = t
      BY DEF Writers, Closing, Telling
    <2> QED
      BY <2>1 DEF EndInv, GoneEnds, CancelledEnds, Ends
  <1> QED
    BY <1>1, <1>2, <1>3, PTL DEF Spec
=============================================================================
