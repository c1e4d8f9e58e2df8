---------------------------- MODULE TurnGraph_proofs ----------------------------
(***************************************************************************)
(* What holds of a thread's turns for every set of responses, every         *)
(* threshold and any number of turns, calls and requests, proved from       *)
(* TurnGraph.                                                                *)
(***************************************************************************)
EXTENDS TurnGraph, SequenceTheorems, WellFoundedInduction, TLAPS

-----------------------------------------------------------------------------
(* What the helpers return *)

Below == OpToRel(<, Nat)

\* What "the first of" and "the last of" choose.
LEMMA Least ==
  ASSUME NEW S \in SUBSET Nat, S # {} PROVE \E x \in S : \A y \in S : x <= y
  <1>1. PICK x \in S : \A y \in S : ~(<<y, x>> \in Below)
    BY NatLessThanWellFounded, WFMin DEF Below
  <1>2. ASSUME NEW y \in S PROVE x <= y
    <2>1. x \in Nat /\ y \in Nat
      OBVIOUS
    <2>2. y < x => <<y, x>> \in Below
      BY <2>1 DEF Below, OpToRel
    <2> QED
      BY <1>1, <2>1, <2>2
  <1> QED
    BY <1>2

LEMMA Greatest ==
  ASSUME NEW n \in Nat, NEW S \in SUBSET (1 .. n), S # {} PROVE \E x \in S : \A y \in S : y <= x
  <1> DEFINE T == {n - x : x \in S}
  <1>1. T \in SUBSET Nat /\ T # {}
    <2>1. \A x \in S : n - x \in Nat
      OBVIOUS
    <2>2. PICK x \in S : TRUE
      OBVIOUS
    <2>3. n - x \in T
      BY <2>2
    <2> QED
      BY <2>1, <2>3
  <1>2. PICK t \in T : \A u \in T : t <= u
    BY <1>1, Least
  <1>3. PICK x \in S : t = n - x
    OBVIOUS
  <1>4. ASSUME NEW y \in S PROVE y <= x
    <2>1. n - x <= n - y
      BY <1>2, <1>3
    <2> QED
      BY <2>1
  <1> QED
    BY <1>4

LEMMA FirstIn == ASSUME NEW S \in SUBSET Nat, S # {} PROVE FirstOf(S) \in S
  BY Least DEF FirstOf

LEMMA ParkTypes == NoPark \in Park /\ NoCall \in Nat
  BY EmptySeq DEF NoPark, NoCall, Park

LEMMA MessageTypes ==
  /\ \A s \in SUBSET Nat : CallsOf(s) \in Message /\ Returns(s) \in Message
  /\ \A n \in Nat : Prompt(n) \in Message
  /\ Answer \in Message /\ Paused \in Message
  BY DEF CallsOf, Returns, Prompt, Answer, Paused, Message

LEMMA OutstandingType == ASSUME NEW msgs \in Seq(Message) PROVE Outstanding(msgs) \in SUBSET Nat
  <1> DEFINE at == {i \in DOMAIN msgs : msgs[i].k = "calls"}
             i == CHOOSE j \in at : \A x \in at : x <= j
  <1>1. Len(msgs) \in Nat /\ DOMAIN msgs = 1 .. Len(msgs)
    BY LenProperties
  <1>2. CASE at = {}
    BY <1>2 DEF Outstanding
  <1>3. CASE at # {}
    <2>1. at \in SUBSET (1 .. Len(msgs)) /\ \A m \in Message : m.c \in SUBSET Nat
      BY <1>1 DEF Message
    <2>0. i \in DOMAIN msgs
      <3> HIDE DEF at
      <3>1. \E j \in at : \A x \in at : x <= j
        BY <1>1, <1>3, <2>1, Greatest
      <3>2. i \in at
        BY <3>1
      <3> HIDE DEF i
      <3> QED
        BY <1>1, <2>1, <3>2
    <2>2. msgs[i].c \in SUBSET Nat
      <3> HIDE DEF i
      <3>1. msgs[i] \in Message
        BY <1>1, <2>0, ElementOfSeq
      <3> QED
        BY <2>1, <3>1
    <2>3. Outstanding(msgs) = msgs[i].c \ UNION {msgs[j].c : j \in {x \in DOMAIN msgs : x > i /\ msgs[x].k = "returns"}}
      BY <1>3 DEF Outstanding
    <2> QED
      BY <2>2, <2>3
  <1> QED
    BY <1>2, <1>3

LEMMA SettledHistoryType ==
  ASSUME NEW msgs \in Seq(Message) PROVE SettledHistory(msgs) \in Seq(Message)
  <1> DEFINE ends == {i \in DOMAIN msgs : Settled(SubSeq(msgs, 1, i))}
             e == IF ends = {} THEN 0 ELSE CHOOSE i \in ends : \A j \in ends : j <= i
  <1>1. Len(msgs) \in Nat /\ DOMAIN msgs = 1 .. Len(msgs)
    BY LenProperties
  <1>2. e \in 0 .. Len(msgs)
    <2>1. ends \in SUBSET (1 .. Len(msgs))
      BY <1>1
    <2>2. CASE ends # {}
      <3> HIDE DEF ends
      <3>1. \E i \in ends : \A j \in ends : j <= i
        BY <1>1, <2>1, <2>2, Greatest
      <3>2. e \in ends
        BY <2>2, <3>1
      <3> HIDE DEF e
      <3> QED
        BY <1>1, <2>1, <3>2
    <2> QED
      BY <1>1, <2>2
  <1>3. SettledHistory(msgs) = SubSeq(msgs, 1, e)
    BY DEF SettledHistory
  <1> HIDE DEF e
  <1> QED
    BY <1>1, <1>2, <1>3, SubSeqProperties

LEMMA GuardFields ==
  ASSUME NEW g \in Guard
  PROVE  /\ g.count \in Nat /\ g.warned \in Nat /\ g.finds \in Nat /\ g.capWarned \in Nat
         /\ g.stopped \in Nat
  BY DEF Guard

LEMMA CheckType ==
  ASSUME NEW g \in Guard, NEW c \in Calls, NEW step \in Nat, kind \in Seq(Kinds)
  PROVE  Check(g, c, step).g \in Guard /\ Check(g, c, step).block \in BOOLEAN
  <1>1. kind[c] \in Kinds /\ c \in Nat
    BY LenProperties, ElementOfSeq DEF Calls
  <1>2. CheckCap(g, c, step).g \in Guard /\ CheckCap(g, c, step).block \in BOOLEAN
    <2> DEFINE w == IF g.capWarned = 0 THEN step ELSE g.capWarned
    <2>1. w \in Nat /\ g.finds + 1 \in Nat
      BY GuardFields
    <2>2. [g EXCEPT !.finds = g.finds + 1] \in Guard
      BY <2>1 DEF Guard
    <2> HIDE DEF w
    <2>3. \A st \in Nat : [g EXCEPT !.finds = g.finds + 1, !.capWarned = w, !.stopped = st] \in Guard
      BY <2>1 DEF Guard
    <2>4. (IF step > w /\ g.stopped = NoCall THEN c ELSE g.stopped) \in Nat
      BY <1>1 DEF Guard
    <2> DEFINE within == [g EXCEPT !.finds = g.finds + 1]
               over == [g EXCEPT !.finds = g.finds + 1, !.capWarned = w,
                                 !.stopped = IF step > w /\ @ = NoCall THEN c ELSE @]
    <2>5. CheckCap(g, c, step) = IF g.finds + 1 <= Cap THEN [g |-> within, block |-> FALSE]
                                 ELSE [g |-> over, block |-> TRUE]
      BY DEF CheckCap, w
    <2>6. within \in Guard /\ over \in Guard
      BY <1>1, <2>1, <2>2 DEF Guard
    <2> HIDE DEF within, over
    <2> QED
      BY <2>5, <2>6
  <1>3. ASSUME NEW h \in Guard PROVE Streak(h, kind[c]) \in Guard
    <2>1. \A n \in Nat : [h EXCEPT !.count = n] \in Guard
      BY DEF Guard
    <2>3. h.count + 1 \in Nat
      BY GuardFields
    <2>2. [h EXCEPT !.last = kind[c], !.count = 1, !.warned = 0] \in Guard
      BY <1>1 DEF Guard
    <2> QED
      BY <2>1, <2>2, <2>3 DEF Streak
  <1>4. ASSUME NEW h \in Guard
        PROVE  CheckRepeat(h, c, step).g \in Guard /\ CheckRepeat(h, c, step).block \in BOOLEAN
    <2> DEFINE s == Streak(h, kind[c])
               w == IF s.warned = 0 THEN step ELSE s.warned
    <2>1. s \in Guard
      BY <1>3
    <2> HIDE DEF s
    <2>2. w \in Nat /\ (IF step > w /\ s.stopped = NoCall THEN c ELSE s.stopped) \in Nat
      BY <1>1, <2>1 DEF Guard
    <2> HIDE DEF w
    <2>3. \A st \in Nat : [s EXCEPT !.warned = w, !.stopped = st] \in Guard
      BY <2>1, <2>2 DEF Guard
    <2> DEFINE over == [s EXCEPT !.warned = w,
                                 !.stopped = IF step > w /\ @ = NoCall THEN c ELSE @]
    <2>4. CheckRepeat(h, c, step) = IF s.count < Threshold THEN [g |-> s, block |-> FALSE]
                                    ELSE [g |-> over, block |-> TRUE]
      BY DEF CheckRepeat, s, w
    <2>5. over \in Guard
      BY <1>1, <2>1, <2>2 DEF Guard
    <2> HIDE DEF over
    <2> QED
      BY <2>1, <2>4, <2>5
  <1>5. \A h \in Guard : [h EXCEPT !.last = "", !.count = 0, !.warned = 0] \in Guard
    BY DEF Guard
  <1> DEFINE g1 == IF kind[c] = "find" THEN CheckCap(g, c, step).g ELSE g
  <1>6. g1 \in Guard
    BY <1>2
  <1> HIDE DEF g1
  <1> QED
    BY <1>2, <1>4, <1>5, <1>6 DEF Check, g1
-----------------------------------------------------------------------------
(* One yes, one run *)

Waits(t) == t.todo \cup t.deferred

\* A call that asks is on a card only as long as nothing ran it, and a card that
\* was passed over is not the one the thread waits on.
CardInv ==
  /\ \A c \in asked : kind[c] \in Asks /\ ran[c] = 0
  /\ \A c \in reported : kind[c] \in Durable
  /\ cp.approval.call \in 0 .. Len(kind)
  /\ cp.approval.call \notin ghost.dropped
  /\ ghost.dropped \subseteq Calls

\* The run's clicks answer the card the thread waits on.
ClickInv ==
  /\ turn.clicks \subseteq cp.approvals
  /\ \A a \in turn.clicks : a.call = cp.approval.call

\* What a run that may go on has still to run or to wait for.
CallInv ==
  /\ Waits(turn) \subseteq Calls /\ turn.todo \cap turn.deferred = {}
  /\ \A c \in turn.deferred : kind[c] \in Asks \cup Durable
  /\ \A c \in Waits(turn) : kind[c] \in Asks => ran[c] = 0 /\ c \notin ghost.dropped
  /\ turn.fresh => cp.approval.call \notin Waits(turn)

ParkInv ==
  /\ turn.approval.call \in 0 .. Len(kind)
  /\ turn.approval.call \notin ghost.dropped
  /\ turn.fresh => turn.approval.call = NoCall \/ turn.approval.call # cp.approval.call

RunInv ==
  /\ turn.phase \in {"request", "calls"} => turn.approval = NoPark /\ ClickInv
  /\ turn.phase = "calls" => IF Accepted THEN CallInv ELSE turn.deferred = {}
  /\ turn.phase = "node" => ParkInv

Inv == TypeOK /\ CardInv /\ RunInv

-----------------------------------------------------------------------------
(* Types of what a turn is made of *)

LEMMA TurnHere == ASSUME TypeOK, Running PROVE turn \in Turn
  BY DEF TypeOK, Running, Idle

LEMMA TurnFields ==
  ASSUME NEW t \in Turn
  PROVE  /\ t.msgs \in Seq(Message) /\ t.kept \in Seq(Message)
         /\ t.clicks \subseteq Click /\ t.values \subseteq Nat /\ t.todo \subseteq Nat
         /\ t.got \subseteq Nat /\ t.deferred \subseteq Nat /\ t.step \in Nat /\ t.used \in Nat
         /\ t.parts \in BOOLEAN /\ t.fresh \in BOOLEAN /\ t.approval \in Park /\ t.durable \in Park
         /\ t.message \in Nat
  BY DEF Turn

LEMMA GhostFields ==
  ASSUME TypeOK
  PROVE  /\ ghost.turns \in Nat /\ ghost.typed \in BOOLEAN
         /\ ghost.superseded \subseteq Nat /\ ghost.dropped \subseteq Nat
         /\ ghost.refused \subseteq [kind : Kinds, step : Nat]
  BY DEF TypeOK

LEMMA CpFields ==
  ASSUME NEW s \in Checkpoint
  PROVE  /\ s.prompt \in Nat /\ s.thread \in Seq(Message) /\ s.approval \in Park /\ s.durable \in Park
         /\ s.approval.call \in Nat /\ s.approval.msgs \in Seq(Message)
         /\ s.durable.tasks \subseteq Nat /\ s.durable.msgs \in Seq(Message)
         /\ s.approvals \subseteq Click /\ s.results \subseteq Nat /\ s.tokens \in Nat
  BY DEF Checkpoint, Park

LEMMA CallsFacts ==
  ASSUME TypeOK
  PROVE  /\ Len(kind) \in Nat /\ DOMAIN kind = Calls /\ DOMAIN ran = Calls
         /\ \A c \in Calls : c \in Nat /\ c # NoCall /\ kind[c] \in Kinds /\ ran[c] \in Nat
  BY LenProperties, ElementOfSeq DEF TypeOK, Calls, NoCall

LEMMA UsedType ==
  ASSUME NEW t \in Turn
  PROVE  /\ Used(t) \in Turn /\ Used(t).used > 0 /\ Used(t).msgs = t.msgs
         /\ Used(t).fresh = t.fresh
  <1>1. t.used + 1 \in Nat /\ t.step + 1 \in Nat
    BY TurnFields
  <1>2. \A u, n \in Nat : [t EXCEPT !.used = u, !.step = n, !.parts = TRUE] \in Turn
    BY DEF Turn
  <1>3. Used(t) = [t EXCEPT !.used = t.used + 1, !.step = t.step + 1, !.parts = TRUE]
    BY DEF Used, Turn
  <1>4. ASSUME NEW u \in Nat, NEW n \in Nat
        PROVE  /\ [t EXCEPT !.used = u, !.step = n, !.parts = TRUE].used = u
               /\ [t EXCEPT !.used = u, !.step = n, !.parts = TRUE].msgs = t.msgs
               /\ [t EXCEPT !.used = u, !.step = n, !.parts = TRUE].fresh = t.fresh
    BY DEF Turn
  <1>5. Used(t) \in Turn
    BY <1>1, <1>2, <1>3
  <1>6. Used(t).used = t.used + 1 /\ Used(t).msgs = t.msgs /\ Used(t).fresh = t.fresh
    BY <1>1, <1>3, <1>4
  <1> QED
    BY <1>5, <1>6, TurnFields

\* A result with nothing to wait for parks nothing; one with an approval alone
\* parks its first call.
LEMMA AbsorbFacts ==
  ASSUME NEW t \in Turn, NEW msgs \in Seq(Message), NEW calls \in SUBSET Nat
  PROVE  /\ Absorb(t, msgs, calls) \in Turn
         /\ Absorb(t, msgs, calls).phase = "node" /\ Absorb(t, msgs, calls).fresh = t.fresh
         /\ \/ Absorb(t, msgs, calls).approval.call = NoCall
            \/ /\ Absorb(t, msgs, calls).approval.call \in calls
               /\ \A c \in calls : kind[c] \notin Durable
  <1> DEFINE tasks == {c \in calls : kind[c] \in Durable}
             park(s) == [call |-> FirstOf(s), tasks |-> tasks, msgs |-> msgs]
             d == IF tasks # {} THEN park(tasks) ELSE NoPark
             a == IF tasks = {} /\ calls # {} THEN park(calls) ELSE NoPark
  <1>1. tasks \in SUBSET Nat
    OBVIOUS
  <1>2. d \in Park
    <2>1. CASE tasks # {}
      <3>1. FirstOf(tasks) \in Nat
        BY <1>1, <2>1, FirstIn
      <3> QED
        BY <1>1, <2>1, <3>1 DEF Park
    <2> QED
      BY <2>1, ParkTypes
  <1>3. a \in Park /\ (a.call = NoCall \/ (a.call \in calls /\ tasks = {}))
    <2>1. CASE tasks = {} /\ calls # {}
      <3>1. FirstOf(calls) \in calls
        BY <2>1, FirstIn
      <3> QED
        BY <2>1, <3>1 DEF Park
    <2>2. CASE ~(tasks = {} /\ calls # {})
      BY <2>2, ParkTypes DEF NoPark
    <2> QED
      BY <2>1, <2>2
  <1>4. Absorb(t, msgs, calls)
          = [t EXCEPT !.phase = "node", !.msgs = msgs, !.kept = msgs, !.parts = TRUE,
                      !.durable = d, !.approval = a]
    BY DEF Absorb
  <1> HIDE DEF d, a
  <1>5. [t EXCEPT !.phase = "node", !.msgs = msgs, !.kept = msgs, !.parts = TRUE,
                  !.durable = d, !.approval = a] \in Turn
    BY <1>2, <1>3 DEF Turn
  <1>6. /\ Absorb(t, msgs, calls).phase = "node" /\ Absorb(t, msgs, calls).fresh = t.fresh
        /\ Absorb(t, msgs, calls).approval = a
    BY <1>4 DEF Turn
  <1>7. tasks = {} => \A c \in calls : kind[c] \notin Durable
    OBVIOUS
  <1> QED
    BY <1>3, <1>4, <1>5, <1>6, <1>7

-----------------------------------------------------------------------------
(* Steps: one lemma per action *)

LEMMA CardSame ==
  ASSUME CardInv, UNCHANGED <<kind, ran, asked, reported>>, cp'.approval = cp.approval,
         ghost'.dropped = ghost.dropped
  PROVE  CardInv'
  BY DEF CardInv, Calls

LEMMA InitInv == Init => Inv
  <1> SUFFICES ASSUME Init PROVE Inv
    OBVIOUS
  <1>1. <<>> \in Seq(Message) /\ <<>> \in Seq(Kinds) /\ <<>> \in Seq(Nat) /\ Len(<<>>) = 0
    BY EmptySeq
  <1>2. cp \in Checkpoint /\ cp.approval = NoPark
    BY <1>1, ParkTypes DEF Init, Checkpoint
  <1>3. guard \in Guard
    BY DEF Init, NewGuard, Guard, NoCall
  <1>4. ghost \in [turns : Nat, typed : BOOLEAN, superseded : SUBSET Nat, dropped : SUBSET Nat,
                   refused : SUBSET [kind : Kinds, step : Nat]] /\ ghost.dropped = {}
    BY BoundsAssumption DEF Init
  <1>5. TypeOK
    BY <1>1, <1>2, <1>3, <1>4 DEF Init, TypeOK, Calls
  <1>6. CardInv
    BY <1>1, <1>2, <1>4 DEF Init, CardInv, NoPark, NoCall, Calls
  <1>7. RunInv
    BY DEF Init, RunInv, Idle
  <1> QED
    BY <1>5, <1>6, <1>7 DEF Inv

LEMMA TurnForFacts ==
  ASSUME NEW s \in Checkpoint
  PROVE  /\ s.prompt \in Nat => TurnFor(s).msgs \in Seq(Message)
         /\ TurnFor(s).values \subseteq s.results \cap s.durable.tasks
         /\ TurnFor(s).clicks \subseteq s.approvals
         /\ \A a \in TurnFor(s).clicks : a.call = s.approval.call
  <1>1. ApprovalResults(s) \subseteq s.approvals /\ \A a \in ApprovalResults(s) : a.call = s.approval.call
    BY DEF ApprovalResults
  <1>2. Append(s.thread, Prompt(s.prompt)) \in Seq(Message)
    BY CpFields, MessageTypes, AppendProperties
  <1> QED
    BY <1>1, <1>2, CpFields DEF TurnFor

\* How a turn may be started: with the user's message, with answers to cards, or
\* with the outcomes of tasks.
Starts ==
  [approvals : {S \in SUBSET Click : \A a \in S : a.call \in asked},
   results : SUBSET reported, resume : BOOLEAN, prompt : Nat]

LEMMA StartInv == ASSUME Inv, NEW start \in Starts, Start(start) PROVE Inv'
  <1>0. TypeOK /\ CardInv /\ cp \in Checkpoint
    BY DEF Inv, TypeOK
  <1>1. /\ ~Running /\ cp' = Input(start)
        /\ UNCHANGED <<kind, ran, asked, reported, charged>>
        /\ guard' = NewGuard /\ open' = 0
    BY DEF Start
  <1>2. /\ start.approvals \subseteq Click /\ \A a \in start.approvals : a.call \in asked
        /\ start.results \subseteq reported /\ start.resume \in BOOLEAN /\ start.prompt \in Nat
    BY DEF Starts
  <1>3. reported \subseteq Nat
    BY <1>0, CallsFacts DEF TypeOK
  <1>4. /\ cp' \in Checkpoint /\ cp'.approval = cp.approval /\ cp'.durable = cp.durable
        /\ cp'.approvals = start.approvals /\ cp'.results = start.results
    BY <1>0, <1>1, <1>2, <1>3 DEF Input, Checkpoint
  <1> DEFINE t == TurnFor(cp')
             resumed == t.values \cup t.clicks # {}
             todo == IF resumed THEN Outstanding(t.msgs) ELSE {}
             phase == IF resumed THEN "calls" ELSE "request"
             message == IF open # 0 /\ start.resume THEN open ELSE Len(rows) + 1
  <1>5. /\ t.msgs \in Seq(Message) /\ t.values \subseteq reported
        /\ t.clicks \subseteq start.approvals /\ \A a \in t.clicks : a.call = cp.approval.call
    BY <1>2, <1>4, TurnForFacts, CpFields
  <1>6. turn' = [phase |-> phase, msgs |-> t.msgs, clicks |-> t.clicks, values |-> t.values,
                 todo |-> todo, got |-> {}, deferred |-> {}, step |-> 1, used |-> 0, parts |-> FALSE,
                 fresh |-> ~resumed, cancel |-> FALSE, kept |-> <<>>,
                 approval |-> NoPark, durable |-> NoPark, message |-> message]
    BY DEF Start
  <1>7. todo \subseteq Nat /\ message \in Nat /\ phase \in {"request", "calls"}
    BY <1>0, <1>5, OutstandingType, LenProperties DEF TypeOK
  <1>8. t.clicks \subseteq Click /\ t.values \subseteq Nat /\ <<>> \in Seq(Message)
    BY <1>2, <1>3, <1>5, EmptySeq
  <1>9. resumed \in BOOLEAN
    OBVIOUS
  <1> HIDE DEF t
  <1>10. /\ phase = "calls" => /\ resumed /\ todo = Outstanding(t.msgs)
    OBVIOUS
  <1> HIDE DEF resumed, todo, phase, message
  <1>11. turn' \in Turn
    BY <1>5, <1>6, <1>7, <1>8, <1>9, ParkTypes DEF Turn
  <1>12. /\ guard' \in Guard /\ open' \in Nat
         /\ rows' \in Seq(Nat)
    <2>1. Append(rows, 0) \in Seq(Nat)
      BY <1>0, AppendProperties DEF TypeOK
    <2>2. rows' = rows \/ rows' = Append(rows, 0)
      BY DEF Start
    <2>3. NewGuard \in Guard
      BY DEF NewGuard, Guard, NoCall
    <2> QED
      BY <1>0, <1>1, <2>1, <2>2, <2>3 DEF TypeOK
  <1>13. /\ ghost' \in [turns : Nat, typed : BOOLEAN, superseded : SUBSET Nat, dropped : SUBSET Nat,
                        refused : SUBSET [kind : Kinds, step : Nat]]
         /\ ghost'.dropped = ghost.dropped
    <2> DEFINE sup == IF start.resume THEN ghost.superseded
                      ELSE ghost.superseded \cup ({cp.approval.call} \ {NoCall})
    <2>1. sup \subseteq Nat /\ ghost.turns + 1 \in Nat
      BY <1>0, CpFields, GhostFields
    <2>2. ghost' = [ghost EXCEPT !.turns = ghost.turns + 1, !.refused = {}, !.superseded = sup]
      BY <1>0 DEF Start, TypeOK
    <2> HIDE DEF sup
    <2>3. \A n \in Nat : [ghost EXCEPT !.turns = n, !.refused = {}, !.superseded = sup]
             \in [turns : Nat, typed : BOOLEAN, superseded : SUBSET Nat, dropped : SUBSET Nat,
                  refused : SUBSET [kind : Kinds, step : Nat]]
      BY <1>0, <2>1 DEF TypeOK
    <2>4. \A n : [ghost EXCEPT !.turns = n, !.refused = {}, !.superseded = sup].dropped = ghost.dropped
      BY <1>0 DEF TypeOK
    <2> QED
      BY <2>1, <2>2, <2>3, <2>4
  <1>14. TypeOK'
    BY <1>0, <1>1, <1>4, <1>11, <1>12, <1>13 DEF TypeOK, Calls
  <1>15. CardInv'
    BY <1>0, <1>1, <1>4, <1>13, CardSame
  <1>16. ClickInv' /\ turn'.approval = NoPark /\ turn'.phase \in {"request", "calls"}
    BY <1>4, <1>5, <1>6, <1>7 DEF ClickInv
  <1>17. ASSUME turn'.phase = "calls", Accepted' PROVE CallInv'
    <2>1. /\ turn'.todo = Outstanding(turn'.msgs) /\ turn'.deferred = {} /\ ~turn'.fresh
          /\ turn'.used = 0 /\ turn'.values = t.values /\ turn'.clicks = t.clicks
      BY <1>6, <1>10, <1>17
    <2>2. turn'.todo = t.values \cup {a.call : a \in t.clicks}
      BY <1>17, <2>1 DEF Accepted
    <2>3. ASSUME NEW c \in turn'.todo
          PROVE  c \in Calls /\ (kind[c] \in Asks => ran[c] = 0 /\ c \notin ghost.dropped)
      <3>1. CASE c \in t.values
        BY <1>0, <1>5, <3>1 DEF TypeOK, CardInv, Asks, Durable
      <3>2. CASE \E a \in t.clicks : c = a.call
        BY <1>0, <1>2, <1>5, <3>2 DEF TypeOK, CardInv
      <3> QED
        BY <2>2, <2>3, <3>1, <3>2
    <2> QED
      BY <1>1, <1>13, <2>1, <2>3 DEF CallInv, Waits, Calls
  <1>18. RunInv'
    BY <1>6, <1>16, <1>17 DEF RunInv
  <1> QED
    BY <1>14, <1>15, <1>18 DEF Inv

LEMMA TaskReportsInv == ASSUME Inv, NEW c \in Calls, TaskReports(c) PROVE Inv'
  <1>1. /\ kind[c] \in Durable /\ reported' = reported \cup {c}
        /\ UNCHANGED <<cp, kind, ran, asked, turn, guard, rows, open, charged, ghost>>
    BY DEF TaskReports
  <1>2. TypeOK'
    BY <1>1 DEF Inv, TypeOK, Calls
  <1>3. CardInv'
    BY <1>1 DEF Inv, CardInv, Calls
  <1>4. RunInv'
    BY <1>1 DEF Inv, RunInv, ClickInv, CallInv, ParkInv, Accepted, Waits, Calls
  <1> QED
    BY <1>2, <1>3, <1>4 DEF Inv

\* A step that only moves the turn on.
LEMMA TurnMoves ==
  ASSUME Inv, turn' \in Turn \cup {Idle},
         UNCHANGED <<cp, kind, ran, asked, reported, guard, rows, open, charged, ghost>>
  PROVE  TypeOK' /\ CardInv'
  <1>1. TypeOK'
    BY DEF Inv, TypeOK, Calls
  <1> QED
    BY <1>1, CardSame DEF Inv

LEMMA StopInv == ASSUME Inv, Stop \/ StopSeen \/ RunFails \/ Fail PROVE Inv'
  <1>1. UNCHANGED <<cp, kind, ran, asked, reported, guard, rows, open, charged, ghost>>
    BY DEF Stop, StopSeen, RunFails, Fail
  <1>2. turn \in Turn /\ turn.phase \in {"request", "calls"}
    BY TurnHere DEF Inv, Stop, StopSeen, RunFails, Fail, Running
  <1>3. CASE Stop
    <2>1. turn' = [turn EXCEPT !.cancel = TRUE]
      BY <1>3 DEF Stop
    <2>2. turn' \in Turn
      BY <1>2, <2>1 DEF Turn
    <2>3. /\ turn'.phase = turn.phase /\ turn'.approval = turn.approval /\ turn'.clicks = turn.clicks
          /\ turn'.todo = turn.todo /\ turn'.deferred = turn.deferred /\ turn'.fresh = turn.fresh
          /\ turn'.used = turn.used /\ turn'.msgs = turn.msgs /\ turn'.values = turn.values
      BY <1>2, <2>1 DEF Turn
    <2>4. RunInv'
      BY <1>1, <2>3 DEF Inv, RunInv, ClickInv, CallInv, ParkInv, Accepted, Waits, Calls
    <2> QED
      BY <1>1, <2>2, <2>4, TurnMoves DEF Inv
  <1>4. CASE StopSeen \/ RunFails
    <2>1. turn' = [turn EXCEPT !.phase = "node"]
      BY <1>4 DEF StopSeen, RunFails
    <2>2. turn' \in Turn /\ turn'.phase = "node" /\ turn'.approval = turn.approval
      BY <1>2, <2>1 DEF Turn
    <2>3. RunInv'
      BY <1>1, <1>2, <2>2, CallsFacts DEF Inv, RunInv, ParkInv, CardInv, NoPark, NoCall, Calls
    <2> QED
      BY <1>1, <2>2, <2>3, TurnMoves DEF Inv
  <1>5. CASE Fail
    <2>1. turn' = Idle
      BY <1>5 DEF Fail
    <2>2. RunInv'
      BY <2>1 DEF RunInv, Idle
    <2> QED
      BY <1>1, <2>1, <2>2, TurnMoves DEF Inv
  <1> QED
    BY <1>3, <1>4, <1>5

LEMMA FinalizeInv == ASSUME Inv, NEW written \in BOOLEAN, Finalize(written) PROVE Inv'
  <1>1. /\ turn' = Idle /\ UNCHANGED <<cp, kind, ran, asked, reported, guard, charged, ghost>>
        /\ turn \in Turn /\ TypeOK /\ CardInv
    BY TurnHere DEF Inv, Finalize, Running
  <1>2. /\ open' \in Nat
        /\ rows' = [rows EXCEPT ![turn.message] = cp.tokens] \/ rows' = rows
    BY <1>1, TurnFields DEF Finalize
  <1>3. cp.tokens \in Nat
    BY <1>1, CpFields DEF TypeOK
  <1>4. [rows EXCEPT ![turn.message] = cp.tokens] \in Seq(Nat)
    <2>1. rows \in [1 .. Len(rows) -> Nat] /\ Len(rows) \in Nat
      BY <1>1, LenProperties DEF TypeOK
    <2>2. [rows EXCEPT ![turn.message] = cp.tokens] \in [1 .. Len(rows) -> Nat]
      BY <1>3, <2>1
    <2> QED
      BY <2>1, <2>2, SeqDef
  <1>5. TypeOK'
    BY <1>1, <1>2, <1>4 DEF TypeOK, Calls
  <1>6. RunInv'
    BY <1>1 DEF RunInv, Idle
  <1> QED
    BY <1>1, <1>5, <1>6, CardSame DEF Inv

LEMMA EndAgentInv == ASSUME Inv, EndAgent PROVE Inv'
  <1>1. /\ turn.phase = "node" /\ turn \in Turn /\ TypeOK /\ CardInv /\ ParkInv
        /\ UNCHANGED <<kind, ran, asked, reported, guard, rows, open>>
    BY TurnHere DEF Inv, EndAgent, Running, RunInv
  <1> DEFINE thread == IF turn.kept = <<>> THEN cp.thread ELSE SettledHistory(turn.kept)
             gone == IF turn.fresh THEN ghost.dropped \cup ({cp.approval.call} \ {NoCall})
                     ELSE ghost.dropped
  <1>2. /\ cp \in Checkpoint /\ cp.tokens + turn.used \in Nat /\ charged + turn.used \in Nat
    BY <1>1, CpFields, TurnFields DEF TypeOK
  <1>3. thread \in Seq(Message) /\ turn.approval \in Park /\ turn.durable \in Park
    BY <1>1, <1>2, CpFields, TurnFields, SettledHistoryType
  <1>4. cp' = [cp EXCEPT !.tokens = cp.tokens + turn.used, !.approval = turn.approval,
                         !.durable = turn.durable, !.thread = thread]
    BY <1>2 DEF EndAgent, Checkpoint
  <1> HIDE DEF thread
  <1>5. \A n \in Nat : [cp EXCEPT !.tokens = n, !.approval = turn.approval, !.durable = turn.durable,
                                  !.thread = thread] \in Checkpoint
    BY <1>2, <1>3 DEF Checkpoint
  <1>6. cp' \in Checkpoint /\ cp'.approval = turn.approval
    BY <1>2, <1>4, <1>5 DEF Checkpoint
  <1>7. turn' = [turn EXCEPT !.phase = "finalize"] /\ charged' = charged + turn.used
    BY DEF EndAgent
  <1>8. turn' \in Turn /\ turn'.phase = "finalize"
    BY <1>1, <1>7 DEF Turn
  <1>9. gone \subseteq Calls /\ gone \subseteq Nat
    BY <1>1, CallsFacts DEF CardInv, NoCall, Calls
  <1>10. ghost' = [ghost EXCEPT !.dropped = gone]
    BY <1>1 DEF EndAgent, TypeOK
  <1>11. turn.approval.call \notin gone
    BY <1>1 DEF ParkInv, NoCall, CardInv, Calls
  <1> HIDE DEF gone
  <1>12. /\ ghost' \in [turns : Nat, typed : BOOLEAN, superseded : SUBSET Nat, dropped : SUBSET Nat,
                        refused : SUBSET [kind : Kinds, step : Nat]]
         /\ ghost'.dropped = gone
    BY <1>1, <1>9, <1>10 DEF TypeOK
  <1>13. TypeOK'
    BY <1>1, <1>2, <1>6, <1>7, <1>8, <1>12 DEF TypeOK, Calls
  <1>14. CardInv'
    BY <1>1, <1>6, <1>9, <1>11, <1>12 DEF CardInv, ParkInv, Calls
  <1>15. RunInv'
    BY <1>8 DEF RunInv
  <1> QED
    BY <1>13, <1>14, <1>15 DEF Inv

\* A model request, which no call of the step before it can follow.
LEMMA RequestHere ==
  ASSUME Inv, Requested
  PROVE  /\ turn.phase = "request" /\ turn \in Turn /\ turn.approval = NoPark /\ ClickInv
         /\ TypeOK /\ CardInv
  BY TurnHere DEF Inv, Requested, Running, RunInv

\* New calls are calls nobody saw, ran or asked about before.
LEMMA NewCalls ==
  ASSUME TypeOK, CardInv, NEW ks \in Seq(Kinds), kind' = kind \o ks,
         ran' = ran \o [i \in DOMAIN ks |-> 0]
  PROVE  /\ kind' \in Seq(Kinds) /\ ran' \in Seq(Nat) /\ Len(ran') = Len(kind')
         /\ Len(kind') = Len(kind) + Len(ks) /\ Len(ks) \in Nat
         /\ \A c \in Calls : kind'[c] = kind[c] /\ ran'[c] = ran[c]
         /\ \A c \in Len(kind) + 1 .. Len(kind) + Len(ks) : ran'[c] = 0
  <1> DEFINE zeros == [i \in DOMAIN ks |-> 0]
  <1>1. Len(ks) \in Nat /\ DOMAIN ks = 1 .. Len(ks) /\ Len(kind) \in Nat
    BY LenProperties DEF TypeOK
  <1>2. zeros \in [1 .. Len(ks) -> Nat] /\ \A i \in 1 .. Len(ks) : zeros[i] = 0
    BY <1>1
  <1> HIDE DEF zeros
  <1>3. zeros \in Seq(Nat) /\ Len(zeros) = Len(ks)
    BY <1>1, <1>2, SeqDef, LenProperties
  <1>4. /\ kind' \in Seq(Kinds) /\ Len(kind') = Len(kind) + Len(ks)
        /\ \A c \in 1 .. Len(kind) : kind'[c] = kind[c]
    BY <1>1, ConcatProperties DEF TypeOK
  <1>5. /\ ran' \in Seq(Nat) /\ Len(ran') = Len(ran) + Len(zeros)
        /\ \A c \in 1 .. Len(ran) + Len(zeros) :
              ran'[c] = IF c <= Len(ran) THEN ran[c] ELSE zeros[c - Len(ran)]
    <2>1. ran' = ran \o zeros
      BY DEF zeros
    <2>2. ran \in Seq(Nat)
      BY DEF TypeOK
    <2>3. /\ ran \o zeros \in Seq(Nat) /\ Len(ran \o zeros) = Len(ran) + Len(zeros)
          /\ \A c \in 1 .. Len(ran) + Len(zeros) :
                (ran \o zeros)[c] = IF c <= Len(ran) THEN ran[c] ELSE zeros[c - Len(ran)]
      BY ONLY <1>3, <2>2, ConcatProperties
    <2> QED
      BY ONLY <2>1, <2>3
  <1>6. Len(ran) = Len(kind)
    BY DEF TypeOK
  <1>7. ASSUME NEW c \in Len(kind) + 1 .. Len(kind) + Len(ks) PROVE ran'[c] = 0
    <2>1. c - Len(ran) \in 1 .. Len(ks) /\ c \in 1 .. Len(ran) + Len(zeros) /\ ~(c <= Len(ran))
      BY <1>1, <1>3, <1>6, <1>7
    <2> QED
      BY <1>2, <1>5, <2>1
  <1>8. ASSUME NEW c \in Calls PROVE ran'[c] = ran[c]
    <2>1. c \in 1 .. Len(ran) + Len(zeros) /\ c <= Len(ran)
      BY <1>1, <1>3, <1>6, <1>8 DEF Calls
    <2> QED
      BY <1>5, <2>1
  <1> QED
    BY <1>1, <1>3, <1>4, <1>5, <1>6, <1>7, <1>8 DEF Calls

LEMMA GrownCards ==
  ASSUME TypeOK, CardInv, Len(kind') \in Nat, Len(kind) <= Len(kind'),
         \A c \in Calls : kind'[c] = kind[c] /\ ran'[c] = ran[c],
         UNCHANGED <<cp, asked, reported, ghost>>
  PROVE  CardInv' /\ asked' \subseteq Calls' /\ reported' \subseteq Calls' /\ Calls \subseteq Calls'
  <1>1. Calls \subseteq Calls'
    BY CallsFacts DEF Calls
  <1>2. asked \subseteq Calls /\ reported \subseteq Calls
    BY DEF TypeOK
  <1>3. cp.approval.call \in 0 .. Len(kind')
    BY CallsFacts DEF CardInv
  <1> QED
    BY <1>1, <1>2, <1>3 DEF CardInv

LEMMA RespondInv == ASSUME Inv, NEW ks \in Responses, Respond(ks) PROVE Inv'
  <1> DEFINE new == Len(kind) + 1 .. Len(kind) + Len(ks)
             u == Used(turn)
             msgs == Append(u.msgs, CallsOf(new))
  <1>1. /\ Requested /\ kind' = kind \o ks /\ ran' = ran \o [i \in DOMAIN ks |-> 0]
        /\ UNCHANGED <<cp, asked, reported, guard, rows, open, charged, ghost>>
    BY DEF Respond
  <1>2. /\ turn \in Turn /\ turn.approval = NoPark /\ TypeOK /\ CardInv /\ ks \in Seq(Kinds)
    BY <1>1, RequestHere, BoundsAssumption
  <1>3. /\ kind' \in Seq(Kinds) /\ ran' \in Seq(Nat) /\ Len(ran') = Len(kind')
        /\ Len(kind') = Len(kind) + Len(ks) /\ Len(ks) \in Nat /\ Len(kind) \in Nat
        /\ \A c \in Calls : kind'[c] = kind[c] /\ ran'[c] = ran[c]
        /\ \A c \in new : ran'[c] = 0
    BY <1>1, <1>2, NewCalls, CallsFacts
  <1>4. u \in Turn /\ u.used > 0 /\ u.fresh = turn.fresh /\ u.approval = NoPark
    <2>1. u.approval = turn.approval
      BY <1>2 DEF Used, Turn
    <2> QED
      BY <1>2, <2>1, UsedType
  <1>5. new \in SUBSET Nat
    BY <1>3
  <1>6. turn' = [u EXCEPT !.phase = "calls", !.todo = new, !.got = {}, !.deferred = {},
                          !.msgs = msgs, !.clicks = {}, !.values = {}]
    BY <1>4 DEF Respond, Turn
  <1>7. msgs \in Seq(Message)
    BY <1>4, <1>5, TurnFields, MessageTypes, AppendProperties
  <1>8. new \cap Calls = {} /\ new \subseteq Calls' /\ cp.approval.call \notin new
    BY <1>2, <1>3 DEF Calls, CardInv
  <1> HIDE DEF new, u, msgs
  <1>9. turn' \in Turn
    BY <1>4, <1>5, <1>6, <1>7 DEF Turn
  <1>10. /\ turn'.phase = "calls" /\ turn'.todo = new /\ turn'.deferred = {} /\ turn'.clicks = {}
         /\ turn'.fresh = turn.fresh /\ turn'.approval = NoPark /\ turn'.used = u.used
    BY <1>4, <1>6 DEF Turn
  <1>11. CardInv' /\ asked' \subseteq Calls' /\ reported' \subseteq Calls' /\ Calls \subseteq Calls'
    <2>1. Len(kind') \in Nat /\ Len(kind) <= Len(kind')
      BY <1>3
    <2> QED
      BY <1>1, <1>2, <1>3, <2>1, GrownCards
  <1>12. TypeOK'
    BY <1>1, <1>2, <1>3, <1>9, <1>11 DEF TypeOK
  <1>13. Accepted'
    BY <1>4, <1>10 DEF Accepted
  <1>14. CallInv'
    BY <1>1, <1>2, <1>3, <1>8, <1>10 DEF CallInv, CardInv, Waits
  <1>15. RunInv'
    BY <1>10, <1>13, <1>14 DEF RunInv, ClickInv
  <1> QED
    BY <1>11, <1>12, <1>15 DEF Inv

LEMMA ReplyInv == ASSUME Inv, NEW k \in {"answer", "paused"}, Reply(k) PROVE Inv'
  <1> DEFINE u == Used(turn)
             c == Len(kind) + 1
             typed == u.msgs \o <<CallsOf({c}), Returns({c})>>
             text == Append(u.msgs, IF k = "answer" THEN Answer ELSE Paused)
  <1>1. Requested /\ UNCHANGED <<cp, asked, reported, guard, rows, open, charged, ghost>>
    BY DEF Reply
  <1>2. /\ turn \in Turn /\ turn.approval = NoPark /\ TypeOK /\ CardInv
    BY <1>1, RequestHere
  <1>3. u \in Turn /\ u.msgs = turn.msgs /\ turn.msgs \in Seq(Message) /\ c \in Nat
    BY <1>2, UsedType, TurnFields, CallsFacts
  <1>4. typed \in Seq(Message) /\ text \in Seq(Message)
    <2>1. CallsOf({c}) \in Message /\ Returns({c}) \in Message
      BY <1>3, MessageTypes
    <2>2. <<CallsOf({c}), Returns({c})>> \in Seq(Message)
      BY <2>1
    <2> HIDE DEF c
    <2>3. typed \in Seq(Message)
      BY <1>3, <2>2, ConcatProperties
    <2> QED
      BY <1>3, <2>3, MessageTypes, AppendProperties
  <1>5. \/ /\ turn' = Absorb(u, typed, {}) /\ kind' = Append(kind, "reply") /\ ran' = Append(ran, 0)
        \/ turn' = Absorb(u, text, {}) /\ UNCHANGED <<kind, ran>>
    BY <1>3 DEF Reply
  <1> HIDE DEF u, c, typed, text
  <1>6. /\ turn' \in Turn /\ turn'.phase = "node" /\ turn'.approval.call = NoCall
    BY <1>3, <1>4, <1>5, AbsorbFacts
  <1>7. /\ kind' \in Seq(Kinds) /\ ran' \in Seq(Nat) /\ Len(ran') = Len(kind')
        /\ Len(kind') \in Nat /\ Len(kind) <= Len(kind')
        /\ \A d \in Calls : kind'[d] = kind[d] /\ ran'[d] = ran[d]
    <2>1. kind \in Seq(Kinds) /\ ran \in Seq(Nat) /\ Len(ran) = Len(kind) /\ Len(kind) \in Nat
      BY <1>2, CallsFacts DEF TypeOK
    <2>2. CASE kind' = Append(kind, "reply") /\ ran' = Append(ran, 0)
      <3>1. "reply" \in Kinds
        BY DEF Kinds
      <3>2. kind' \in Seq(Kinds) /\ Len(kind') = Len(kind) + 1 /\ \A i \in 1 .. Len(kind) : kind'[i] = kind[i]
        BY <2>1, <2>2, <3>1, AppendProperties
      <3>3. ran' \in Seq(Nat) /\ Len(ran') = Len(ran) + 1 /\ \A i \in 1 .. Len(ran) : ran'[i] = ran[i]
        BY <2>1, <2>2, AppendProperties
      <3> QED
        BY <2>1, <3>2, <3>3 DEF Calls
    <2>3. CASE UNCHANGED <<kind, ran>>
      BY <2>1, <2>3 DEF Calls
    <2> QED
      BY <1>5, <2>2, <2>3
  <1>8. CardInv' /\ asked' \subseteq Calls' /\ reported' \subseteq Calls' /\ Calls \subseteq Calls'
    BY <1>1, <1>2, <1>7, GrownCards
  <1>9. TypeOK'
    BY <1>1, <1>2, <1>6, <1>7, <1>8 DEF TypeOK
  <1>10. ParkInv'
    BY <1>1, <1>2, <1>6, <1>7 DEF ParkInv, NoCall, CardInv, Calls
  <1>11. RunInv'
    BY <1>6, <1>10 DEF RunInv
  <1> QED
    BY <1>8, <1>9, <1>11 DEF Inv

\* Where a call that may run goes: its result is there, or it waits.
SameRun ==
  /\ turn'.clicks = turn.clicks /\ turn'.values = turn.values /\ turn'.fresh = turn.fresh
  /\ turn'.used = turn.used /\ turn'.msgs = turn.msgs /\ turn'.approval = turn.approval

LEMMA SettleFacts ==
  ASSUME turn \in Turn, NEW c \in Nat, NEW g, Settle(c, g)
  PROVE  /\ turn' \in Turn /\ SameRun /\ turn'.todo = turn.todo \ {c}
         /\ turn'.deferred = turn.deferred /\ turn'.phase \in {turn.phase, "node"}
  <1> DEFINE todo == turn.todo \ {c}
             got == turn.got \cup {c}
  <1>1. todo \in SUBSET Nat /\ got \in SUBSET Nat
    BY TurnFields
  <1>2. \/ turn' = [turn EXCEPT !.todo = todo, !.got = got]
        \/ turn' = [turn EXCEPT !.todo = todo, !.got = got, !.phase = "node"]
    BY DEF Settle, Turn
  <1> HIDE DEF todo, got
  <1> DEFINE once == [turn EXCEPT !.todo = todo, !.got = got]
  <1>5. once \in Turn
    BY ONLY <1>1, turn \in Turn DEF Turn
  <1>6. [once EXCEPT !.phase = "node"] \in Turn
    <2> HIDE DEF once
    <2> QED
      BY ONLY <1>5 DEF Turn
  <1>3. turn' \in Turn
    <2>1. turn' = once \/ turn' = [once EXCEPT !.phase = "node"]
      BY ONLY <1>2
    <2> HIDE DEF once
    <2> QED
      BY ONLY <1>5, <1>6, <2>1
  <1>4. /\ SameRun /\ turn'.todo = todo
        /\ turn'.deferred = turn.deferred /\ turn'.phase \in {turn.phase, "node"}
    BY <1>2 DEF Turn, SameRun
  <1> QED
    BY <1>3, <1>4 DEF todo

LEMMA DeferFacts ==
  ASSUME turn \in Turn, NEW c \in Nat,
         turn' = [turn EXCEPT !.todo = @ \ {c}, !.deferred = @ \cup {c}]
  PROVE  /\ turn' \in Turn /\ SameRun /\ turn'.todo = turn.todo \ {c}
         /\ turn'.deferred = turn.deferred \cup {c} /\ turn'.phase = turn.phase
  <1> DEFINE todo == turn.todo \ {c}
             deferred == turn.deferred \cup {c}
  <1>1. todo \in SUBSET Nat /\ deferred \in SUBSET Nat
    BY TurnFields
  <1>2. turn' = [turn EXCEPT !.todo = todo, !.deferred = deferred]
    BY DEF Turn
  <1> HIDE DEF todo, deferred
  <1>3. turn' \in Turn
    BY <1>1, <1>2 DEF Turn
  <1>4. /\ SameRun /\ turn'.todo = todo /\ turn'.deferred = deferred /\ turn'.phase = turn.phase
    BY <1>2 DEF Turn, SameRun
  <1> QED
    BY <1>3, <1>4 DEF todo, deferred

\* A call that leaves the step, or waits in it unrun, keeps what is known of the rest.
LEMMA CallStep ==
  ASSUME Inv, NEW c \in Calls, InCalls(c), Accepted, turn' \in Turn, SameRun,
         turn'.todo = turn.todo \ {c}, turn'.phase \in {"calls", "node"},
         \/ turn'.deferred = turn.deferred
         \/ /\ turn'.deferred = turn.deferred \cup {c}
            /\ kind[c] \in Asks \cup Durable /\ (kind[c] \in Asks => ran' = ran),
         UNCHANGED <<cp, kind>>, ghost'.dropped = ghost.dropped,
         \A d \in Calls : d # c => ran'[d] = ran[d]
  PROVE  RunInv'
  <1>1. turn.phase = "calls" /\ CallInv /\ ClickInv /\ turn.approval = NoPark /\ CardInv
    BY DEF Inv, RunInv, InCalls
  <1>2. CASE turn'.phase = "calls"
    <2>1. ClickInv' /\ turn'.approval = NoPark
      BY <1>1 DEF ClickInv, SameRun
    <2>2. Waits(turn') \subseteq Waits(turn) /\ turn'.todo \cap turn'.deferred = {}
      BY <1>1 DEF Waits, CallInv, InCalls
    <2>3. ASSUME NEW d \in turn'.deferred PROVE kind[d] \in Asks \cup Durable
      BY <1>1, <2>3 DEF CallInv
    <2>4. ASSUME NEW d \in Waits(turn'), kind[d] \in Asks PROVE ran'[d] = 0 /\ d \notin ghost.dropped
      <3>1. d \in Calls /\ ran[d] = 0 /\ d \notin ghost.dropped
        BY <1>1, <2>2, <2>4 DEF CallInv
      <3>2. CASE d = c
        <4>1. c \notin turn'.todo /\ c \notin turn.deferred
          BY <1>1 DEF CallInv, InCalls
        <4>2. ran' = ran
          BY <2>4, <3>2, <4>1 DEF Waits
        <4> QED
          BY <3>1, <4>2
      <3> QED
        BY <3>1, <3>2
    <2>5. CallInv'
      BY <1>1, <2>2, <2>3, <2>4 DEF CallInv, SameRun, Waits, Calls
    <2>6. Accepted'
      BY DEF Accepted, SameRun
    <2> QED
      BY <1>2, <2>1, <2>5, <2>6 DEF RunInv
  <1>3. CASE turn'.phase = "node"
    <2>1. turn'.approval = NoPark /\ NoPark.call = NoCall
      BY <1>1 DEF SameRun, NoPark
    <2>2. ParkInv'
      BY <1>1, <2>1, CallsFacts DEF Inv, ParkInv, CardInv, NoCall, Calls
    <2> QED
      BY <1>3, <2>2 DEF RunInv
  <1> QED
    BY <1>2, <1>3

LEMMA GiveResultInv == ASSUME Inv, NEW c \in Calls, GiveResult(c) PROVE Inv'
  <1>1. /\ InCalls(c) /\ Accepted /\ Settle(c, guard) /\ asked' = asked \ {c}
        /\ UNCHANGED <<cp, kind, ran, reported, guard, rows, open, charged, ghost>>
    BY DEF GiveResult
  <1>2. turn \in Turn /\ TypeOK /\ CardInv /\ c \in Nat
    BY <1>1, TurnHere, CallsFacts DEF Inv, InCalls, Running
  <1>3. /\ turn' \in Turn /\ SameRun /\ turn'.todo = turn.todo \ {c}
        /\ turn'.deferred = turn.deferred /\ turn'.phase \in {turn.phase, "node"}
    BY <1>1, <1>2, SettleFacts
  <1>4. TypeOK'
    BY <1>1, <1>2, <1>3 DEF TypeOK, Calls
  <1>5. CardInv'
    BY <1>1, <1>2 DEF CardInv, Calls
  <1>6. turn'.phase \in {"calls", "node"}
    BY <1>1, <1>3 DEF InCalls
  <1>7. RunInv'
    BY <1>1, <1>3, <1>6, CallStep
  <1> QED
    BY <1>4, <1>5, <1>7 DEF Inv

LEMMA DeferInv == ASSUME Inv, NEW c \in Calls, Defer(c) PROVE Inv'
  <1>1. /\ InCalls(c) /\ Accepted /\ kind[c] \in Asks
        /\ turn' = [turn EXCEPT !.todo = @ \ {c}, !.deferred = @ \cup {c}]
        /\ UNCHANGED <<cp, kind, ran, asked, reported, guard, rows, open, charged, ghost>>
    BY DEF Defer
  <1>2. turn \in Turn /\ c \in Nat
    BY <1>1, TurnHere, CallsFacts DEF Inv, InCalls, Running
  <1>3. /\ turn' \in Turn /\ SameRun /\ turn'.todo = turn.todo \ {c}
        /\ turn'.deferred = turn.deferred \cup {c} /\ turn'.phase = turn.phase
    BY <1>1, <1>2, DeferFacts
  <1>4. TypeOK' /\ CardInv'
    BY <1>1, <1>3, TurnMoves
  <1>5. RunInv'
    BY <1>1, <1>3, CallStep DEF InCalls
  <1> QED
    BY <1>4, <1>5 DEF Inv

LEMMA RunCallInv == ASSUME Inv, NEW c \in Calls, RunCall(c) PROVE Inv'
  <1> DEFINE k == Check(guard, c, turn.step)
  <1>1. /\ InCalls(c) /\ Accepted /\ asked' = asked \ {c} /\ guard' = k.g
        /\ UNCHANGED <<cp, kind, reported, rows, open, charged>>
        /\ ran' = IF k.block THEN ran ELSE [ran EXCEPT ![c] = @ + 1]
    BY DEF RunCall
  <1>2. /\ turn \in Turn /\ TypeOK /\ CardInv /\ c \in Nat /\ turn.step \in Nat
        /\ kind[c] \in Kinds /\ ran[c] \in Nat
    <2>1. turn \in Turn /\ TypeOK /\ CardInv
      BY <1>1, TurnHere DEF Inv, InCalls, Running
    <2> QED
      BY <2>1, CallsFacts, TurnFields
  <1>3. k.g \in Guard /\ k.block \in BOOLEAN
    BY <1>2, CheckType DEF TypeOK
  <1>4. \/ /\ kind[c] \in Durable
           /\ turn' = [turn EXCEPT !.todo = @ \ {c}, !.deferred = @ \cup {c}]
        \/ Settle(c, k.g)
    BY DEF RunCall
  <1>5. \/ ghost' = [ghost EXCEPT !.refused = ghost.refused \cup {[kind |-> kind[c], step |-> turn.step]}]
        \/ ghost' = ghost
    BY <1>2 DEF RunCall, TypeOK
  <1> HIDE DEF k
  <1>6. /\ turn' \in Turn /\ SameRun /\ turn'.todo = turn.todo \ {c}
        /\ turn'.phase \in {turn.phase, "node"}
        /\ \/ turn'.deferred = turn.deferred
           \/ turn'.deferred = turn.deferred \cup {c} /\ kind[c] \in Durable
    <2>1. CASE Settle(c, k.g)
      BY <1>2, <2>1, SettleFacts
    <2>2. CASE kind[c] \in Durable /\ turn' = [turn EXCEPT !.todo = @ \ {c}, !.deferred = @ \cup {c}]
      BY <1>2, <2>2, DeferFacts
    <2> QED
      BY <1>4, <2>1, <2>2
  <1>7. /\ ran' \in Seq(Nat) /\ Len(ran') = Len(ran) /\ \A d \in Calls : d # c => ran'[d] = ran[d]
    <2>1. ran \in Seq(Nat) /\ ran[c] + 1 \in Nat /\ DOMAIN ran = Calls
      BY <1>2, CallsFacts DEF TypeOK
    <2>2. [ran EXCEPT ![c] = ran[c] + 1] \in Seq(Nat)
           /\ Len([ran EXCEPT ![c] = ran[c] + 1]) = Len(ran)
      BY <2>1, ExceptSeq
    <2>3. \A d \in Calls : d # c => [ran EXCEPT ![c] = ran[c] + 1][d] = ran[d]
      BY <2>1
    <2> QED
      BY <1>1, <2>1, <2>2, <2>3
  <1>8. /\ ghost' \in [turns : Nat, typed : BOOLEAN, superseded : SUBSET Nat, dropped : SUBSET Nat,
                       refused : SUBSET [kind : Kinds, step : Nat]]
        /\ ghost'.dropped = ghost.dropped
    <2>1. ghost.refused \cup {[kind |-> kind[c], step |-> turn.step]} \in SUBSET [kind : Kinds, step : Nat]
      BY <1>2, GhostFields
    <2> QED
      BY <1>2, <1>5, <2>1 DEF TypeOK
  <1>9. TypeOK'
    BY <1>1, <1>2, <1>3, <1>6, <1>7, <1>8 DEF TypeOK, Calls
  <1>10. CardInv'
    <2>1. \A d \in asked' : d \in Calls /\ d # c /\ d \in asked
      BY <1>1, <1>2 DEF TypeOK
    <2> QED
      BY <1>1, <1>2, <1>7, <1>8, <2>1 DEF CardInv, Calls
  <1>11. turn'.phase \in {"calls", "node"}
    BY <1>1, <1>6 DEF InCalls
  <1>12. kind[c] \in Durable => kind[c] \notin Asks
    BY DEF Durable, Asks
  <1>13. RunInv'
    BY <1>1, <1>6, <1>7, <1>8, <1>11, <1>12, CallStep
  <1> QED
    BY <1>9, <1>10, <1>13 DEF Inv

\* The step's calls are over: those that wait become the run's result.
LEMMA EndStepInv == ASSUME Inv, EndStep PROVE Inv'
  <1> DEFINE msgs == IF turn.got = {} THEN turn.msgs ELSE Append(turn.msgs, Returns(turn.got))
             new == {c \in turn.deferred : kind[c] \in Asks}
  <1>1. /\ turn.phase = "calls" /\ turn.todo = {} /\ asked' = asked \cup new
        /\ UNCHANGED <<cp, kind, ran, reported, guard, rows, open, charged, ghost>>
    BY DEF EndStep
  <1>2. turn \in Turn /\ TypeOK /\ CardInv /\ turn.approval = NoPark /\ ClickInv
    BY <1>1, TurnHere DEF Inv, Running, RunInv
  <1>3. msgs \in Seq(Message)
    BY <1>2, TurnFields, MessageTypes, AppendProperties
  <1>4. turn' = IF turn.deferred = {} THEN [turn EXCEPT !.phase = "request", !.msgs = msgs, !.parts = TRUE]
                ELSE Absorb(turn, msgs, turn.deferred)
    BY DEF EndStep
  <1> HIDE DEF msgs
  <1>5. CASE turn.deferred = {}
    <2>1. turn' = [turn EXCEPT !.phase = "request", !.msgs = msgs, !.parts = TRUE]
      BY <1>4, <1>5
    <2>2. /\ turn' \in Turn /\ turn'.phase = "request" /\ turn'.approval = turn.approval
          /\ turn'.clicks = turn.clicks
      BY <1>2, <1>3, <2>1 DEF Turn
    <2>3. UNCHANGED asked
      BY <1>1, <1>5
    <2>4. TypeOK' /\ CardInv'
      BY <1>1, <2>2, <2>3, TurnMoves
    <2>5. RunInv'
      BY <1>1, <1>2, <2>2 DEF RunInv, ClickInv
    <2> QED
      BY <2>4, <2>5 DEF Inv
  <1>6. CASE turn.deferred # {}
    <2>1. CallInv
      BY <1>1, <1>6 DEF Inv, RunInv
    <2>2. /\ turn' \in Turn /\ turn'.phase = "node" /\ turn'.fresh = turn.fresh
          /\ \/ turn'.approval.call = NoCall
             \/ turn'.approval.call \in turn.deferred /\ \A c \in turn.deferred : kind[c] \notin Durable
      <3>1. turn.deferred \in SUBSET Nat
        BY <1>2, TurnFields
      <3> QED
        BY <1>2, <1>3, <1>4, <1>6, <3>1, AbsorbFacts
    <2>3. new \subseteq Calls /\ \A c \in new : kind[c] \in Asks /\ ran[c] = 0
      BY <2>1 DEF CallInv, Waits
    <2>4. TypeOK' /\ CardInv'
      <3>1. TypeOK'
        BY <1>1, <1>2, <2>2, <2>3 DEF TypeOK, Calls
      <3> QED
        BY <1>1, <1>2, <2>3, <3>1 DEF CardInv, Calls
    <2>5. ParkInv'
      <3>1. CASE turn'.approval.call = NoCall
        BY <1>1, <1>2, <3>1, CallsFacts DEF ParkInv, NoCall, CardInv, Calls
      <3>2. CASE turn'.approval.call \in turn.deferred /\ \A c \in turn.deferred : kind[c] \notin Durable
        <4>1. kind[turn'.approval.call] \in Asks /\ turn'.approval.call \in Waits(turn)
              /\ turn'.approval.call \in Calls
          BY <2>1, <3>2 DEF CallInv, Waits
        <4>2. turn'.approval.call \notin ghost.dropped /\ turn'.approval.call \in 0 .. Len(kind)
          BY <2>1, <4>1, <1>2, CallsFacts DEF CallInv, Calls
        <4>3. turn.fresh => turn'.approval.call # cp.approval.call
          BY <2>1, <4>1 DEF CallInv
        <4> QED
          BY <1>1, <2>2, <4>2, <4>3 DEF ParkInv
      <3> QED
        BY <2>2, <3>1, <3>2
    <2>6. RunInv'
      BY <2>2, <2>5 DEF RunInv
    <2> QED
      BY <2>4, <2>6 DEF Inv
  <1> QED
    BY <1>5, <1>6

LEMMA NextInv == ASSUME Inv, [Next]_vars PROVE Inv'
  <1>1. CASE UserTurn
    <2>1. Turns + 1 \in Nat
      BY GhostFields DEF Inv, Turns
    <2>2. [approvals |-> {}, results |-> {}, resume |-> FALSE, prompt |-> Turns + 1] \in Starts
      BY <2>1 DEF Starts
    <2> QED
      BY <1>1, <2>2, StartInv DEF UserTurn
  <1>2. ASSUME NEW c \in Calls, NEW yes \in BOOLEAN, AnswerTurn(c, yes) PROVE Inv'
    <2>1. c \in asked /\ c \in Nat
      BY <1>2, CallsFacts DEF AnswerTurn, Inv
    <2>2. [approvals |-> {[call |-> c, yes |-> yes]}, results |-> {}, resume |-> TRUE, prompt |-> 0] \in Starts
      BY <2>1 DEF Starts, Click
    <2> QED
      BY <1>2, <2>2, StartInv DEF AnswerTurn
  <1>3. ASSUME NEW c \in Calls, TaskReports(c) PROVE Inv'
    BY <1>3, TaskReportsInv
  <1>4. ASSUME NEW s \in SUBSET reported, CompletionTurn(s) PROVE Inv'
    <2>1. [approvals |-> {}, results |-> s, resume |-> TRUE, prompt |-> 0] \in Starts
      BY DEF Starts
    <2> QED
      BY <1>4, <2>1, StartInv DEF CompletionTurn
  <1>5. CASE Stop \/ StopSeen \/ RunFails \/ Fail
    BY <1>5, StopInv
  <1>6. CASE EndStep
    BY <1>6, EndStepInv
  <1>7. ASSUME NEW ks \in Responses, Respond(ks) PROVE Inv'
    BY <1>7, RespondInv
  <1>8. ASSUME NEW k \in {"answer", "paused"}, Reply(k) PROVE Inv'
    BY <1>8, ReplyInv
  <1>9. ASSUME NEW c \in Calls, RunCall(c) \/ GiveResult(c) \/ Defer(c) PROVE Inv'
    BY <1>9, RunCallInv, GiveResultInv, DeferInv
  <1>10. CASE EndAgent
    BY <1>10, EndAgentInv
  <1>11. ASSUME NEW w \in BOOLEAN, Finalize(w) PROVE Inv'
    BY <1>11, FinalizeInv
  <1>12. CASE UNCHANGED vars
    BY <1>12 DEF Inv, TypeOK, CardInv, RunInv, ClickInv, CallInv, ParkInv, Accepted, Waits, Calls, vars
  <1> QED
    BY <1>1, <1>2, <1>3, <1>4, <1>5, <1>6, <1>7, <1>8, <1>9, <1>10, <1>11, <1>12 DEF Next, RunNext

-----------------------------------------------------------------------------
(* Theorems *)

\* Every variable of a thread keeps its type, whatever the model answers.
THEOREM TypeCorrect == Spec => []TypeOK
  <1>1. Init => Inv
    BY InitInv
  <1>2. Inv /\ [Next]_vars => Inv'
    BY NextInv
  <1>3. Inv => TypeOK
    BY DEF Inv
  <1> QED
    BY <1>1, <1>2, <1>3, PTL DEF Spec

Approved == \A c \in Calls : kind[c] \in Asks /\ ran'[c] # ran[c] =>
              /\ ran[c] = 0 /\ c \notin ghost.dropped
              /\ [call |-> c, yes |-> TRUE] \in cp.approvals

\* Only RunCall runs a tool: what a turn adds, it adds behind every call there is.
LEMMA OnlyRunCallRuns ==
  ASSUME Inv, Next, \A c \in Calls : ~RunCall(c), NEW d \in Calls
  PROVE  ran'[d] = ran[d]
  <1>1. CASE UserTurn \/ \E c \in Calls, yes \in BOOLEAN : AnswerTurn(c, yes)
    BY <1>1 DEF UserTurn, AnswerTurn, Start
  <1>2. CASE \E s \in SUBSET reported : CompletionTurn(s)
    BY <1>2 DEF CompletionTurn, Start
  <1>3. CASE \E c \in Calls : TaskReports(c) \/ GiveResult(c) \/ Defer(c)
    BY <1>3 DEF TaskReports, GiveResult, Defer
  <1>4. CASE Stop \/ StopSeen \/ RunFails \/ Fail \/ EndStep \/ EndAgent \/ \E w \in BOOLEAN : Finalize(w)
    BY <1>4 DEF Stop, StopSeen, RunFails, Fail, EndStep, EndAgent, Finalize
  <1>5. ASSUME NEW ks \in Responses, Respond(ks) PROVE ran'[d] = ran[d]
    <2>1. /\ ks \in Seq(Kinds) /\ kind' = kind \o ks /\ ran' = ran \o [i \in DOMAIN ks |-> 0]
      BY <1>5, BoundsAssumption DEF Respond
    <2>2. TypeOK /\ CardInv
      BY DEF Inv
    <2> QED
      BY <2>1, <2>2, NewCalls
  <1>6. ASSUME NEW k \in {"answer", "paused"}, Reply(k) PROVE ran'[d] = ran[d]
    <2>1. ran' = ran \/ ran' = Append(ran, 0)
      BY <1>6 DEF Reply
    <2>2. ran \in Seq(Nat) /\ d \in 1 .. Len(ran)
      BY DEF Inv, TypeOK, Calls
    <2> QED
      BY <2>1, <2>2, AppendProperties
  <1> QED
    BY <1>1, <1>2, <1>3, <1>4, <1>5, <1>6 DEF Next, RunNext

LEMMA RunCallApproved == ASSUME Inv, NEW c \in Calls, RunCall(c) PROVE Approved
  <1>1. /\ turn.phase = "calls" /\ c \in turn.todo /\ Accepted
        /\ kind[c] \in Asks => Clicked(c, TRUE)
    BY DEF RunCall, InCalls
  <1>2. CallInv /\ ClickInv
    BY <1>1 DEF Inv, RunInv
  <1>3. \A d \in Calls : d # c => ran'[d] = ran[d]
    <2>1. ran' = ran \/ ran' = [ran EXCEPT ![c] = ran[c] + 1]
      BY DEF RunCall
    <2>2. DOMAIN ran = Calls
      BY CallsFacts DEF Inv
    <2> QED
      BY <2>1, <2>2
  <1>4. kind[c] \in Asks =>
          /\ ran[c] = 0 /\ c \notin ghost.dropped /\ [call |-> c, yes |-> TRUE] \in cp.approvals
    BY <1>1, <1>2 DEF CallInv, ClickInv, Waits, Clicked
  <1> QED
    BY <1>3, <1>4 DEF Approved

\* A tool that needs approval runs only in the turn that carries the user's yes to
\* that call, once, and never after a turn of the user's ended over its card.
THEOREM OnlyApprovedAlways == Spec => OnlyApprovedRuns
  <1>1. Init => Inv
    BY InitInv
  <1>2. Inv /\ [Next]_vars => Inv'
    BY NextInv
  <1>3. Inv /\ [Next]_vars => [Approved]_vars
    <2> SUFFICES ASSUME Inv, Next PROVE Approved
      OBVIOUS
    <2>1. CASE \E c \in Calls : RunCall(c)
      BY <2>1, RunCallApproved
    <2>2. CASE \A c \in Calls : ~RunCall(c)
      BY <2>2, OnlyRunCallRuns DEF Approved
    <2> QED
      BY <2>1, <2>2
  <1> QED
    BY <1>1, <1>2, <1>3, PTL DEF Spec, OnlyApprovedRuns, Approved

-----------------------------------------------------------------------------
(* The guard's warning *)

\* What the guard remembers of a warning, the run has read: its refusal is there.
WarnInv ==
  /\ guard.warned # 0 => \E r \in ghost.refused : r.kind = guard.last /\ r.step = guard.warned
  /\ guard.capWarned # 0 => \E r \in ghost.refused : r.kind = "find" /\ r.step = guard.capWarned
  /\ guard.stopped \in 0 .. Len(kind)
  /\ WarnedBeforeStopped

\* A check keeps a warning, or gives one with a refusal of this step; it stops the
\* run only on a warning of an earlier step.
CheckWarns(g, c, step, h, block) ==
  /\ h.warned # 0 => \/ h.warned = g.warned /\ h.last = g.last
                     \/ block /\ h.warned = step /\ h.last = kind[c]
  /\ h.capWarned # 0 => \/ h.capWarned = g.capWarned
                        \/ block /\ h.capWarned = step /\ kind[c] = "find"
  /\ \/ h.stopped = g.stopped
     \/ /\ block /\ h.stopped = c
        /\ \/ g.warned # 0 /\ g.warned < step /\ g.last = kind[c]
           \/ g.capWarned # 0 /\ g.capWarned < step /\ kind[c] = "find"

LEMMA CheckCapWarns ==
  ASSUME NEW g \in Guard, NEW c \in Calls, NEW step \in Nat, kind[c] = "find"
  PROVE  /\ CheckWarns(g, c, step, CheckCap(g, c, step).g, CheckCap(g, c, step).block)
         /\ CheckCap(g, c, step).g.warned = g.warned /\ CheckCap(g, c, step).g.last = g.last
         /\ ~CheckCap(g, c, step).block =>
              /\ CheckCap(g, c, step).g.stopped = g.stopped
              /\ CheckCap(g, c, step).g.capWarned = g.capWarned
              /\ CheckCap(g, c, step).g \in Guard
  <1> DEFINE w == IF g.capWarned = 0 THEN step ELSE g.capWarned
             st == IF step > w /\ g.stopped = NoCall THEN c ELSE g.stopped
             within == [g EXCEPT !.finds = g.finds + 1]
             over == [g EXCEPT !.finds = g.finds + 1, !.capWarned = w, !.stopped = st]
  <1>1. CheckCap(g, c, step) = IF g.finds + 1 <= Cap THEN [g |-> within, block |-> FALSE]
                               ELSE [g |-> over, block |-> TRUE]
    BY DEF CheckCap, Guard
  <1>2. /\ within.warned = g.warned /\ within.last = g.last /\ within.stopped = g.stopped
        /\ within.capWarned = g.capWarned /\ within \in Guard
    <2>1. g.finds + 1 \in Nat
      BY GuardFields
    <2> QED
      BY <2>1 DEF Guard
  <1>3. g.capWarned \in Nat /\ g.stopped \in Nat
    BY GuardFields
  <1>4. /\ w \in {step, g.capWarned}
        /\ st = g.stopped \/ (st = c /\ g.capWarned # 0 /\ g.capWarned < step)
    BY <1>3
  <1> HIDE DEF w, st
  <1>5. /\ over.warned = g.warned /\ over.last = g.last /\ over.stopped = st /\ over.capWarned = w
    BY DEF Guard
  <1> HIDE DEF within, over
  <1> QED
    BY <1>1, <1>2, <1>4, <1>5 DEF CheckWarns

LEMMA CheckRepeatWarns ==
  ASSUME NEW g \in Guard, NEW c \in Calls, NEW step \in Nat, kind[c] \in Kinds
  PROVE  CheckWarns(g, c, step, CheckRepeat(g, c, step).g, CheckRepeat(g, c, step).block)
  <1> DEFINE s == Streak(g, kind[c])
             w == IF s.warned = 0 THEN step ELSE s.warned
             st == IF step > w /\ s.stopped = NoCall THEN c ELSE s.stopped
             over == [s EXCEPT !.warned = w, !.stopped = st]
  <1>1. /\ s \in Guard /\ s.last = kind[c] /\ s.stopped = g.stopped /\ s.capWarned = g.capWarned
        /\ s.warned = 0 \/ (s.warned = g.warned /\ g.last = kind[c])
    <2>1. CASE g.last = kind[c]
      <3>1. g.count + 1 \in Nat
        BY GuardFields
      <3>2. s = [g EXCEPT !.count = g.count + 1]
        BY <2>1 DEF Streak
      <3> HIDE DEF s
      <3> QED
        BY <2>1, <3>1, <3>2 DEF Guard
    <2>2. CASE g.last # kind[c]
      <3>1. s = [g EXCEPT !.last = kind[c], !.count = 1, !.warned = 0]
        BY <2>2 DEF Streak
      <3> HIDE DEF s
      <3> QED
        BY <3>1 DEF Guard
    <2> QED
      BY <2>1, <2>2
  <1> HIDE DEF s
  <1>2. CheckRepeat(g, c, step) = IF s.count < Threshold THEN [g |-> s, block |-> FALSE]
                                  ELSE [g |-> over, block |-> TRUE]
    BY <1>1 DEF CheckRepeat, s, Guard
  <1>3. s.warned \in Nat /\ s.stopped \in Nat
    BY <1>1, GuardFields
  <1>4. /\ w = step \/ (w = s.warned /\ s.warned # 0)
        /\ st = s.stopped \/ (st = c /\ s.warned # 0 /\ s.warned < step)
    BY <1>3
  <1> HIDE DEF w, st
  <1>5. /\ over.warned = w /\ over.last = kind[c] /\ over.stopped = st /\ over.capWarned = s.capWarned
    BY <1>1 DEF Guard
  <1> HIDE DEF over
  <1>6. CASE s.count < Threshold
    BY <1>1, <1>2, <1>6 DEF CheckWarns
  <1>7. CASE ~(s.count < Threshold)
    BY <1>1, <1>2, <1>4, <1>5, <1>7 DEF CheckWarns
  <1> QED
    BY <1>6, <1>7

LEMMA CheckWarnsAll ==
  ASSUME NEW g \in Guard, NEW c \in Calls, NEW step \in Nat, kind[c] \in Kinds
  PROVE  CheckWarns(g, c, step, Check(g, c, step).g, Check(g, c, step).block)
  <1> DEFINE capped == CheckCap(g, c, step)
             reset(h) == [h EXCEPT !.last = "", !.count = 0, !.warned = 0]
  <1>1. CASE kind[c] = "find" /\ capped.block
    BY <1>1, CheckCapWarns DEF Check
  <1>2. CASE kind[c] = "find" /\ ~capped.block
    <2>1. capped.g.stopped = g.stopped /\ capped.g.capWarned = g.capWarned
      BY <1>2, CheckCapWarns
    <2>2. Check(g, c, step) = [g |-> reset(capped.g), block |-> FALSE]
      BY <1>2 DEF Check, ReadOnly
    <2>3. reset(capped.g).warned = 0 /\ reset(capped.g).stopped = g.stopped
          /\ reset(capped.g).capWarned = g.capWarned
      <3>1. capped.g \in Guard
        BY <1>2, CheckCapWarns
      <3> HIDE DEF capped
      <3> QED
        BY <2>1, <3>1 DEF Guard
    <2> HIDE DEF reset, capped
    <2> QED
      BY <2>2, <2>3 DEF CheckWarns
  <1>3. CASE kind[c] # "find" /\ kind[c] \notin ReadOnly
    <2>1. Check(g, c, step) = [g |-> reset(g), block |-> FALSE]
      BY <1>3 DEF Check
    <2>2. reset(g).warned = 0 /\ reset(g).stopped = g.stopped /\ reset(g).capWarned = g.capWarned
      BY DEF Guard
    <2> HIDE DEF reset
    <2> QED
      BY <2>1, <2>2 DEF CheckWarns
  <1>4. CASE kind[c] \in ReadOnly
    <2>1. Check(g, c, step) = CheckRepeat(g, c, step)
      BY <1>4 DEF Check, ReadOnly
    <2> QED
      BY <2>1, CheckRepeatWarns
  <1> QED
    BY <1>1, <1>2, <1>3, <1>4

LEMMA WarnRunCall == ASSUME Inv, WarnInv, NEW c \in Calls, RunCall(c) PROVE WarnInv'
  <1> DEFINE k == Check(guard, c, turn.step)
             new == [kind |-> kind[c], step |-> turn.step]
  <1>1. /\ guard \in Guard /\ turn \in Turn /\ TypeOK
    BY TurnHere DEF Inv, TypeOK, RunCall, InCalls, Running
  <1>2. turn.step \in Nat /\ kind[c] \in Kinds /\ c \in 0 .. Len(kind)
    BY <1>1, TurnFields, CallsFacts DEF Calls
  <1>3. CheckWarns(guard, c, turn.step, k.g, k.block)
    BY <1>1, <1>2, CheckWarnsAll
  <1>4. guard' = k.g /\ kind' = kind
        /\ ghost' = IF k.block THEN [ghost EXCEPT !.refused = ghost.refused \cup {new}] ELSE ghost
    BY <1>1 DEF RunCall, TypeOK
  <1> HIDE DEF k
  <1>5. ghost.refused \subseteq ghost'.refused /\ (k.block => new \in ghost'.refused)
    <2>1. \A r : [ghost EXCEPT !.refused = r].refused = r
      BY <1>1 DEF TypeOK
    <2> QED
      BY <1>4, <2>1
  <1>6. new.kind = kind[c] /\ new.step = turn.step
    OBVIOUS
  <1> HIDE DEF new
  <1>7. guard'.warned # 0 => \E r \in ghost'.refused : r.kind = guard'.last /\ r.step = guard'.warned
    BY <1>3, <1>4, <1>5, <1>6 DEF WarnInv, CheckWarns
  <1>8. guard'.capWarned # 0 => \E r \in ghost'.refused : r.kind = "find" /\ r.step = guard'.capWarned
    BY <1>3, <1>4, <1>5, <1>6 DEF WarnInv, CheckWarns
  <1>9. guard'.stopped \in 0 .. Len(kind')
    BY <1>2, <1>3, <1>4 DEF WarnInv, CheckWarns
  <1>10. WarnedBeforeStopped'
    <2>1. CASE guard'.stopped = guard.stopped
      BY <1>4, <1>5, <2>1 DEF WarnInv, WarnedBeforeStopped
    <2>2. CASE /\ k.block /\ guard'.stopped = c
               /\ \/ guard.warned # 0 /\ guard.warned < turn.step /\ guard.last = kind[c]
                  \/ guard.capWarned # 0 /\ guard.capWarned < turn.step /\ kind[c] = "find"
      <3>1. PICK r \in ghost.refused : r.kind = kind[c] /\ r.step < turn.step
        BY <2>2 DEF WarnInv
      <3>2. r \in ghost'.refused /\ new \in ghost'.refused /\ kind'[guard'.stopped] = kind[c]
        BY <1>4, <1>5, <2>2
      <3> QED
        BY <1>6, <3>1, <3>2 DEF WarnedBeforeStopped
    <2> QED
      BY <1>3, <1>4, <2>1, <2>2 DEF CheckWarns
  <1> QED
    BY <1>7, <1>8, <1>9, <1>10 DEF WarnInv

LEMMA WarnStart == ASSUME NEW start, Inv, Start(start) PROVE WarnInv'
  <1>1. guard' = NewGuard /\ UNCHANGED kind /\ Len(kind) \in Nat
    BY CallsFacts DEF Start, Inv
  <1>2. guard'.warned = 0 /\ guard'.capWarned = 0 /\ guard'.stopped = 0
    BY <1>1 DEF NewGuard, NoCall
  <1>3. 0 \in 0 .. Len(kind')
    BY <1>1
  <1> QED
    BY <1>2, <1>3 DEF WarnInv, WarnedBeforeStopped, NoCall

LEMMA WarnSame ==
  ASSUME Inv, WarnInv, UNCHANGED guard, ghost'.refused = ghost.refused,
         Len(kind') \in Nat, Len(kind) <= Len(kind'), \A c \in Calls : kind'[c] = kind[c]
  PROVE  WarnInv'
  <1>1. guard.stopped = NoCall \/ guard.stopped \in Calls
    BY CallsFacts DEF WarnInv, Inv, Calls, NoCall
  <1>2. WarnedBeforeStopped'
    BY <1>1 DEF WarnInv, WarnedBeforeStopped
  <1>3. guard'.stopped \in 0 .. Len(kind')
    BY CallsFacts DEF WarnInv, Inv
  <1> QED
    BY <1>2, <1>3 DEF WarnInv

LEMMA WarnNext == ASSUME Inv, WarnInv, [Next]_vars PROVE WarnInv'
  <1>0. TypeOK /\ CardInv /\ Len(kind) \in Nat
    BY CallsFacts DEF Inv
  <1>1. CASE UserTurn \/ (\E c \in Calls, yes \in BOOLEAN : AnswerTurn(c, yes))
             \/ \E s \in SUBSET reported : CompletionTurn(s)
    BY <1>1, WarnStart DEF UserTurn, AnswerTurn, CompletionTurn
  <1>2. CASE \E c \in Calls : RunCall(c)
    BY <1>2, WarnRunCall
  <1>3. CASE \/ \E c \in Calls : TaskReports(c) \/ GiveResult(c) \/ Defer(c)
             \/ Stop \/ StopSeen \/ RunFails \/ Fail \/ EndStep \/ (\E w \in BOOLEAN : Finalize(w))
             \/ UNCHANGED vars
    <2>1. UNCHANGED <<guard, ghost, kind>>
      BY <1>3 DEF TaskReports, GiveResult, Defer, Stop, StopSeen, RunFails, Fail, EndStep, Finalize, vars
    <2> QED
      BY <1>0, <2>1, WarnSame
  <1>4. CASE EndAgent
    <2>1. UNCHANGED <<guard, kind>> /\ ghost'.refused = ghost.refused
      BY <1>0, <1>4 DEF EndAgent, TypeOK
    <2> QED
      BY <1>0, <2>1, WarnSame
  <1>5. ASSUME NEW ks \in Responses, Respond(ks) PROVE WarnInv'
    <2>1. /\ ks \in Seq(Kinds) /\ kind' = kind \o ks /\ ran' = ran \o [i \in DOMAIN ks |-> 0]
          /\ UNCHANGED <<guard, ghost>>
      BY <1>5, BoundsAssumption DEF Respond
    <2>2. /\ Len(kind') \in Nat /\ Len(kind) <= Len(kind') /\ \A c \in Calls : kind'[c] = kind[c]
      <3>1. /\ Len(kind') = Len(kind) + Len(ks) /\ Len(ks) \in Nat /\ \A c \in Calls : kind'[c] = kind[c]
        BY <1>0, <2>1, NewCalls
      <3> QED
        BY <1>0, <3>1
    <2> QED
      BY <2>1, <2>2, WarnSame
  <1>6. ASSUME NEW k \in {"answer", "paused"}, Reply(k) PROVE WarnInv'
    <2>1. (kind' = kind \/ kind' = Append(kind, "reply")) /\ UNCHANGED <<guard, ghost>>
      BY <1>6 DEF Reply
    <2>2. /\ Len(kind') \in Nat /\ Len(kind) <= Len(kind') /\ \A c \in Calls : kind'[c] = kind[c]
      <3>1. kind \in Seq(Kinds) /\ "reply" \in Kinds
        BY <1>0 DEF TypeOK, Kinds
      <3> QED
        BY <1>0, <2>1, <3>1, AppendProperties DEF Calls
    <2> QED
      BY <2>1, <2>2, WarnSame
  <1> QED
    BY <1>1, <1>2, <1>3, <1>4, <1>5, <1>6 DEF Next, RunNext

\* The guard ends a run only on a call the model made again after it had read the
\* refusal of the same call, for any threshold, any cap and any calls side by side.
THEOREM WarnedAlways == Spec => []WarnedBeforeStopped
  <1>1. Init => Inv /\ WarnInv
    <2>1. ASSUME Init PROVE WarnInv
      <3>1. Len(kind) = 0 /\ guard = NewGuard
        BY <2>1, EmptySeq DEF Init
      <3>2. guard.warned = 0 /\ guard.capWarned = 0 /\ guard.stopped = 0
        BY <3>1 DEF NewGuard, NoCall
      <3> QED
        BY <3>1, <3>2 DEF WarnInv, WarnedBeforeStopped, NoCall
    <2> QED
      BY <2>1, InitInv
  <1>2. Inv /\ WarnInv /\ [Next]_vars => Inv' /\ WarnInv'
    BY NextInv, WarnNext
  <1>3. WarnInv => WarnedBeforeStopped
    BY DEF WarnInv
  <1> QED
    BY <1>1, <1>2, <1>3, PTL DEF Spec

-----------------------------------------------------------------------------
(* The history a run leaves *)

\* The results that follow a message, up to the next message of another kind.
ReturnsAfter(m, i) == {x \in DOMAIN m : x > i /\ \A y \in i + 1 .. x : m[y].k = "returns"}

Given(m, i) == UNION {m[j].c : j \in ReturnsAfter(m, i)}

AllReturnsAfter(m, i) == \A y \in i + 1 .. Len(m) : m[y].k = "returns"

\* Each call has its result, but for some of a last response that nothing but
\* results follows.
Orderly(m) ==
  \A i \in DOMAIN m : m[i].k = "calls" =>
     /\ Given(m, i) \subseteq m[i].c
     /\ m[i].c = Given(m, i) \/ AllReturnsAfter(m, i)

Whole(m) == \A i \in DOMAIN m : m[i].k = "calls" => m[i].c = Given(m, i)

CallsAt(m) == {i \in DOMAIN m : m[i].k = "calls"}

LastCalls(m, p) == p \in CallsAt(m) /\ \A x \in CallsAt(m) : x <= p

LEMMA LastCallsIs ==
  ASSUME NEW m \in Seq(Message) PROVE CallsAt(m) = {} \/ \E p \in DOMAIN m : LastCalls(m, p)
  <1>1. Len(m) \in Nat /\ DOMAIN m = 1 .. Len(m)
    BY LenProperties
  <1>2. CallsAt(m) \in SUBSET (1 .. Len(m))
    BY <1>1 DEF CallsAt
  <1>3. ASSUME CallsAt(m) # {} PROVE \E p \in DOMAIN m : LastCalls(m, p)
    <2>1. \E p \in CallsAt(m) : \A x \in CallsAt(m) : x <= p
      BY <1>1, <1>2, <1>3, Greatest
    <2> QED
      BY <1>1, <1>2, <2>1 DEF LastCalls
  <1> QED
    BY <1>3

\* What an orderly history waits for is what its last response lacks.
LEMMA OutstandingIs ==
  ASSUME NEW m \in Seq(Message), Orderly(m), NEW p \in DOMAIN m, LastCalls(m, p)
  PROVE  Outstanding(m) = m[p].c \ Given(m, p)
  <1> DEFINE R == {x \in DOMAIN m : x > p /\ m[x].k = "returns"}
             at == {i \in DOMAIN m : m[i].k = "calls"}
             q == CHOOSE j \in at : \A x \in at : x <= j
  <1>1. Len(m) \in Nat /\ DOMAIN m = 1 .. Len(m)
    BY LenProperties
  <1>2. q = p
    <2>1. at = CallsAt(m) /\ at \in SUBSET Nat
      BY <1>1 DEF CallsAt
    <2>2. p \in at /\ \A x \in at : x <= p
      BY <2>1 DEF LastCalls
    <2> HIDE DEF at
    <2>3. q \in at /\ \A x \in at : x <= q
      BY <2>2
    <2>4. q <= p /\ p <= q /\ p \in Nat /\ q \in Nat
      BY <2>1, <2>2, <2>3
    <2> HIDE DEF q
    <2> QED
      BY <2>4
  <1>3. Outstanding(m) = m[q].c \ UNION {m[j].c : j \in {x \in DOMAIN m : x > q /\ m[x].k = "returns"}}
    <2>1. at # {}
      BY DEF LastCalls, CallsAt
    <2> QED
      BY <2>1 DEF Outstanding
  <1> HIDE DEF q
  <1>4. Outstanding(m) = m[p].c \ UNION {m[j].c : j \in R}
    BY <1>2, <1>3
  <1>5. ReturnsAfter(m, p) \subseteq R
    BY <1>1 DEF ReturnsAfter
  <1>6. CASE AllReturnsAfter(m, p)
    <2>1. R \subseteq ReturnsAfter(m, p)
      BY <1>1, <1>6 DEF ReturnsAfter, AllReturnsAfter
    <2>2. R = ReturnsAfter(m, p)
      BY <1>5, <2>1
    <2> QED
      BY <1>4, <2>2 DEF Given
  <1>7. CASE ~AllReturnsAfter(m, p)
    <2>1. m[p].c = Given(m, p)
      BY <1>7 DEF Orderly, LastCalls, CallsAt
    <2>2. Given(m, p) \subseteq UNION {m[j].c : j \in R}
      BY <1>5 DEF Given
    <2> QED
      BY <1>4, <2>1, <2>2
  <1> QED
    BY <1>6, <1>7

\* It waits for nothing just when every call has its result.
LEMMA WholeIs ==
  ASSUME NEW m \in Seq(Message) PROVE Whole(m) <=> Orderly(m) /\ Outstanding(m) = {}
  <1>1. Len(m) \in Nat /\ DOMAIN m = 1 .. Len(m)
    BY LenProperties
  <1>2. Whole(m) => Orderly(m)
    BY DEF Whole, Orderly
  <1>3. CASE CallsAt(m) = {}
    BY <1>3 DEF Whole, Orderly, Outstanding, CallsAt
  <1>4. ASSUME NEW p \in DOMAIN m, LastCalls(m, p)
        PROVE  Whole(m) <=> Orderly(m) /\ Outstanding(m) = {}
    <2>1. Orderly(m) => Outstanding(m) = m[p].c \ Given(m, p)
      BY <1>4, OutstandingIs
    <2>2. ASSUME Whole(m) PROVE Outstanding(m) = {}
      BY <1>2, <1>4, <2>1, <2>2 DEF Whole, LastCalls, CallsAt
    <2>3. ASSUME Orderly(m), Outstanding(m) = {}, NEW i \in DOMAIN m, m[i].k = "calls"
          PROVE  m[i].c = Given(m, i)
      <3>1. CASE i = p
        BY <2>1, <2>3, <3>1 DEF Orderly
      <3>2. CASE i # p
        <4>1. p \in i + 1 .. Len(m) /\ m[p].k = "calls"
          BY <1>1, <1>4, <2>3, <3>2 DEF LastCalls, CallsAt
        <4> QED
          BY <2>3, <4>1 DEF Orderly, AllReturnsAfter
      <3> QED
        BY <3>1, <3>2
    <2> QED
      BY <1>2, <2>2, <2>3 DEF Whole
  <1> QED
    BY <1>3, <1>4, LastCallsIs

\* What one more message gives to those before it.
LEMMA GivenAppend ==
  ASSUME NEW m \in Seq(Message), NEW x \in Message, NEW i \in DOMAIN m
  PROVE  /\ Append(m, x)[i] = m[i]
         /\ Given(Append(m, x), i) = IF x.k = "returns" /\ AllReturnsAfter(m, i)
                                     THEN Given(m, i) \cup x.c ELSE Given(m, i)
         /\ AllReturnsAfter(Append(m, x), i) <=> x.k = "returns" /\ AllReturnsAfter(m, i)
  <1> DEFINE a == Append(m, x)
             n == Len(m) + 1
  <1>1. /\ Len(m) \in Nat /\ DOMAIN m = 1 .. Len(m) /\ DOMAIN a = 1 .. n /\ Len(a) = n
        /\ a[n] = x /\ \A j \in 1 .. Len(m) : a[j] = m[j]
    BY LenProperties, AppendProperties
  <1> HIDE DEF a
  <1>2. AllReturnsAfter(a, i) <=> x.k = "returns" /\ AllReturnsAfter(m, i)
    <2>1. i + 1 .. n = (i + 1 .. Len(m)) \cup {n}
      BY <1>1
    <2>2. \A y \in i + 1 .. Len(m) : a[y] = m[y]
      BY <1>1
    <2> QED
      BY <1>1, <2>1, <2>2 DEF AllReturnsAfter
  <1>3. ReturnsAfter(a, i) = IF x.k = "returns" /\ AllReturnsAfter(m, i)
                             THEN ReturnsAfter(m, i) \cup {n} ELSE ReturnsAfter(m, i)
    <2>1. \A z \in 1 .. Len(m) : z \in ReturnsAfter(a, i) <=> z \in ReturnsAfter(m, i)
      <3> TAKE z \in 1 .. Len(m)
      <3>1. \A y \in i + 1 .. z : y \in 1 .. Len(m)
        BY <1>1
      <3>2. \A y \in i + 1 .. z : a[y] = m[y]
        BY <1>1, <3>1
      <3>3. z \in DOMAIN a /\ z \in DOMAIN m
        BY <1>1
      <3> QED
        BY <3>2, <3>3 DEF ReturnsAfter
    <2>2. n \in ReturnsAfter(a, i) <=> x.k = "returns" /\ AllReturnsAfter(m, i)
      <3>1. n \in ReturnsAfter(a, i) <=> AllReturnsAfter(a, i)
        BY <1>1 DEF ReturnsAfter, AllReturnsAfter
      <3> QED
        BY <1>2, <3>1
    <2>3. ReturnsAfter(a, i) \subseteq 1 .. n /\ ReturnsAfter(m, i) \subseteq 1 .. Len(m)
      BY <1>1 DEF ReturnsAfter
    <2>4. 1 .. n = (1 .. Len(m)) \cup {n} /\ n \notin 1 .. Len(m)
      BY <1>1
    <2> HIDE DEF n
    <2>5. CASE n \in ReturnsAfter(a, i)
      <3>1. ReturnsAfter(a, i) = ReturnsAfter(m, i) \cup {n}
        BY <2>1, <2>3, <2>4, <2>5
      <3> QED
        BY <2>2, <2>5, <3>1
    <2>6. CASE n \notin ReturnsAfter(a, i)
      <3>1. ReturnsAfter(a, i) = ReturnsAfter(m, i)
        BY <2>1, <2>3, <2>4, <2>6
      <3> QED
        BY <2>2, <2>6, <3>1
    <2> QED
      BY <2>5, <2>6
  <1>4. \A j \in ReturnsAfter(m, i) : a[j] = m[j]
    BY <1>1 DEF ReturnsAfter
  <1>5. Given(a, i) = IF x.k = "returns" /\ AllReturnsAfter(m, i)
                      THEN Given(m, i) \cup x.c ELSE Given(m, i)
    <2>1. {a[j].c : j \in ReturnsAfter(m, i)} = {m[j].c : j \in ReturnsAfter(m, i)}
      BY <1>4
    <2>2. {a[j].c : j \in ReturnsAfter(m, i) \cup {n}} = {m[j].c : j \in ReturnsAfter(m, i)} \cup {x.c}
      BY <1>1, <1>4
    <2> QED
      BY <1>3, <2>1, <2>2 DEF Given
  <1> QED
    BY <1>1, <1>2, <1>5 DEF a

LEMMA AppendIn ==
  ASSUME NEW m \in Seq(Message), NEW x \in Message
  PROVE  /\ Append(m, x) \in Seq(Message) /\ DOMAIN Append(m, x) = DOMAIN m \cup {Len(m) + 1}
         /\ Append(m, x)[Len(m) + 1] = x /\ Len(m) + 1 \notin DOMAIN m
         /\ AllReturnsAfter(Append(m, x), Len(m) + 1) /\ Given(Append(m, x), Len(m) + 1) = {}
         /\ \A i \in DOMAIN m : i \in Nat /\ i < Len(m) + 1
  <1> DEFINE a == Append(m, x)
  <1>1. /\ Len(m) \in Nat /\ DOMAIN m = 1 .. Len(m) /\ DOMAIN a = 1 .. Len(m) + 1
        /\ Len(a) = Len(m) + 1 /\ a[Len(m) + 1] = x /\ a \in Seq(Message)
    BY LenProperties, AppendProperties
  <1> HIDE DEF a
  <1>2. AllReturnsAfter(a, Len(m) + 1)
    BY <1>1 DEF AllReturnsAfter
  <1>3. Given(a, Len(m) + 1) = {}
    BY <1>1 DEF Given, ReturnsAfter
  <1> QED
    BY <1>1, <1>2, <1>3 DEF a

\* A message that neither calls nor returns may follow a whole history.
LEMMA AppendOther ==
  ASSUME NEW m \in Seq(Message), Whole(m), NEW x \in Message, x.k \notin {"calls", "returns"}
  PROVE  Whole(Append(m, x))
  BY AppendIn, GivenAppend DEF Whole

\* A response is what the history then waits for.
LEMMA AppendCalls ==
  ASSUME NEW m \in Seq(Message), Whole(m), NEW S \in SUBSET Nat
  PROVE  Orderly(Append(m, CallsOf(S))) /\ Outstanding(Append(m, CallsOf(S))) = S
  <1> DEFINE x == CallsOf(S)
             a == Append(m, x)
             p == Len(m) + 1
  <1>1. x \in Message /\ x.k = "calls" /\ x.c = S
    BY MessageTypes DEF CallsOf
  <1> HIDE DEF x
  <1>2. /\ a \in Seq(Message) /\ DOMAIN a = DOMAIN m \cup {p} /\ a[p] = x
        /\ AllReturnsAfter(a, p) /\ Given(a, p) = {}
        /\ \A i \in DOMAIN m : i \in Nat /\ i < p
    BY <1>1, AppendIn
  <1>3. \A i \in DOMAIN m : a[i] = m[i] /\ Given(a, i) = Given(m, i)
    BY <1>1, GivenAppend
  <1>4. p \in Nat
    BY LenProperties
  <1> HIDE DEF a, p
  <1>5. Orderly(a)
    BY <1>1, <1>2, <1>3 DEF Orderly, Whole
  <1>6. LastCalls(a, p)
    BY <1>1, <1>2, <1>4 DEF LastCalls, CallsAt
  <1>7. Outstanding(a) = S
    BY <1>1, <1>2, <1>5, <1>6, OutstandingIs
  <1> QED
    BY <1>5, <1>7 DEF a, x

\* Results of calls it waits for leave it waiting for the others.
LEMMA AppendReturns ==
  ASSUME NEW m \in Seq(Message), Orderly(m), NEW S \in SUBSET Outstanding(m), S # {},
         S \subseteq Nat
  PROVE  /\ Orderly(Append(m, Returns(S)))
         /\ Outstanding(Append(m, Returns(S))) = Outstanding(m) \ S
  <1> DEFINE x == Returns(S)
             a == Append(m, x)
  <1>1. x \in Message /\ x.k = "returns" /\ x.c = S
    BY MessageTypes DEF Returns
  <1> HIDE DEF x
  <1>2. CallsAt(m) # {}
    BY DEF Outstanding, CallsAt
  <1>3. PICK p \in DOMAIN m : LastCalls(m, p)
    BY <1>2, LastCallsIs
  <1>4. Outstanding(m) = m[p].c \ Given(m, p) /\ m[p].k = "calls"
    BY <1>3, OutstandingIs DEF LastCalls, CallsAt
  <1>5. AllReturnsAfter(m, p) /\ Given(m, p) \subseteq m[p].c
    BY <1>3, <1>4 DEF Orderly
  <1>6. /\ a \in Seq(Message) /\ DOMAIN a = DOMAIN m \cup {Len(m) + 1} /\ a[Len(m) + 1] = x
    BY <1>1, AppendIn
  <1>7. \A i \in DOMAIN m :
          /\ a[i] = m[i]
          /\ Given(a, i) = IF AllReturnsAfter(m, i) THEN Given(m, i) \cup S ELSE Given(m, i)
          /\ AllReturnsAfter(a, i) <=> AllReturnsAfter(m, i)
    BY <1>1, GivenAppend
  <1> HIDE DEF a
  <1>8. ASSUME NEW i \in DOMAIN m, m[i].k = "calls", i # p PROVE ~AllReturnsAfter(m, i)
    <2>1. Len(m) \in Nat /\ DOMAIN m = 1 .. Len(m)
      BY LenProperties
    <2>2. p \in i + 1 .. Len(m)
      BY <1>3, <1>8, <2>1 DEF LastCalls, CallsAt
    <2> QED
      BY <1>4, <2>2 DEF AllReturnsAfter
  <1>9. Orderly(a)
    <2> SUFFICES ASSUME NEW i \in DOMAIN a, a[i].k = "calls"
                 PROVE  /\ Given(a, i) \subseteq a[i].c
                        /\ a[i].c = Given(a, i) \/ AllReturnsAfter(a, i)
      BY DEF Orderly
    <2>1. i \in DOMAIN m
      BY <1>1, <1>6
    <2>2. CASE i = p
      BY <1>4, <1>5, <1>7, <2>1, <2>2
    <2>3. CASE i # p
      BY <1>7, <1>8, <2>1, <2>3 DEF Orderly
    <2> QED
      BY <2>2, <2>3
  <1>10. LastCalls(a, p)
    <2>1. CallsAt(a) = CallsAt(m)
      BY <1>1, <1>6, <1>7 DEF CallsAt
    <2> QED
      BY <1>3, <2>1 DEF LastCalls
  <1>11. Outstanding(a) = a[p].c \ Given(a, p)
    BY <1>6, <1>9, <1>10, OutstandingIs
  <1> QED
    BY <1>4, <1>5, <1>7, <1>9, <1>11 DEF a, x

\* What a thread keeps of an orderly history is one a prompt can follow.
LEMMA SettledHistoryWhole ==
  ASSUME NEW m \in Seq(Message), Orderly(m)
  PROVE  /\ Whole(SettledHistory(m))
         /\ SettledHistory(m) = <<>> \/ Settled(SettledHistory(m))
  <1> DEFINE ends == {i \in DOMAIN m : Settled(SubSeq(m, 1, i))}
             e == IF ends = {} THEN 0 ELSE CHOOSE i \in ends : \A j \in ends : j <= i
             s == SubSeq(m, 1, e)
  <1>1. Len(m) \in Nat /\ DOMAIN m = 1 .. Len(m) /\ ends \in SUBSET (1 .. Len(m))
    BY LenProperties
  <1>2. ends = {} => e = 0
    OBVIOUS
  <1>3. ends # {} => e \in ends
    <2> HIDE DEF ends
    <2>1. ends # {} => \E i \in ends : \A j \in ends : j <= i
      BY <1>1, Greatest
    <2> QED
      BY <2>1
  <1>4. SettledHistory(m) = s
    BY DEF SettledHistory
  <1> HIDE DEF e
  <1>5. CASE ends = {}
    <2>1. Len(s) = 0 /\ s = <<>>
      BY <1>1, <1>2, <1>5, SubSeqProperties
    <2>2. Whole(<<>>)
      BY EmptySeq DEF Whole
    <2> HIDE DEF s
    <2> QED
      BY <1>4, <2>1, <2>2
  <1>6. CASE ends # {}
    <2>1. e \in 1 .. Len(m) /\ Settled(s)
      BY <1>1, <1>3, <1>6
    <2>2. s \in Seq(Message) /\ Len(s) = e /\ DOMAIN s = 1 .. e /\ \A i \in 1 .. e : s[i] = m[i]
      BY <1>1, <2>1, SubSeqProperties, LenProperties
    <2> HIDE DEF s
    <2>3. Last(s) = m[e]
      BY <2>1, <2>2 DEF Last
    <2>4. \/ m[e].k = "answer"
          \/ e > 1 /\ m[e - 1].k = "calls" /\ m[e].k = "returns" /\ m[e - 1].c \subseteq m[e].c
      BY <2>1, <2>2, <2>3 DEF Settled, EndsAnExchange, ReturnsEveryCall
    <2>5. ASSUME NEW i \in 1 .. e, m[i].k = "calls", ~AllReturnsAfter(s, i)
          PROVE  Given(s, i) = Given(m, i) /\ ~AllReturnsAfter(m, i)
      <3>1. PICK y \in i + 1 .. e : m[y].k # "returns"
        BY <2>2, <2>5 DEF AllReturnsAfter
      <3>2. ReturnsAfter(s, i) = ReturnsAfter(m, i)
        BY <1>1, <2>1, <2>2, <3>1 DEF ReturnsAfter
      <3>3. \A j \in ReturnsAfter(m, i) : j \in 1 .. e
        BY <2>2, <3>2 DEF ReturnsAfter
      <3>4. ~AllReturnsAfter(m, i)
        BY <1>1, <2>1, <3>1 DEF AllReturnsAfter
      <3> QED
        BY <2>2, <3>2, <3>3, <3>4 DEF Given
    <2>6. ASSUME NEW i \in 1 .. e, m[i].k = "calls" PROVE m[i].c = Given(s, i)
      <3>1. CASE ~AllReturnsAfter(s, i)
        BY <1>1, <2>1, <2>5, <2>6, <3>1 DEF Orderly
      <3>2. CASE AllReturnsAfter(s, i)
        <4>1. i # e
          BY <2>4, <2>6
        <4>2. i = e - 1 /\ m[i].c \subseteq m[e].c /\ m[e].k = "returns"
          <5>1. \A y \in i + 1 .. e : m[y].k = "returns"
            BY <2>2, <3>2 DEF AllReturnsAfter
          <5>2. m[e].k = "returns"
            BY <2>1, <4>1, <5>1
          <5>3. e > 1 /\ m[e - 1].k = "calls" /\ m[e - 1].c \subseteq m[e].c
            BY <2>4, <5>2
          <5>4. e - 1 \notin i + 1 .. e
            BY <5>1, <5>3
          <5> QED
            BY <2>1, <4>1, <5>2, <5>3, <5>4
        <4>3. ReturnsAfter(s, i) = {e}
          BY <2>1, <2>2, <4>2 DEF ReturnsAfter
        <4>4. e \in ReturnsAfter(m, i)
          BY <1>1, <2>1, <4>2 DEF ReturnsAfter
        <4>5. Given(m, i) \subseteq m[i].c
          BY <1>1, <2>1, <2>6 DEF Orderly
        <4>6. m[e].c \subseteq Given(m, i)
          BY <4>4 DEF Given
        <4>7. Given(s, i) = m[e].c
          <5>1. s[e] = m[e]
            BY <2>1, <2>2
          <5> QED
            BY <4>3, <5>1 DEF Given
        <4> QED
          BY <4>2, <4>5, <4>6, <4>7
      <3> QED
        BY <3>1, <3>2
    <2>7. Whole(s)
      BY <2>2, <2>6 DEF Whole
    <2> QED
      BY <1>4, <2>1, <2>7
  <1> QED
    BY <1>5, <1>6

-----------------------------------------------------------------------------
(* Threads and parks along a turn *)

\* What the next turn may start from.
ThreadInv ==
  /\ Whole(cp.thread) /\ (cp.thread = <<>> \/ Settled(cp.thread))
  /\ Orderly(cp.approval.msgs) /\ Orderly(cp.durable.msgs)

Parted ==
  /\ turn.todo \cap turn.got = {} /\ turn.todo \cap turn.deferred = {}
  /\ turn.got \cap turn.deferred = {}
  /\ Outstanding(turn.msgs) = turn.todo \cup turn.got \cup turn.deferred

\* A run requests with every call answered, and in a step the calls it waits for
\* are those it has still to run, those with a result and those deferred.
RunHistInv ==
  /\ turn.phase \in {"request", "calls"} =>
        turn.kept = <<>> /\ turn.approval = NoPark /\ turn.durable = NoPark
  /\ turn.phase = "request" => Whole(turn.msgs)
  /\ turn.phase = "calls" => Orderly(turn.msgs) /\ Parted
  /\ turn.phase = "node" =>
        Orderly(turn.kept) /\ Orderly(turn.approval.msgs) /\ Orderly(turn.durable.msgs)

HistInv == ThreadInv /\ RunHistInv

LEMMA EmptyWhole == Whole(<<>>) /\ Orderly(<<>>) /\ Orderly(NoPark.msgs) /\ <<>> \in Seq(Message)
  BY EmptySeq DEF Whole, Orderly, NoPark

LEMMA HistInit == Init => HistInv
  <1> SUFFICES ASSUME Init PROVE HistInv
    OBVIOUS
  <1>1. cp.thread = <<>> /\ cp.approval = NoPark /\ cp.durable = NoPark /\ turn.phase = "idle"
    BY DEF Init, Idle
  <1> QED
    BY <1>1, EmptyWhole DEF HistInv, ThreadInv, RunHistInv

LEMMA TurnForHist ==
  ASSUME NEW s \in Checkpoint, Whole(s.thread), Orderly(s.approval.msgs), Orderly(s.durable.msgs)
  PROVE  LET t == TurnFor(s) IN
           IF t.values \cup t.clicks # {} THEN Orderly(t.msgs) ELSE Whole(t.msgs)
  <1>1. CASE AnsweredDurableCall(s)
    BY <1>1 DEF TurnFor, AnsweredDurableCall, CarriesDurableAnswer
  <1>2. CASE ~AnsweredDurableCall(s) /\ ApprovalResults(s) # {}
    BY <1>2 DEF TurnFor
  <1>3. CASE ~AnsweredDurableCall(s) /\ ApprovalResults(s) = {}
    <2>1. Prompt(s.prompt) \in Message /\ Prompt(s.prompt).k \notin {"calls", "returns"}
      BY CpFields, MessageTypes DEF Prompt
    <2>2. Whole(Append(s.thread, Prompt(s.prompt)))
      BY <2>1, CpFields, AppendOther
    <2> QED
      BY <1>3, <2>2 DEF TurnFor
  <1> QED
    BY <1>1, <1>2, <1>3

\* What a turn starts its run with.
LEMMA StartFacts ==
  ASSUME Inv, NEW start \in Starts, Start(start)
  PROVE  /\ cp' \in Checkpoint /\ cp'.thread = cp.thread /\ cp'.approval = cp.approval
         /\ cp'.durable = cp.durable /\ kind' = kind
         /\ TurnFor(cp').msgs \in Seq(Message)
         /\ turn'.msgs = TurnFor(cp').msgs /\ turn'.got = {} /\ turn'.deferred = {}
         /\ turn'.kept = <<>> /\ turn'.approval = NoPark /\ turn'.durable = NoPark
         /\ IF TurnFor(cp').values \cup TurnFor(cp').clicks # {}
            THEN turn'.phase = "calls" /\ turn'.todo = Outstanding(turn'.msgs)
            ELSE turn'.phase = "request"
  <1>1. cp \in Checkpoint /\ reported \subseteq Nat /\ cp' = Input(start) /\ kind' = kind
    BY CallsFacts DEF Inv, TypeOK, Start
  <1>2. /\ start.approvals \subseteq Click /\ start.results \subseteq reported /\ start.prompt \in Nat
    BY DEF Starts
  <1>3. /\ cp' \in Checkpoint /\ cp'.thread = cp.thread /\ cp'.approval = cp.approval
        /\ cp'.durable = cp.durable
    BY <1>1, <1>2 DEF Input, Checkpoint
  <1>4. TurnFor(cp').msgs \in Seq(Message)
    BY <1>3, TurnForFacts, CpFields
  <1> DEFINE t == TurnFor(cp')
             resumed == t.values \cup t.clicks # {}
             todo == IF resumed THEN Outstanding(t.msgs) ELSE {}
             phase == IF resumed THEN "calls" ELSE "request"
             message == IF open # 0 /\ start.resume THEN open ELSE Len(rows) + 1
  <1>5. turn' = [phase |-> phase, msgs |-> t.msgs, clicks |-> t.clicks, values |-> t.values,
                 todo |-> todo, got |-> {}, deferred |-> {}, step |-> 1, used |-> 0, parts |-> FALSE,
                 fresh |-> ~resumed, cancel |-> FALSE, kept |-> <<>>,
                 approval |-> NoPark, durable |-> NoPark, message |-> message]
    BY DEF Start
  <1> HIDE DEF t, message
  <1> QED
    BY <1>1, <1>3, <1>4, <1>5 DEF t

LEMMA StartHist == ASSUME Inv, HistInv, NEW start \in Starts, Start(start) PROVE HistInv'
  <1>1. ThreadInv'
    BY StartFacts DEF HistInv, ThreadInv
  <1>2. cp' \in Checkpoint /\ Whole(cp'.thread) /\ Orderly(cp'.approval.msgs) /\ Orderly(cp'.durable.msgs)
    BY <1>1, StartFacts DEF ThreadInv
  <1>3. IF TurnFor(cp').values \cup TurnFor(cp').clicks # {}
        THEN Orderly(TurnFor(cp').msgs) ELSE Whole(TurnFor(cp').msgs)
    BY <1>2, TurnForHist
  <1>4. RunHistInv'
    <2>1. CASE TurnFor(cp').values \cup TurnFor(cp').clicks # {}
      BY <1>3, <2>1, StartFacts DEF RunHistInv, Parted
    <2>2. CASE TurnFor(cp').values \cup TurnFor(cp').clicks = {}
      BY <1>3, <2>2, StartFacts DEF RunHistInv
    <2> QED
      BY <2>1, <2>2
  <1> QED
    BY <1>1, <1>4 DEF HistInv

LEMMA ThreadSame == ASSUME ThreadInv, UNCHANGED cp PROVE ThreadInv'
  BY DEF ThreadInv

\* Steps that add nothing to the run's messages.
LEMMA QuietHist ==
  ASSUME Inv, HistInv,
         \/ Stop \/ StopSeen \/ RunFails \/ Fail \/ UNCHANGED vars
         \/ \E c \in Calls : TaskReports(c)
         \/ \E w \in BOOLEAN : Finalize(w)
  PROVE  HistInv'
  <1>1. UNCHANGED cp
    BY DEF Stop, StopSeen, RunFails, Fail, TaskReports, Finalize, vars
  <1>2. ThreadInv /\ RunHistInv
    BY DEF HistInv
  <1>3. ASSUME UNCHANGED turn PROVE RunHistInv'
    BY <1>2, <1>3 DEF RunHistInv, Parted
  <1>4. ASSUME turn' = Idle PROVE RunHistInv'
    BY <1>4 DEF RunHistInv, Idle
  <1>5. CASE Stop
    <2>1. turn \in Turn /\ turn' = [turn EXCEPT !.cancel = TRUE]
      BY <1>5, TurnHere DEF Inv, Stop, Running
    <2>2. /\ turn'.phase = turn.phase /\ turn'.msgs = turn.msgs /\ turn'.kept = turn.kept
          /\ turn'.todo = turn.todo /\ turn'.got = turn.got /\ turn'.deferred = turn.deferred
          /\ turn'.approval = turn.approval /\ turn'.durable = turn.durable
      BY <2>1 DEF Turn
    <2> QED
      BY <1>1, <1>2, <2>2, ThreadSame DEF HistInv, RunHistInv, Parted
  <1>6. CASE StopSeen \/ RunFails
    <2>1. turn \in Turn /\ turn' = [turn EXCEPT !.phase = "node"] /\ turn.phase \in {"request", "calls"}
      BY <1>6, TurnHere DEF Inv, StopSeen, RunFails, Running
    <2>2. /\ turn'.phase = "node" /\ turn'.kept = turn.kept
          /\ turn'.approval = turn.approval /\ turn'.durable = turn.durable
      BY <2>1 DEF Turn
    <2> QED
      BY <1>1, <1>2, <2>1, <2>2, ThreadSame, EmptyWhole DEF HistInv, RunHistInv
  <1>7. UNCHANGED turn \/ turn' = Idle \/ Stop \/ StopSeen \/ RunFails
    BY DEF Fail, TaskReports, Finalize, vars
  <1> QED
    BY <1>1, <1>2, <1>3, <1>4, <1>5, <1>6, <1>7, ThreadSame DEF HistInv

\* A run that requests is typed, and waits for nothing.
LEMMA RequestHist ==
  ASSUME Inv, HistInv, Requested
  PROVE  /\ turn \in Turn /\ Used(turn) \in Turn /\ Used(turn).msgs = turn.msgs
         /\ turn.msgs \in Seq(Message) /\ Whole(turn.msgs) /\ ThreadInv
         /\ Used(turn).kept = <<>> /\ Used(turn).approval = NoPark /\ Used(turn).durable = NoPark
  <1>1. turn \in Turn /\ turn.phase = "request"
    BY RequestHere
  <1>2. /\ Whole(turn.msgs) /\ turn.kept = <<>> /\ turn.approval = NoPark /\ turn.durable = NoPark
        /\ ThreadInv
    BY <1>1 DEF HistInv, RunHistInv
  <1>3. /\ Used(turn).kept = turn.kept /\ Used(turn).approval = turn.approval
        /\ Used(turn).durable = turn.durable
    BY <1>1 DEF Used, Turn
  <1> QED
    BY <1>1, <1>2, <1>3, UsedType, TurnFields

LEMMA RespondFacts ==
  ASSUME Inv, HistInv, NEW ks \in Responses, Respond(ks)
  PROVE  LET new == Len(kind) + 1 .. Len(kind) + Len(ks) IN
         /\ kind' = kind \o ks /\ UNCHANGED cp /\ new \in SUBSET Nat
         /\ turn'.phase = "calls" /\ turn'.todo = new /\ turn'.got = {} /\ turn'.deferred = {}
         /\ turn'.msgs = Append(turn.msgs, CallsOf(new))
         /\ turn'.kept = <<>> /\ turn'.approval = NoPark /\ turn'.durable = NoPark
  <1> DEFINE new == Len(kind) + 1 .. Len(kind) + Len(ks)
             u == Used(turn)
             msgs == Append(u.msgs, CallsOf(new))
  <1>1. Requested /\ kind' = kind \o ks /\ UNCHANGED cp
    BY DEF Respond
  <1>2. new \in SUBSET Nat
    <2>1. Len(kind) \in Nat /\ Len(ks) \in Nat
      BY CallsFacts, LenProperties, BoundsAssumption DEF Inv
    <2> QED
      BY <2>1
  <1>3. /\ u \in Turn /\ u.msgs = turn.msgs /\ u.kept = <<>> /\ u.approval = NoPark
        /\ u.durable = NoPark
    BY <1>1, RequestHist
  <1>4. turn' = [u EXCEPT !.phase = "calls", !.todo = new, !.got = {}, !.deferred = {},
                          !.msgs = msgs, !.clicks = {}, !.values = {}]
    BY <1>3 DEF Respond, Turn
  <1>5. msgs = Append(turn.msgs, CallsOf(new))
    BY <1>3
  <1> HIDE DEF new, u, msgs
  <1>6. /\ turn'.phase = "calls" /\ turn'.todo = new /\ turn'.got = {} /\ turn'.deferred = {}
        /\ turn'.msgs = msgs
        /\ turn'.kept = <<>> /\ turn'.approval = NoPark /\ turn'.durable = NoPark
    BY <1>3, <1>4 DEF Turn
  <1> QED
    BY <1>1, <1>2, <1>5, <1>6 DEF new

LEMMA RespondHist == ASSUME Inv, HistInv, NEW ks \in Responses, Respond(ks) PROVE HistInv'
  <1> DEFINE new == Len(kind) + 1 .. Len(kind) + Len(ks)
  <1>1. Requested
    BY DEF Respond
  <1>2. /\ UNCHANGED cp /\ new \in SUBSET Nat
        /\ turn'.phase = "calls" /\ turn'.todo = new /\ turn'.got = {} /\ turn'.deferred = {}
        /\ turn'.msgs = Append(turn.msgs, CallsOf(new))
        /\ turn'.kept = <<>> /\ turn'.approval = NoPark /\ turn'.durable = NoPark
    BY RespondFacts
  <1>3. turn.msgs \in Seq(Message) /\ Whole(turn.msgs) /\ ThreadInv
    BY <1>1, RequestHist
  <1> HIDE DEF new
  <1>4. Orderly(turn'.msgs) /\ Outstanding(turn'.msgs) = new
    BY <1>2, <1>3, AppendCalls
  <1>5. Parted'
    BY <1>2, <1>4 DEF Parted
  <1> QED
    BY <1>2, <1>3, <1>4, <1>5, ThreadSame DEF HistInv, RunHistInv

\* What a result leaves: its messages, and a park for what it defers.
DurableOf(calls) == {c \in calls : kind[c] \in Durable}

LEMMA AbsorbParks ==
  ASSUME NEW t \in Turn, NEW msgs \in Seq(Message), NEW calls \in SUBSET Nat,
         turn' = Absorb(t, msgs, calls)
  PROVE  /\ turn'.phase = "node" /\ turn'.kept = msgs
         /\ turn'.durable =
              IF DurableOf(calls) # {}
              THEN [call |-> FirstOf(DurableOf(calls)), tasks |-> DurableOf(calls), msgs |-> msgs]
              ELSE NoPark
         /\ turn'.approval =
              IF DurableOf(calls) = {} /\ calls # {}
              THEN [call |-> FirstOf(calls), tasks |-> {}, msgs |-> msgs] ELSE NoPark
  <1> DEFINE tasks == DurableOf(calls)
             park(s) == [call |-> FirstOf(s), tasks |-> tasks, msgs |-> msgs]
             d == IF tasks # {} THEN park(tasks) ELSE NoPark
             p == IF tasks = {} /\ calls # {} THEN park(calls) ELSE NoPark
  <1>1. turn' = [t EXCEPT !.phase = "node", !.msgs = msgs, !.kept = msgs, !.parts = TRUE,
                          !.durable = d, !.approval = p]
    BY DEF Absorb, DurableOf
  <1> HIDE DEF d, p
  <1>2. turn'.phase = "node" /\ turn'.kept = msgs /\ turn'.durable = d /\ turn'.approval = p
    BY <1>1 DEF Turn
  <1> QED
    BY <1>2 DEF d, p

LEMMA AbsorbHist ==
  ASSUME NEW t \in Turn, NEW msgs \in Seq(Message), NEW calls \in SUBSET Nat, Orderly(msgs),
         turn' = Absorb(t, msgs, calls)
  PROVE  RunHistInv'
  <1>1. turn'.phase = "node" /\ turn'.kept = msgs
    BY AbsorbParks
  <1>2. \A p, q : [call |-> p, tasks |-> q, msgs |-> msgs].msgs = msgs
    OBVIOUS
  <1>3. Orderly(turn'.approval.msgs)
    <2>1. CASE DurableOf(calls) = {} /\ calls # {}
      <3>1. turn'.approval = [call |-> FirstOf(calls), tasks |-> {}, msgs |-> msgs]
        BY <2>1, AbsorbParks
      <3> QED
        BY <1>2, <3>1
    <2>2. CASE ~(DurableOf(calls) = {} /\ calls # {})
      BY <2>2, AbsorbParks, EmptyWhole
    <2> QED
      BY <2>1, <2>2
  <1>4. Orderly(turn'.durable.msgs)
    <2>1. CASE DurableOf(calls) # {}
      <3>1. turn'.durable = [call |-> FirstOf(DurableOf(calls)), tasks |-> DurableOf(calls),
                             msgs |-> msgs]
        BY <2>1, AbsorbParks
      <3> QED
        BY <1>2, <3>1
    <2>2. CASE ~(DurableOf(calls) # {})
      <3>1. turn'.durable = NoPark
        BY <2>2, AbsorbParks
      <3> QED
        BY <3>1, EmptyWhole
    <2> QED
      BY <2>1, <2>2
  <1> QED
    BY <1>1, <1>3, <1>4 DEF RunHistInv

LEMMA ReplyHist == ASSUME Inv, HistInv, NEW k \in {"answer", "paused"}, Reply(k) PROVE HistInv'
  <1> DEFINE u == Used(turn)
             c == Len(kind) + 1
             typed == turn.msgs \o <<CallsOf({c}), Returns({c})>>
             text == Append(turn.msgs, IF k = "answer" THEN Answer ELSE Paused)
  <1>1. Requested /\ UNCHANGED cp
    BY DEF Reply
  <1>2. u \in Turn /\ u.msgs = turn.msgs /\ turn.msgs \in Seq(Message) /\ Whole(turn.msgs) /\ ThreadInv
    BY <1>1, RequestHist
  <1>3. c \in Nat
    BY CallsFacts DEF Inv
  <1>4. typed \in Seq(Message) /\ Orderly(typed)
    <2> DEFINE m1 == Append(turn.msgs, CallsOf({c}))
    <2>1. CallsOf({c}) \in Message /\ Returns({c}) \in Message
      BY <1>3, MessageTypes
    <2>2. m1 \in Seq(Message)
      BY <1>2, <2>1, AppendProperties
    <2>3. Orderly(m1) /\ Outstanding(m1) = {c}
      BY <1>2, <1>3, AppendCalls
    <2>4. Append(m1, Returns({c})) \in Seq(Message)
      BY <2>1, <2>2, AppendProperties
    <2>5. Orderly(Append(m1, Returns({c})))
      <3> HIDE DEF m1, c
      <3> QED
        BY <1>3, <2>2, <2>3, AppendReturns
    <2>6. typed = Append(m1, Returns({c}))
      <3>1. \A x, y \in Message : turn.msgs \o <<x, y>> = Append(Append(turn.msgs, x), y)
        BY <1>2
      <3> HIDE DEF c
      <3> QED
        BY <2>1, <3>1
    <2> QED
      BY <2>4, <2>5, <2>6
  <1>5. text \in Seq(Message) /\ Orderly(text)
    <2>1. \A x \in {Answer, Paused} : x \in Message /\ x.k \notin {"calls", "returns"}
      BY MessageTypes DEF Answer, Paused
    <2>2. \A x \in {Answer, Paused} : Append(turn.msgs, x) \in Seq(Message) /\ Whole(Append(turn.msgs, x))
      BY <1>2, <2>1, AppendOther, AppendProperties
    <2>3. \A x \in {Answer, Paused} : Orderly(Append(turn.msgs, x))
      BY <2>2, WholeIs
    <2> QED
      BY <2>2, <2>3
  <1>6. turn' = Absorb(u, typed, {}) \/ turn' = Absorb(u, text, {})
    BY <1>2 DEF Reply
  <1> HIDE DEF u, c, typed, text
  <1>7. RunHistInv'
    BY <1>2, <1>4, <1>5, <1>6, AbsorbHist
  <1> QED
    BY <1>1, <1>2, <1>7, ThreadSame DEF HistInv

\* What a call step leaves alone of a run's result.
SameParks ==
  turn'.kept = turn.kept /\ turn'.approval = turn.approval /\ turn'.durable = turn.durable

LEMMA MoveFacts ==
  ASSUME turn \in Turn, NEW c \in Nat, NEW g,
         \/ Settle(c, g)
         \/ turn' = [turn EXCEPT !.todo = @ \ {c}, !.deferred = @ \cup {c}]
  PROVE  /\ SameParks /\ turn'.msgs = turn.msgs /\ turn'.todo = turn.todo \ {c}
         /\ turn'.phase \in {turn.phase, "node"}
         /\ \/ turn'.got = turn.got \cup {c} /\ turn'.deferred = turn.deferred
            \/ turn'.got = turn.got /\ turn'.deferred = turn.deferred \cup {c}
  <1> DEFINE todo == turn.todo \ {c}
             got == turn.got \cup {c}
             deferred == turn.deferred \cup {c}
  <1>1. \/ turn' = [turn EXCEPT !.todo = todo, !.got = got]
        \/ turn' = [turn EXCEPT !.todo = todo, !.got = got, !.phase = "node"]
        \/ turn' = [turn EXCEPT !.todo = todo, !.deferred = deferred]
    BY DEF Settle, Turn
  <1> HIDE DEF todo, got, deferred
  <1>2. /\ SameParks /\ turn'.msgs = turn.msgs /\ turn'.todo = todo
        /\ turn'.phase \in {turn.phase, "node"}
        /\ \/ turn'.got = got /\ turn'.deferred = turn.deferred
           \/ turn'.got = turn.got /\ turn'.deferred = deferred
    BY <1>1 DEF Turn, SameParks
  <1> QED
    BY <1>2 DEF todo, got, deferred

\* A call moves from those to run to those with a result or to those deferred.
LEMMA CallHist ==
  ASSUME Inv, HistInv, NEW c \in Calls, RunCall(c) \/ GiveResult(c) \/ Defer(c) PROVE HistInv'
  <1>1. InCalls(c) /\ UNCHANGED cp
    BY DEF RunCall, GiveResult, Defer
  <1>2. /\ turn \in Turn /\ turn.phase = "calls" /\ c \in turn.todo /\ c \in Nat
        /\ ThreadInv /\ Orderly(turn.msgs) /\ Parted
        /\ turn.kept = <<>> /\ turn.approval = NoPark /\ turn.durable = NoPark
    BY <1>1, TurnHere, CallsFacts DEF Inv, InCalls, Running, HistInv, RunHistInv
  <1>3. \E g : \/ Settle(c, g)
               \/ turn' = [turn EXCEPT !.todo = @ \ {c}, !.deferred = @ \cup {c}]
    BY DEF RunCall, GiveResult, Defer
  <1>4. /\ SameParks /\ turn'.msgs = turn.msgs /\ turn'.todo = turn.todo \ {c}
        /\ turn'.phase \in {turn.phase, "node"}
        /\ \/ turn'.got = turn.got \cup {c} /\ turn'.deferred = turn.deferred
           \/ turn'.got = turn.got /\ turn'.deferred = turn.deferred \cup {c}
    BY <1>2, <1>3, MoveFacts
  <1>5. Parted'
    BY <1>2, <1>4 DEF Parted
  <1>6. RunHistInv'
    <2>1. turn'.kept = <<>> /\ turn'.approval = NoPark /\ turn'.durable = NoPark
      BY <1>2, <1>4 DEF SameParks
    <2> QED
      BY <1>2, <1>4, <1>5, <2>1, EmptyWhole DEF RunHistInv
  <1> QED
    BY <1>1, <1>2, <1>6, ThreadSame DEF HistInv

\* The step's results answer its calls but for those deferred.
LEMMA StepMessages ==
  ASSUME turn \in Turn, Orderly(turn.msgs), Parted, turn.todo = {}
  PROVE  LET msgs == IF turn.got = {} THEN turn.msgs ELSE Append(turn.msgs, Returns(turn.got)) IN
         msgs \in Seq(Message) /\ Orderly(msgs) /\ Outstanding(msgs) = turn.deferred
  <1>1. turn.msgs \in Seq(Message) /\ turn.got \subseteq Nat /\ turn.got \subseteq Outstanding(turn.msgs)
        /\ Outstanding(turn.msgs) = turn.got \cup turn.deferred /\ turn.got \cap turn.deferred = {}
    BY TurnFields DEF Parted
  <1>2. CASE turn.got = {}
    BY <1>1, <1>2
  <1>3. CASE turn.got # {}
    <2>1. Append(turn.msgs, Returns(turn.got)) \in Seq(Message)
      BY <1>1, MessageTypes, AppendProperties
    <2>2. /\ Orderly(Append(turn.msgs, Returns(turn.got)))
          /\ Outstanding(Append(turn.msgs, Returns(turn.got))) = Outstanding(turn.msgs) \ turn.got
      BY <1>1, <1>3, AppendReturns
    <2> QED
      BY <1>1, <1>3, <2>1, <2>2
  <1> QED
    BY <1>2, <1>3

LEMMA EndStepHist == ASSUME Inv, HistInv, EndStep PROVE HistInv'
  <1> DEFINE msgs == IF turn.got = {} THEN turn.msgs ELSE Append(turn.msgs, Returns(turn.got))
  <1>1. turn.phase = "calls" /\ turn.todo = {} /\ UNCHANGED cp
    BY DEF EndStep
  <1>2. /\ turn \in Turn /\ ThreadInv /\ Orderly(turn.msgs) /\ Parted
        /\ turn.kept = <<>> /\ turn.approval = NoPark /\ turn.durable = NoPark
    BY <1>1, TurnHere DEF Inv, Running, HistInv, RunHistInv
  <1>3. msgs \in Seq(Message) /\ Orderly(msgs) /\ Outstanding(msgs) = turn.deferred
    BY <1>1, <1>2, StepMessages
  <1>4. turn' = IF turn.deferred = {} THEN [turn EXCEPT !.phase = "request", !.msgs = msgs, !.parts = TRUE]
                ELSE Absorb(turn, msgs, turn.deferred)
    BY DEF EndStep
  <1> HIDE DEF msgs
  <1>5. CASE turn.deferred = {}
    <2>1. Whole(msgs)
      BY <1>3, <1>5, WholeIs
    <2>2. turn' = [turn EXCEPT !.phase = "request", !.msgs = msgs, !.parts = TRUE]
      BY <1>4, <1>5
    <2>3. turn'.phase = "request" /\ turn'.msgs = msgs /\ SameParks
      BY <1>2, <2>2 DEF Turn, SameParks
    <2>4. RunHistInv'
      BY <1>2, <2>1, <2>3 DEF RunHistInv, SameParks
    <2> QED
      BY <1>1, <1>2, <2>4, ThreadSame DEF HistInv
  <1>6. CASE turn.deferred # {}
    <2>1. turn' = Absorb(turn, msgs, turn.deferred) /\ turn.deferred \in SUBSET Nat
      BY <1>2, <1>4, <1>6, TurnFields
    <2>2. RunHistInv'
      BY <1>2, <1>3, <2>1, AbsorbHist
    <2> QED
      BY <1>1, <1>2, <2>2, ThreadSame DEF HistInv
  <1> QED
    BY <1>5, <1>6

\* What the end of a run writes to the checkpoint.
LEMMA EndFacts ==
  ASSUME Inv, EndAgent
  PROVE  /\ turn \in Turn /\ turn.phase = "node" /\ turn'.phase = "finalize"
         /\ cp' \in Checkpoint /\ cp'.approval = turn.approval /\ cp'.durable = turn.durable
         /\ cp'.thread = IF turn.kept = <<>> THEN cp.thread ELSE SettledHistory(turn.kept)
         /\ UNCHANGED kind
  <1> DEFINE thread == IF turn.kept = <<>> THEN cp.thread ELSE SettledHistory(turn.kept)
             tokens == cp.tokens + turn.used
  <1>1. /\ turn \in Turn /\ turn.phase = "node" /\ cp \in Checkpoint /\ UNCHANGED kind
        /\ cp' \in Checkpoint
    BY TurnHere, EndAgentInv DEF Inv, TypeOK, EndAgent, Running
  <1>2. cp' = [cp EXCEPT !.tokens = tokens, !.approval = turn.approval,
                         !.durable = turn.durable, !.thread = thread]
    BY <1>1 DEF EndAgent, Checkpoint
  <1> HIDE DEF thread, tokens
  <1>3. cp'.approval = turn.approval /\ cp'.durable = turn.durable /\ cp'.thread = thread
    BY <1>1, <1>2 DEF Checkpoint
  <1>4. turn' = [turn EXCEPT !.phase = "finalize"]
    BY DEF EndAgent
  <1>5. turn'.phase = "finalize"
    BY <1>1, <1>4 DEF Turn
  <1> QED
    BY <1>1, <1>3, <1>5 DEF thread

LEMMA EndAgentHist == ASSUME Inv, HistInv, EndAgent PROVE HistInv'
  <1>1. /\ turn \in Turn /\ turn.phase = "node" /\ turn'.phase = "finalize"
        /\ cp'.approval = turn.approval /\ cp'.durable = turn.durable
        /\ cp'.thread = IF turn.kept = <<>> THEN cp.thread ELSE SettledHistory(turn.kept)
    BY EndFacts
  <1>2. /\ ThreadInv /\ Orderly(turn.kept) /\ Orderly(turn.approval.msgs) /\ Orderly(turn.durable.msgs)
        /\ turn.kept \in Seq(Message)
    BY <1>1, TurnFields DEF HistInv, RunHistInv
  <1>3. Whole(cp'.thread) /\ (cp'.thread = <<>> \/ Settled(cp'.thread))
    <2>1. CASE turn.kept = <<>>
      BY <1>1, <1>2, <2>1 DEF ThreadInv
    <2>2. CASE turn.kept # <<>>
      BY <1>1, <1>2, <2>2, SettledHistoryWhole
    <2> QED
      BY <2>1, <2>2
  <1>4. ThreadInv'
    BY <1>1, <1>2, <1>3 DEF ThreadInv
  <1>5. RunHistInv'
    BY <1>1 DEF RunHistInv
  <1> QED
    BY <1>4, <1>5 DEF HistInv

LEMMA HistNext == ASSUME Inv, HistInv, [Next]_vars PROVE HistInv'
  <1>1. CASE UserTurn
    <2>1. Turns + 1 \in Nat
      BY GhostFields DEF Inv, Turns
    <2>2. [approvals |-> {}, results |-> {}, resume |-> FALSE, prompt |-> Turns + 1] \in Starts
      BY <2>1 DEF Starts
    <2> QED
      BY <1>1, <2>2, StartHist DEF UserTurn
  <1>2. ASSUME NEW c \in Calls, NEW yes \in BOOLEAN, AnswerTurn(c, yes) PROVE HistInv'
    <2>1. c \in asked /\ c \in Nat
      BY <1>2, CallsFacts DEF AnswerTurn, Inv
    <2>2. [approvals |-> {[call |-> c, yes |-> yes]}, results |-> {}, resume |-> TRUE, prompt |-> 0] \in Starts
      BY <2>1 DEF Starts, Click
    <2> QED
      BY <1>2, <2>2, StartHist DEF AnswerTurn
  <1>3. ASSUME NEW s \in SUBSET reported, CompletionTurn(s) PROVE HistInv'
    <2>1. [approvals |-> {}, results |-> s, resume |-> TRUE, prompt |-> 0] \in Starts
      BY DEF Starts
    <2> QED
      BY <1>3, <2>1, StartHist DEF CompletionTurn
  <1>4. CASE \/ Stop \/ StopSeen \/ RunFails \/ Fail \/ UNCHANGED vars
             \/ \E c \in Calls : TaskReports(c)
             \/ \E w \in BOOLEAN : Finalize(w)
    BY <1>4, QuietHist
  <1>5. CASE EndStep
    BY <1>5, EndStepHist
  <1>6. ASSUME NEW ks \in Responses, Respond(ks) PROVE HistInv'
    BY <1>6, RespondHist
  <1>7. ASSUME NEW k \in {"answer", "paused"}, Reply(k) PROVE HistInv'
    BY <1>7, ReplyHist
  <1>8. ASSUME NEW c \in Calls, RunCall(c) \/ GiveResult(c) \/ Defer(c) PROVE HistInv'
    BY <1>8, CallHist
  <1>9. CASE EndAgent
    BY <1>9, EndAgentHist
  <1> QED
    BY <1>1, <1>2, <1>3, <1>4, <1>5, <1>6, <1>7, <1>8, <1>9 DEF Next, RunNext

\* The history a new prompt is appended to is one pydantic-ai accepts: empty, or
\* ended by an answer or by the results of every call before it, and no call in it
\* waits for a result, whatever the model called, the guard refused or a stop cut.
THEOREM ThreadAcceptedAlways == Spec => []ThreadAccepted
  <1>1. Init => Inv /\ HistInv
    BY InitInv, HistInit
  <1>2. Inv /\ HistInv /\ [Next]_vars => Inv' /\ HistInv'
    BY NextInv, HistNext
  <1>3. HistInv => ThreadAccepted
    BY DEF HistInv, ThreadInv, ThreadAccepted, Whole, Given, ReturnsAfter
  <1> QED
    BY <1>1, <1>2, <1>3, PTL DEF Spec

-----------------------------------------------------------------------------
(* A run that is re-entered *)

\* What a park names of the calls its history waits for: all of them, or a part of
\* a step in which a card stands beside another deferred call.
Agrees(k, named, waiting) ==
  /\ waiting \subseteq 1 .. Len(k) /\ named \subseteq waiting
  /\ named = waiting \/ \E c \in waiting : k[c] \in Asks /\ waiting # {c}

Names(k, approval, durable) ==
  /\ approval.call # NoCall => Agrees(k, {approval.call}, Outstanding(approval.msgs))
  /\ durable.tasks # {} => Agrees(k, durable.tasks, Outstanding(durable.msgs))

ParkedInv ==
  /\ Names(kind, cp.approval, cp.durable)
  /\ turn.phase = "node" => Names(kind, turn.approval, turn.durable)

LEMMA NoParkNames == \A k : Names(k, NoPark, NoPark)
  BY DEF Names, NoPark

LEMMA AgreesGrow ==
  ASSUME NEW k \in Seq(Kinds), NEW l \in Seq(Kinds), Len(k) <= Len(l),
         \A c \in 1 .. Len(k) : l[c] = k[c], NEW named, NEW waiting, Agrees(k, named, waiting)
  PROVE  Agrees(l, named, waiting)
  <1>1. Len(k) \in Nat /\ Len(l) \in Nat
    BY LenProperties
  <1>2. waiting \subseteq 1 .. Len(k) /\ 1 .. Len(k) \subseteq 1 .. Len(l)
    BY <1>1 DEF Agrees
  <1> QED
    BY <1>2 DEF Agrees

LEMMA NamesGrow ==
  ASSUME NEW k \in Seq(Kinds), NEW l \in Seq(Kinds), Len(k) <= Len(l),
         \A c \in 1 .. Len(k) : l[c] = k[c], NEW a, NEW d, Names(k, a, d)
  PROVE  Names(l, a, d)
  BY AgreesGrow DEF Names

\* What a turn resumes with agrees with what its history waits for.
LEMMA ResumedNames ==
  ASSUME NEW s \in Checkpoint, NEW k, Names(k, s.approval, s.durable),
         TurnFor(s).values \cup TurnFor(s).clicks # {}
  PROVE  Agrees(k, TurnFor(s).values \cup {a.call : a \in TurnFor(s).clicks},
                Outstanding(TurnFor(s).msgs))
  <1>1. CASE AnsweredDurableCall(s)
    <2>1. /\ TurnFor(s).msgs = s.durable.msgs /\ TurnFor(s).clicks = {}
          /\ TurnFor(s).values = s.durable.tasks \cap s.results
      BY <1>1 DEF TurnFor
    <2>2. s.durable.tasks # {} /\ s.durable.tasks \cap s.results = s.durable.tasks
      BY <1>1 DEF AnsweredDurableCall, CarriesDurableAnswer
    <2>3. Agrees(k, s.durable.tasks, Outstanding(s.durable.msgs))
      BY <2>2 DEF Names
    <2>4. TurnFor(s).values \cup {a.call : a \in TurnFor(s).clicks} = s.durable.tasks
      BY <2>1, <2>2
    <2> QED
      BY <2>1, <2>3, <2>4
  <1>2. CASE ~AnsweredDurableCall(s) /\ ApprovalResults(s) # {}
    <2>1. /\ TurnFor(s).msgs = s.approval.msgs /\ TurnFor(s).clicks = ApprovalResults(s)
          /\ TurnFor(s).values = {}
      BY <1>2 DEF TurnFor
    <2>2. s.approval.call # NoCall /\ {a.call : a \in ApprovalResults(s)} = {s.approval.call}
      BY <1>2 DEF ApprovalResults
    <2>3. Agrees(k, {s.approval.call}, Outstanding(s.approval.msgs))
      BY <2>2 DEF Names
    <2>4. TurnFor(s).values \cup {a.call : a \in TurnFor(s).clicks} = {s.approval.call}
      BY <2>1, <2>2
    <2> QED
      BY <2>1, <2>3, <2>4
  <1>3. CASE ~AnsweredDurableCall(s) /\ ApprovalResults(s) = {}
    BY <1>3 DEF TurnFor
  <1> QED
    BY <1>1, <1>2, <1>3

LEMMA StartParked ==
  ASSUME Inv, ParkedInv, NEW start \in Starts, Start(start) PROVE ParkedInv'
  <1>1. /\ cp' \in Checkpoint /\ cp'.approval = cp.approval /\ cp'.durable = cp.durable
        /\ kind' = kind /\ turn'.msgs = TurnFor(cp').msgs
        /\ IF TurnFor(cp').values \cup TurnFor(cp').clicks # {}
           THEN turn'.phase = "calls" ELSE turn'.phase = "request"
    BY StartFacts
  <1>2. Names(kind, cp'.approval, cp'.durable)
    BY <1>1 DEF ParkedInv
  <1>3. turn'.phase # "node"
    BY <1>1
  <1> QED
    BY <1>1, <1>2, <1>3 DEF ParkedInv

LEMMA QuietParked ==
  ASSUME Inv, HistInv, ParkedInv,
         \/ Stop \/ StopSeen \/ RunFails \/ Fail \/ UNCHANGED vars
         \/ \E c \in Calls : TaskReports(c)
         \/ \E w \in BOOLEAN : Finalize(w)
  PROVE  ParkedInv'
  <1>1. UNCHANGED <<cp, kind>>
    BY DEF Stop, StopSeen, RunFails, Fail, TaskReports, Finalize, vars
  <1>2. CASE UNCHANGED turn
    BY <1>1, <1>2 DEF ParkedInv
  <1>3. CASE turn' = Idle
    BY <1>1, <1>3 DEF ParkedInv, Idle
  <1>4. CASE Stop
    <2>1. turn \in Turn /\ turn' = [turn EXCEPT !.cancel = TRUE]
      BY <1>4, TurnHere DEF Inv, Stop, Running
    <2>2. /\ turn'.phase = turn.phase /\ turn'.msgs = turn.msgs
          /\ turn'.approval = turn.approval /\ turn'.durable = turn.durable
      BY <2>1 DEF Turn
    <2> QED
      BY <1>1, <2>2 DEF ParkedInv
  <1>5. CASE StopSeen \/ RunFails
    <2>1. turn \in Turn /\ turn' = [turn EXCEPT !.phase = "node"] /\ turn.phase \in {"request", "calls"}
      BY <1>5, TurnHere DEF Inv, StopSeen, RunFails, Running
    <2>2. turn'.phase = "node" /\ turn'.approval = NoPark /\ turn'.durable = NoPark
      BY <2>1 DEF Turn, HistInv, RunHistInv
    <2> QED
      BY <1>1, <2>2, NoParkNames DEF ParkedInv
  <1>6. UNCHANGED turn \/ turn' = Idle \/ Stop \/ StopSeen \/ RunFails
    BY DEF Fail, TaskReports, Finalize, vars
  <1> QED
    BY <1>2, <1>3, <1>4, <1>5, <1>6

LEMMA RespondParked ==
  ASSUME Inv, HistInv, ParkedInv, NEW ks \in Responses, Respond(ks) PROVE ParkedInv'
  <1>1. kind' = kind \o ks /\ UNCHANGED cp /\ turn'.phase = "calls"
    BY RespondFacts
  <1>2. ks \in Seq(Kinds) /\ kind \in Seq(Kinds)
    BY BoundsAssumption DEF Inv, TypeOK
  <1>3. /\ kind' \in Seq(Kinds) /\ Len(kind) <= Len(kind')
        /\ \A c \in 1 .. Len(kind) : kind'[c] = kind[c]
    BY <1>1, <1>2, LenProperties, ConcatProperties
  <1>4. Names(kind', cp'.approval, cp'.durable)
    BY <1>1, <1>2, <1>3, NamesGrow DEF ParkedInv
  <1> QED
    BY <1>1, <1>4 DEF ParkedInv

LEMMA ReplyParked ==
  ASSUME Inv, HistInv, ParkedInv, NEW k \in {"answer", "paused"}, Reply(k) PROVE ParkedInv'
  <1> DEFINE u == Used(turn)
             c == Len(kind) + 1
             typed == u.msgs \o <<CallsOf({c}), Returns({c})>>
             text == Append(u.msgs, IF k = "answer" THEN Answer ELSE Paused)
  <1>1. Requested /\ UNCHANGED cp
    BY DEF Reply
  <1>2. u \in Turn /\ u.msgs = turn.msgs /\ turn.msgs \in Seq(Message)
    BY <1>1, RequestHist
  <1>3. kind \in Seq(Kinds) /\ Len(kind) \in Nat /\ c \in Nat
    BY CallsFacts DEF Inv, TypeOK
  <1>4. typed \in Seq(Message) /\ text \in Seq(Message)
    <2>1. <<CallsOf({c}), Returns({c})>> \in Seq(Message)
      BY <1>3, MessageTypes
    <2> HIDE DEF c
    <2>2. typed \in Seq(Message)
      BY <1>2, <2>1, ConcatProperties
    <2> QED
      BY <1>2, <2>2, MessageTypes, AppendProperties
  <1>5. turn' = Absorb(u, typed, {}) \/ turn' = Absorb(u, text, {})
    BY <1>2 DEF Reply
  <1>6. kind' = kind \/ kind' = Append(kind, "reply")
    BY DEF Reply
  <1> HIDE DEF u, c, typed, text
  <1>7. turn'.phase = "node" /\ turn'.approval = NoPark /\ turn'.durable = NoPark
    <2>1. DurableOf({}) = {}
      BY DEF DurableOf
    <2> QED
      BY <1>2, <1>4, <1>5, <2>1, AbsorbParks
  <1>8. Names(kind', cp'.approval, cp'.durable)
    <2>1. kind' \in Seq(Kinds) /\ Len(kind) <= Len(kind') /\ \A d \in 1 .. Len(kind) : kind'[d] = kind[d]
      <3>1. "reply" \in Kinds
        BY DEF Kinds
      <3> QED
        BY <1>3, <1>6, <3>1, AppendProperties
    <2> QED
      BY <1>1, <1>3, <2>1, NamesGrow DEF ParkedInv
  <1> QED
    BY <1>7, <1>8, NoParkNames DEF ParkedInv

LEMMA CallParked ==
  ASSUME Inv, HistInv, ParkedInv, NEW c \in Calls, RunCall(c) \/ GiveResult(c) \/ Defer(c)
  PROVE  ParkedInv'
  <1>1. InCalls(c) /\ UNCHANGED <<cp, kind>>
    BY DEF RunCall, GiveResult, Defer
  <1>2. /\ turn \in Turn /\ turn.phase = "calls" /\ c \in Nat
        /\ turn.approval = NoPark /\ turn.durable = NoPark
    BY <1>1, TurnHere, CallsFacts DEF Inv, InCalls, Running, HistInv, RunHistInv
  <1>3. \E g : \/ Settle(c, g)
               \/ turn' = [turn EXCEPT !.todo = @ \ {c}, !.deferred = @ \cup {c}]
    BY DEF RunCall, GiveResult, Defer
  <1>4. SameParks /\ turn'.msgs = turn.msgs /\ turn'.phase \in {turn.phase, "node"}
    BY <1>2, <1>3, MoveFacts
  <1>5. turn'.approval = NoPark /\ turn'.durable = NoPark
    BY <1>2, <1>4 DEF SameParks
  <1> QED
    BY <1>1, <1>2, <1>4, <1>5, NoParkNames DEF ParkedInv

\* What a step defers, its park names: its durable calls if it has any, else its
\* first card.
LEMMA AbsorbNames ==
  ASSUME NEW t \in Turn, NEW msgs \in Seq(Message), NEW calls \in SUBSET Calls, calls # {},
         Len(kind) \in Nat, \A c \in calls : kind[c] \in Asks \cup Durable,
         Outstanding(msgs) = calls, turn' = Absorb(t, msgs, calls)
  PROVE  turn'.phase = "node" /\ Names(kind, turn'.approval, turn'.durable)
  <1> DEFINE tasks == DurableOf(calls)
             park(first, named) == [call |-> first, tasks |-> named, msgs |-> msgs]
  <1>1. calls \in SUBSET Nat
    BY DEF Calls
  <1>2. /\ turn'.phase = "node"
        /\ turn'.durable = IF tasks # {} THEN park(FirstOf(tasks), tasks) ELSE NoPark
        /\ turn'.approval = IF tasks = {} /\ calls # {} THEN park(FirstOf(calls), {}) ELSE NoPark
    BY ONLY <1>1, t \in Turn, msgs \in Seq(Message), turn' = Absorb(t, msgs, calls), AbsorbParks
  <1>3. \A f, n : park(f, n).call = f /\ park(f, n).tasks = n /\ park(f, n).msgs = msgs
    OBVIOUS
  <1>4. NoPark.call = NoCall /\ NoPark.tasks = {}
    BY DEF NoPark
  <1>5. tasks \subseteq calls /\ \A c \in calls : kind[c] \in Asks \/ c \in tasks
    BY DEF DurableOf
  <1>6. calls \subseteq 1 .. Len(kind)
    BY DEF Calls
  <1> HIDE DEF park, tasks
  <1>7. CASE tasks # {}
    <2>1. Agrees(kind, tasks, calls)
      <3>1. CASE tasks = calls
        BY <1>6, <3>1 DEF Agrees
      <3>2. CASE tasks # calls
        <4>1. PICK c \in calls : c \notin tasks
          BY <1>5, <3>2
        <4>2. kind[c] \in Asks /\ calls # {c}
          BY <1>5, <1>7, <4>1
        <4> QED
          BY <1>5, <1>6, <4>1, <4>2 DEF Agrees
      <3> QED
        BY <3>1, <3>2
    <2>2. /\ turn'.durable.tasks = tasks /\ turn'.durable.msgs = msgs
          /\ turn'.approval.call = NoCall
      BY <1>2, <1>3, <1>4, <1>7
    <2>3. Names(kind, turn'.approval, turn'.durable)
      BY <2>1, <2>2 DEF Names
    <2> QED
      BY <1>2, <2>3
  <1>8. CASE tasks = {}
    <2>1. FirstOf(calls) \in calls /\ kind[FirstOf(calls)] \in Asks
      BY <1>1, <1>5, <1>8, FirstIn
    <2>2. Agrees(kind, {FirstOf(calls)}, calls)
      BY <1>6, <2>1 DEF Agrees
    <2>3. /\ turn'.approval.call = FirstOf(calls) /\ turn'.approval.msgs = msgs
          /\ turn'.durable.tasks = {}
      BY <1>2, <1>3, <1>4, <1>8
    <2>4. Names(kind, turn'.approval, turn'.durable)
      BY <2>2, <2>3 DEF Names
    <2> QED
      BY <1>2, <2>4
  <1> QED
    BY <1>7, <1>8

LEMMA EndStepParked == ASSUME Inv, HistInv, ParkedInv, EndStep PROVE ParkedInv'
  <1> DEFINE msgs == IF turn.got = {} THEN turn.msgs ELSE Append(turn.msgs, Returns(turn.got))
  <1>1. turn.phase = "calls" /\ turn.todo = {} /\ UNCHANGED <<cp, kind>>
    BY DEF EndStep
  <1>2. /\ turn \in Turn /\ Orderly(turn.msgs) /\ Parted /\ Len(kind) \in Nat
    BY <1>1, TurnHere, CallsFacts DEF Inv, Running, HistInv, RunHistInv
  <1>3. msgs \in Seq(Message) /\ Outstanding(msgs) = turn.deferred
    BY <1>1, <1>2, StepMessages
  <1>4. turn' = IF turn.deferred = {} THEN [turn EXCEPT !.phase = "request", !.msgs = msgs, !.parts = TRUE]
                ELSE Absorb(turn, msgs, turn.deferred)
    BY DEF EndStep
  <1> HIDE DEF msgs
  <1>5. CASE turn.deferred = {}
    <2>1. turn' = [turn EXCEPT !.phase = "request", !.msgs = msgs, !.parts = TRUE]
      BY <1>4, <1>5
    <2>2. turn'.phase = "request"
      BY <1>2, <2>1 DEF Turn
    <2> QED
      BY <1>1, <2>2 DEF ParkedInv
  <1>6. CASE turn.deferred # {}
    <2>1. CallInv
      BY <1>1, <1>6 DEF Inv, RunInv
    <2>2. turn.deferred \in SUBSET Calls /\ \A c \in turn.deferred : kind[c] \in Asks \cup Durable
      BY <2>1 DEF CallInv, Waits
    <2>3. turn' = Absorb(turn, msgs, turn.deferred)
      BY <1>4, <1>6
    <2>4. turn'.phase = "node" /\ Names(kind, turn'.approval, turn'.durable)
      BY <1>2, <1>3, <1>6, <2>2, <2>3, AbsorbNames
    <2> QED
      BY <1>1, <2>4 DEF ParkedInv
  <1> QED
    BY <1>5, <1>6

LEMMA EndAgentParked == ASSUME Inv, ParkedInv, EndAgent PROVE ParkedInv'
  BY EndFacts DEF ParkedInv

LEMMA ParkedNext == ASSUME Inv, HistInv, ParkedInv, [Next]_vars PROVE ParkedInv'
  <1>1. CASE UserTurn
    <2>1. Turns + 1 \in Nat
      BY GhostFields DEF Inv, Turns
    <2>2. [approvals |-> {}, results |-> {}, resume |-> FALSE, prompt |-> Turns + 1] \in Starts
      BY <2>1 DEF Starts
    <2> QED
      BY <1>1, <2>2, StartParked DEF UserTurn
  <1>2. ASSUME NEW c \in Calls, NEW yes \in BOOLEAN, AnswerTurn(c, yes) PROVE ParkedInv'
    <2>1. c \in asked /\ c \in Nat
      BY <1>2, CallsFacts DEF AnswerTurn, Inv
    <2>2. [approvals |-> {[call |-> c, yes |-> yes]}, results |-> {}, resume |-> TRUE, prompt |-> 0] \in Starts
      BY <2>1 DEF Starts, Click
    <2> QED
      BY <1>2, <2>2, StartParked DEF AnswerTurn
  <1>3. ASSUME NEW s \in SUBSET reported, CompletionTurn(s) PROVE ParkedInv'
    <2>1. [approvals |-> {}, results |-> s, resume |-> TRUE, prompt |-> 0] \in Starts
      BY DEF Starts
    <2> QED
      BY <1>3, <2>1, StartParked DEF CompletionTurn
  <1>4. CASE \/ Stop \/ StopSeen \/ RunFails \/ Fail \/ UNCHANGED vars
             \/ \E c \in Calls : TaskReports(c)
             \/ \E w \in BOOLEAN : Finalize(w)
    BY <1>4, QuietParked
  <1>5. CASE EndStep
    BY <1>5, EndStepParked
  <1>6. ASSUME NEW ks \in Responses, Respond(ks) PROVE ParkedInv'
    BY <1>6, RespondParked
  <1>7. ASSUME NEW k \in {"answer", "paused"}, Reply(k) PROVE ParkedInv'
    BY <1>7, ReplyParked
  <1>8. ASSUME NEW c \in Calls, RunCall(c) \/ GiveResult(c) \/ Defer(c) PROVE ParkedInv'
    BY <1>8, CallParked
  <1>9. CASE EndAgent
    BY <1>9, EndAgentParked
  <1> QED
    BY <1>1, <1>2, <1>3, <1>4, <1>5, <1>6, <1>7, <1>8, <1>9 DEF Next, RunNext

\* A run that is re-entered is given results only for calls its last response left
\* outstanding, and for each of them unless a card stands among them beside another
\* call: what the first park of that step leaves out, pending_approval drops.
THEOREM ResumesWholeAlways == Spec => []ResumesWhole
  <1>1. Init => Inv /\ HistInv /\ ParkedInv
    <2>1. Init => ParkedInv
      <3> SUFFICES ASSUME Init PROVE ParkedInv
        OBVIOUS
      <3>1. cp.approval = NoPark /\ cp.durable = NoPark /\ turn.phase = "idle"
        BY DEF Init, Idle
      <3> QED
        BY <3>1, NoParkNames DEF ParkedInv
    <2> QED
      BY <2>1, InitInv, HistInit
  <1>2. Inv /\ HistInv /\ ParkedInv /\ [Next]_vars => Inv' /\ HistInv' /\ ParkedInv'
    BY NextInv, HistNext, ParkedNext
  <1>3. Inv /\ ParkedInv => ResumesWhole
    <2> DEFINE given == TurnFor(cp).values \cup {a.call : a \in TurnFor(cp).clicks}
               waiting == Outstanding(TurnFor(cp).msgs)
    <2> SUFFICES ASSUME Inv, ParkedInv, given # {}
                 PROVE  given \subseteq waiting /\ (given = waiting \/ Crowded(waiting))
      BY DEF ResumesWhole
    <2>1. TurnFor(cp).values \cup TurnFor(cp).clicks # {}
      OBVIOUS
    <2>2. cp \in Checkpoint /\ Names(kind, cp.approval, cp.durable)
      BY DEF Inv, TypeOK, ParkedInv
    <2>3. Agrees(kind, given, waiting)
      BY <2>1, <2>2, ResumedNames
    <2> QED
      BY <2>3 DEF Agrees, Crowded
  <1> QED
    BY <1>1, <1>2, <1>3, PTL DEF Spec
=============================================================================
