---------------------------- MODULE RunHistory ----------------------------
(***************************************************************************)
(* What a model reads of its thread: the history a run carries, put through*)
(* pair_orphans, elide_consumed and compact_history before each request    *)
(* (conversation/history/), and the instruction sections that              *)
(* StableInstructions holds to their first text, with an update after each *)
(* call that changed one (capabilities/stable_instructions.py).            *)
(*                                                                         *)
(* A message is a request or a response with a sequence of parts.  A       *)
(* section's text is a version number, 0 when the section does not apply;  *)
(* the text of words, results and digests is what names them.  pydantic-ai *)
(* is external: it may keep what the processors return or only send it,    *)
(* and runs the hook of the notes before or after them.                    *)
(***************************************************************************)
EXTENDS Integers, Sequences, FiniteSets, SequencesExt

CONSTANTS
  Sections,          \* the instruction sections of an agent
  KeepRecent, Block, \* KEEP_RECENT_TOOL_PAIRS, ELIDE_BLOCK
  CompactAt, KeepSize, MinKept,   \* the compaction's limits, in units of size
  DigestCap,         \* _DIGEST_CHAR_CAP, in lines
  Pasts,             \* the histories a thread may start from
  Big,               \* the size of a bulky result; every other part counts 1
  Bodies,            \* how bulky a call's result may be: "small", "big"
  MaxCalls, MaxRuns, MaxVersion,
  Parks              \* whether a run may end on a call that waits

ASSUME BoundsAssumption ==
  /\ KeepRecent \in Nat /\ Block \in Nat \ {0} /\ MinKept \in Nat \ {0}
  /\ Parks \in BOOLEAN

VARIABLES
  history,   \* the run's messages, and between runs the thread's
  sent,      \* the messages of the last request
  sections,  \* each section's text as it stands
  run,       \* the run: its number, what it holds and was told, its calls, and
             \* (misled) the sections whose last update may tell an older text
  calls,     \* how many calls the thread made
  setting    \* how pydantic-ai is put together

vars == <<history, sent, sections, run, calls, setting>>

Request(ps)  == [req |-> TRUE, parts |-> ps]
Response(ps) == [req |-> FALSE, parts |-> ps]

NoUpdate == <<>>
Part == [t |-> "text", id |-> 0, out |-> "", body |-> "", items |-> NoUpdate, tag |-> 0, lines |-> <<>>]
Text           == Part
User(n)        == [Part EXCEPT !.t = "user", !.id = n]
Call(c)        == [Part EXCEPT !.t = "call", !.id = c]
Return(c, out, body) == [Part EXCEPT !.t = "return", !.id = c, !.out = out, !.body = body]
Placeholder(c) == Return(c, "ok", "small")
Digest(ls)     == [Part EXCEPT !.t = "digest", !.lines = ls]
\* An update in the user's voice has no tag, a system note its run's.
Update(items, tag) == [Part EXCEPT !.t = "update", !.items = items, !.tag = tag]

PartsOf(msgs) == FlattenSeq([i \in DOMAIN msgs |-> msgs[i].parts])
IdsOf(msgs, t) == {p.id : p \in {q \in ToSet(PartsOf(msgs)) : q.t = t}}
MapParts(msgs, Op(_)) ==
  [i \in DOMAIN msgs |-> IF msgs[i].req THEN Request(Op(msgs[i].parts)) ELSE msgs[i]]

----------------------------------------------------------------------------
(* pair_orphans: every call answered once, every return for a call. *)

Final(p) == p.t = "return" /\ p.out # "retried"
Twice(s, P(_)) == \E i, j \in DOMAIN s : i < j /\ P(s[i]) /\ P(s[j]) /\ s[i].id = s[j].id

DropReturns(msgs, orphans) ==
  LET Before(i, j) == PartsOf(SubSeq(msgs, 1, i - 1)) \o SubSeq(msgs[i].parts, 1, j - 1)
      Keep(i, j) ==
        LET p == msgs[i].parts[j]
        IN Final(p) => /\ p.id \notin orphans
                       /\ \A q \in ToSet(Before(i, j)) : Final(q) => q.id # p.id
      Kept(i) == LET at == SelectSeq([j \in DOMAIN msgs[i].parts |-> j], LAMBDA j : Keep(i, j))
                 IN [k \in DOMAIN at |-> msgs[i].parts[at[k]]]
      all == [i \in DOMAIN msgs |-> IF msgs[i].req THEN Request(Kept(i)) ELSE msgs[i]]
  IN SelectSeq(all, LAMBDA m : m.req => m.parts # <<>>)

\* A placeholder for each orphan call, in the request after its response.
InjectReturns(msgs, orphans) ==
  LET Held(i) == IF i \notin DOMAIN msgs \/ msgs[i].req THEN <<>>
                 ELSE SelectSeq(msgs[i].parts, LAMBDA p : p.t = "call" /\ p.id \in orphans)
      Fill(i) == [k \in DOMAIN Held(i) |-> Placeholder(Held(i)[k].id)]
      Alone(i) == Held(i) # <<>> /\ ~(i < Len(msgs) /\ msgs[i + 1].req)
      At(i) == IF msgs[i].req THEN <<Request(Fill(i - 1) \o msgs[i].parts)>>
               ELSE IF Alone(i) THEN <<msgs[i], Request(Fill(i))>> ELSE <<msgs[i]>>
  IN FlattenSeq([i \in DOMAIN msgs |-> At(i)])

\* Mutant: a placeholder for each orphan, the returns as they are.
PairInjectOnly(msgs) == InjectReturns(msgs, IdsOf(msgs, "call") \ IdsOf(msgs, "return"))

PairOrphans(msgs) ==
  LET called   == IdsOf(msgs, "call")
      returned == IdsOf(msgs, "return")
      parts    == PartsOf(msgs)
      IsCall(p) == p.t = "call"
  IN IF called = returned /\ ~Twice(parts, Final) /\ ~Twice(parts, IsCall) THEN msgs
     ELSE InjectReturns(DropReturns(msgs, returned \ called), called \ returned)

----------------------------------------------------------------------------
(* elide_consumed: old results digested, a whole block of calls at a time. *)

CallOrder(msgs) == LET cs == SelectSeq(PartsOf(msgs), LAMBDA p : p.t = "call") IN [i \in DOMAIN cs |-> cs[i].id]

Blocks(msgs) == LET n == (Len(CallOrder(msgs)) - KeepRecent) \div Block IN IF n < 0 THEN 0 ELSE n

Elide(msgs, n) ==
  LET ids == ToSet(SubSeq(CallOrder(msgs), 1, n))
      Stub(p) == IF Final(p) /\ p.id \in ids /\ p.body = "big" THEN [p EXCEPT !.body = "stub"] ELSE p
      All(ps) == [j \in DOMAIN ps |-> Stub(ps[j])]
  IN MapParts(msgs, All)

\* Mutant: one call at a time.
ElideEachCall(msgs) ==
  LET n == Len(CallOrder(msgs)) - KeepRecent IN IF n <= 0 THEN msgs ELSE Elide(msgs, n)

ElideConsumed(msgs) == Elide(msgs, Blocks(msgs) * Block)

----------------------------------------------------------------------------
(* compact_history: the middle of a long history as one digest. *)

PartSize(p) == IF p.t = "return" /\ p.body = "big" THEN Big ELSE IF p.t = "digest" THEN Len(p.lines) ELSE 1
Size(msgs) == FoldLeft(LAMBDA n, p : n + PartSize(p), 0, PartsOf(msgs))

\* _tail_split: where the kept tail starts, Len(msgs) + 1 with no pair to keep.
TailStart(msgs) ==
  LET pairs == {i \in 2 .. Len(msgs) : msgs[i].req /\ ~msgs[i - 1].req}
      Fits(i) == \/ Cardinality({j \in pairs : j >= i}) <= MinKept
                 \/ Size(SubSeq(msgs, i - 1, Len(msgs))) <= KeepSize
      kept  == {i \in pairs : \A j \in pairs : j >= i => Fits(j)}
      first == CHOOSE i \in kept : \A j \in kept : i <= j
      early == {x \in 2 .. first - 1 : \A y \in x .. first - 2 : ~msgs[y].req}
  IN IF kept = {} THEN Len(msgs) + 1
     ELSE IF first = 2 THEN 1
     ELSE CHOOSE x \in early : \A y \in early : x <= y

UserLine(p) == [k |-> "user", id |-> p.id]
DigestLines(middle) ==
  LET Lines(m, p) ==
        CASE p.t = "user" -> <<UserLine(p)>>
          [] p.t = "text" -> <<[k |-> "said", id |-> 0]>>
          [] p.t = "call" -> <<[k |-> "call", id |-> p.id]>>
          [] OTHER -> <<>>
  IN FlattenSeq([i \in DOMAIN middle |->
       FlattenSeq([j \in DOMAIN middle[i].parts |-> Lines(middle[i], middle[i].parts[j])])])

\* Mutant: over the cap the newest lines are kept, whoever said them.
NewestLines(lines) == IF Len(lines) <= DigestCap THEN lines ELSE SubSeq(lines, Len(lines) - DigestCap + 1, Len(lines))

\* _build_digest: over the cap the user's lines stay, and of the others the newest.
CappedLines(lines) ==
  LET user == {i \in DOMAIN lines : lines[i].k = "user"}
      Newer(i) == Cardinality({j \in DOMAIN lines \ user : j >= i})
      held(i) == i \in user \/ Cardinality(user) + Newer(i) <= DigestCap
      at == SelectSeq([i \in DOMAIN lines |-> i], held)
  IN IF Len(lines) <= DigestCap THEN lines ELSE [k \in DOMAIN at |-> lines[at[k]]]

\* Mutant: an update is a part like any other.
NoUpdates(middle) == <<>>

\* _section_updates: what the middle told of the sections, whole.
SectionUpdates(middle) == SelectSeq(PartsOf(middle), LAMBDA p : p.t = "update")

OrphanFree(msgs) == IdsOf(msgs, "call") = IdsOf(msgs, "return")

Compacted(msgs, start) ==
  LET middle == SubSeq(msgs, 2, start - 1)
      old    == SelectSeq(msgs[1].parts, LAMBDA p : p.t = "digest")
      own    == SelectSeq(msgs[1].parts, LAMBDA p : p.t # "digest")
      prior  == FlattenSeq([i \in DOMAIN old |-> old[i].lines])
  IN <<Request(own \o <<Digest(CappedLines(prior \o DigestLines(middle)))>> \o SectionUpdates(middle))>>
     \o SubSeq(msgs, start, Len(msgs))

CompactHistory(msgs) ==
  LET start == TailStart(msgs)
      short == Compacted(msgs, start)
  IN IF \/ Size(msgs) <= CompactAt \/ ~msgs[1].req \/ ~Last(msgs).req
        \/ start <= 2 \/ start > Len(msgs)
     THEN msgs
     ELSE IF OrphanFree(msgs) /\ ~OrphanFree(short) THEN msgs ELSE short

----------------------------------------------------------------------------
(* StableInstructions. *)

NotRun == [n |-> 0, words |-> 0, read |-> FALSE, phase |-> "idle", held |-> <<>>, latest |-> <<>>,
           misled |-> {}, todo |-> <<>>, order |-> <<>>, done |-> <<>>, waiting |-> {}]

\* Mutant: the notes of other runs stay.
NotesOfAnyRun(msgs, tag) ==
  LET All(ps) == [j \in DOMAIN ps |-> IF ps[j].t = "update" /\ ps[j].tag = 0 THEN Update(ps[j].items, tag) ELSE ps[j]]
  IN MapParts(msgs, All)

\* _as_system_notes: this run's updates as its notes, no other run's note.
Notes(msgs, tag) ==
  LET Voice(p) == IF p.t # "update" THEN <<p>>
                  ELSE IF p.tag = 0 THEN <<Update(p.items, tag)>>
                  ELSE IF p.tag = tag THEN <<p>> ELSE <<>>
      All(ps) == FlattenSeq([j \in DOMAIN ps |-> Voice(ps[j])])
  IN MapParts(msgs, All)

\* after_tool_execute: the sections the run reads another text of now.  A call
\* before the run's first request finds no section read.
Changed(now) ==
  LET s == {x \in DOMAIN run.latest : now[x] # run.latest[x]}
  IN IF s = {} THEN NoUpdate ELSE SetToSeq({[s |-> x, v |-> now[x]] : x \in s})

\* briefing_now: each section in the text of its last update.
BriefingNow(held, msgs) ==
  LET items == FlattenSeq([i \in DOMAIN PartsOf(msgs) |-> PartsOf(msgs)[i].items])
      Of(s) == SelectSeq(items, LAMBDA x : x.s = s)
  IN [s \in Sections |-> IF Of(s) = <<>> THEN held[s] ELSE Last(Of(s)).v]

\* The sections an update tells of, those the updates behind call c in its response
\* tell of already, and those of a history's updates that are no run's note yet.
Told(items) == {items[i].s : i \in DOMAIN items}
ToldBehind(c) ==
  LET at == CHOOSE i \in DOMAIN run.order : run.order[i] = c
      behind == FlattenSeq(SubSeq(run.done, at + 1, Len(run.done)))
  IN UNION {Told(p.items) : p \in ToSet(behind)}
Untold(msgs) == UNION {Told(p.items) : p \in {q \in ToSet(PartsOf(msgs)) : q.t = "update" /\ q.tag = 0}}

----------------------------------------------------------------------------
(* Runs. *)

Init ==
  /\ history \in Pasts
  /\ sent = <<>> /\ calls = 0 /\ run = NotRun
  /\ sections \in [Sections -> {0, 1}]
  /\ setting \in [keeps : BOOLEAN, notesFirst : BOOLEAN]

Processed(msgs) == CompactHistory(ElideConsumed(PairOrphans(msgs)))

NewRun(phase, todo, words) ==
  run' = [NotRun EXCEPT !.n = run.n + 1, !.words = words, !.phase = phase,
            !.misled = IF phase = "tools" THEN Untold(history) ELSE {},
            !.todo = todo, !.order = todo,
            !.done = [i \in DOMAIN todo |-> <<>>]]

Prompt ==
  /\ run.phase = "idle" /\ run.n < MaxRuns
  /\ NewRun("request", <<>>, run.words + 1)
  /\ history' = Append(history, Request(<<User(run.words + 1)>>))
  /\ UNCHANGED <<sent, sections, calls, setting>>

\* A thread that waits is re-entered with the calls it parked.
Resume ==
  /\ run.phase = "parked" /\ run.n < MaxRuns
  /\ NewRun("tools", SetToSortSeq(run.waiting, <), run.words)
  /\ UNCHANGED <<history, sent, sections, calls, setting>>

\* One model request: the sections the run reads first, and the two hooks.
Send ==
  /\ run.phase = "request"
  /\ LET noted == Notes(history, run.n)
         seen  == IF setting.notesFirst THEN Processed(noted) ELSE Notes(Processed(history), run.n)
     IN /\ sent' = seen
        /\ history' = IF setting.keeps THEN seen ELSE noted
  /\ run' = [run EXCEPT !.phase = "respond", !.read = TRUE,
               !.held = IF run.read THEN @ ELSE sections,
               !.latest = IF run.read THEN @ ELSE sections]
  /\ UNCHANGED <<sections, calls, setting>>

Respond(n) ==
  /\ run.phase = "respond" /\ calls + n <= MaxCalls
  /\ LET new == [i \in 1 .. n |-> calls + i]
     IN /\ history' = Append(history, Response([i \in 1 .. n |-> Call(new[i])]))
        /\ run' = [run EXCEPT !.phase = "tools", !.todo = new, !.order = new,
                     !.done = [i \in DOMAIN new |-> <<>>]]
  /\ calls' = calls + n
  /\ UNCHANGED <<sent, sections, setting>>

Answer ==
  /\ run.phase = "respond"
  /\ history' = Append(history, Response(<<Text>>))
  /\ run' = [NotRun EXCEPT !.n = run.n, !.words = run.words]
  /\ UNCHANGED <<sent, sections, calls, setting>>

\* The calls of one response run at once, and end in any order.
Running(c) == run.phase = "tools" /\ c \in ToSet(run.todo)
Done(c, parts) ==
  [run EXCEPT !.todo = SelectSeq(@, LAMBDA x : x # c),
     !.done[CHOOSE i \in DOMAIN run.order : run.order[i] = c] = parts]

\* A call ends well, with the sections as the call or anyone else left them.
Execute(c, body, now) ==
  /\ Running(c)
  /\ sections' = now
  /\ LET result == Return(c, "ok", body)
         items  == Changed(now)
     IN run' = [Done(c, IF items = NoUpdate THEN <<result>> ELSE <<result, Update(items, 0)>>)
                  EXCEPT !.latest = [s \in DOMAIN @ |-> now[s]],
                         !.misled = (@ \ Told(items)) \cup (Told(items) \cap ToldBehind(c))]
  /\ UNCHANGED <<history, sent, calls, setting>>

\* A call that asks for another try runs no hook.
Retry(c, now) ==
  /\ Running(c)
  /\ sections' = now
  /\ run' = Done(c, <<Return(c, "retried", "small")>>)
  /\ UNCHANGED <<history, sent, calls, setting>>

Wait(c) ==
  /\ Parks /\ Running(c) /\ run.read
  /\ run' = [Done(c, <<>>) EXCEPT !.waiting = @ \cup {c}]
  /\ UNCHANGED <<history, sent, sections, calls, setting>>

\* The results in the order of the calls, then what they send after them.
EndTools ==
  /\ run.phase = "tools" /\ run.todo = <<>>
  /\ LET all  == FlattenSeq(run.done)
         IsUpdate(p) == p.t = "update"
         body == SelectSeq(all, LAMBDA p : ~IsUpdate(p)) \o SelectSeq(all, IsUpdate)
     IN history' = IF body = <<>> THEN history ELSE Append(history, Request(body))
  /\ run' = IF run.waiting = {} THEN [run EXCEPT !.phase = "request", !.order = <<>>, !.done = <<>>]
            ELSE [NotRun EXCEPT !.n = run.n, !.words = run.words, !.phase = "parked", !.waiting = run.waiting]
  /\ UNCHANGED <<sent, sections, calls, setting>>

Next ==
  \/ Prompt \/ Resume \/ Send \/ Answer \/ EndTools
  \/ \E n \in 1 .. 2 : Respond(n)
  \/ \E c \in 1 .. calls, now \in [Sections -> 0 .. MaxVersion] :
       Retry(c, now) \/ \E body \in Bodies : Execute(c, body, now)
  \/ \E c \in 1 .. calls : Wait(c)

Spec == Init /\ [][Next]_vars

----------------------------------------------------------------------------
(* Properties. *)

Asked == run.phase = "respond"

\* What the model reads as its instructions, the held text with every update it
\* is sent, is each section as the run's last successful call left it: through
\* elision, compaction, retries and the notes of earlier runs.  Two cases of the
\* code are excepted, until the section's next update: a call that changed the
\* section after one that stands behind it in the response (the updates are sent in
\* the order of the calls), and a run that re-entered a parked one, for the sections
\* the parked run's last updates told of (it takes them for its own).
BriefingCurrent ==
  Asked => \A s \in Sections \ run.misled : BriefingNow(run.held, sent)[s] = run.latest[s]

\* Every call a provider is sent is answered before the next response, once,
\* and nothing is answered that was not called, whatever the thread held.
Answered(i, m) == UNION {{p.id : p \in {q \in ToSet(sent[j].parts) : q.t = "return"}} :
                    j \in {x \in i + 1 .. Len(sent) : \A y \in i + 1 .. x : sent[y].req}}
CallsOf(m) == {p.id : p \in {q \in ToSet(m.parts) : q.t = "call"}}
PairsKept ==
  Asked =>
    /\ \A i \in DOMAIN sent : ~sent[i].req => CallsOf(sent[i]) = Answered(i, sent[i])
    /\ ~Twice(PartsOf(sent), Final)

\* What the user said is always before the model, as a message or as a line of
\* the digest, however often the history was compacted.
WordsKept ==
  Asked => \A n \in 1 .. run.words :
    \E p \in ToSet(PartsOf(sent)) : p = User(n) \/ UserLine(User(n)) \in ToSet(p.lines)

\* Shortening a history drops neither a call's answer nor what the user said.
NothingLost == PairsKept /\ WordsKept

\* Between two edges of elision and compaction, each request of a run extends
\* the one before it unchanged, which is what a provider's cache reuses.
Digests(msgs) == SelectSeq(PartsOf(msgs), LAMBDA p : p.t = "digest")
RequestsExtend ==
  [][Asked' /\ ~Asked /\ run.read /\ Blocks(history) = Blocks(sent)
       /\ Digests(sent') = <<>> => IsPrefix(sent, sent')]_vars
=============================================================================
