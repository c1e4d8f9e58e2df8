------------------------------ MODULE Notebook ------------------------------
(***************************************************************************)
(* The scratchpad of a thread: the tools an agent writes notes with, the   *)
(* compaction that rewrites them past a ceiling, and the fork and the      *)
(* revert that cut them by their time (scratchpad/, persistence/           *)
(* repositories/scratchpad.py).                                            *)
(*                                                                         *)
(* A note's words are the facts it holds.  Each method of the notebook is  *)
(* one committed transaction; a compaction is three, with a model's run    *)
(* between the read of the notes and their replacement.  The compactor     *)
(* agent and the host's fork and revert are external: the compactor is     *)
(* taken to keep every fact it is shown, once.                             *)
(***************************************************************************)
EXTENDS Integers, FiniteSets, FiniteSetsExt

CONSTANTS
    CountCeiling, TokenCeiling, \* COMPACT_COUNT_THRESHOLD, COMPACT_TOKENS_THRESHOLD
    MaxCompacted,               \* MAX_COMPACTED_NOTES
    ReadLimit,                  \* how many notes notes_to_compact reads
    Sizes,                      \* the approx_body_tokens a body may have
    MaxFacts, MaxTime, MaxRuns, \* bounds: facts, turns and compactions
    Beside                      \* whether notes are written beside a compaction

ASSUME NotebookAssumption ==
    /\ {CountCeiling, TokenCeiling, MaxCompacted, ReadLimit} \subseteq Nat
    /\ MaxCompacted <= CountCeiling
    /\ Sizes \subseteq Nat
    /\ MaxFacts \in Nat /\ MaxTime \in Nat \ {0} /\ MaxRuns \in Nat
    /\ Beside \in BOOLEAN

VARIABLES
    notes,      \* the thread's rows of scratchpad_notes
    now,        \* the turn a row is written in
    facts,      \* how many facts were ever written
    compaction  \* the compaction that runs; stood is history

noteVars == <<notes, now, facts, compaction>>

\* id orders the rows as they were written.  born, the turn a note was first
\* written in, is not in the code: a copy takes it from its source.
NoteRow == [id : Nat, facts : SUBSET (1..MaxFacts), tokens : Sizes, pinned : BOOLEAN,
            at : 1..MaxTime, born : 1..MaxTime]

Compaction == [phase : {"idle", "gate", "run"}, shown : SUBSET (1..MaxFacts),
               stood : SUBSET (1..MaxFacts), runs : 0..MaxRuns]

NotesTypeOK ==
    /\ notes \subseteq NoteRow /\ IsFiniteSet(notes)
    /\ now \in 1..MaxTime
    /\ facts \in 0..MaxFacts
    /\ compaction \in Compaction

NoCompaction(runs) == [phase |-> "idle", shown |-> {}, stood |-> {}, runs |-> runs]

NotesInit ==
    /\ notes = {} /\ now = 1 /\ facts = 0
    /\ compaction = NoCompaction(0)

UnpinnedOf(rows) == {n \in rows : ~n.pinned}
Unpinned == UnpinnedOf(notes)
Facts(rows) == UNION {n.facts : n \in rows}
Tokens(rows) == MapThenSumSet(LAMBDA n : n.tokens, rows)

\* mint_note_id: the i-th row to be written now.
NextId(i) == Max({n.id : n \in notes} \cup {0}) + i

\* create: a row written now.
MintedRow(i, words, tokens, pinned) ==
    [id |-> NextId(i), facts |-> words, tokens |-> tokens, pinned |-> pinned,
     at |-> now, born |-> now]

----------------------------------------------------------------------------
(* The tools: each is one transaction, and a note it does not find is a    *)
(* retry that changes nothing.                                             *)

WriteNotes(rows) ==
    /\ Beside \/ compaction.phase = "idle"
    /\ notes' = rows
    /\ UNCHANGED <<now, compaction>>

Note(tokens, pinned) ==
    /\ facts < MaxFacts
    /\ WriteNotes(notes \cup {MintedRow(1, {facts + 1}, tokens, pinned)})
    /\ facts' = facts + 1

\* A new body replaces the old one; the time a note was created at stays.
UpdateNote(n, tokens) ==
    /\ facts < MaxFacts
    /\ WriteNotes((notes \ {n}) \cup {[n EXCEPT !.facts = {facts + 1}, !.tokens = tokens]})
    /\ facts' = facts + 1

DeleteNote(n) ==
    /\ WriteNotes(notes \ {n})
    /\ UNCHANGED facts

SetPin(n, pinned) ==
    /\ WriteNotes((notes \ {n}) \cup {[n EXCEPT !.pinned = pinned]})
    /\ UNCHANGED facts

----------------------------------------------------------------------------
(* Compaction. *)

\* compaction_totals against the two ceilings: unpinned notes only.
OverCeiling == Cardinality(Unpinned) > CountCeiling \/ Tokens(Unpinned) > TokenCeiling

OpenGate ==
    /\ compaction.phase = "idle" /\ OverCeiling
    /\ compaction.runs < MaxRuns
    /\ compaction' = [NoCompaction(compaction.runs + 1) EXCEPT !.phase = "gate"]
    /\ UNCHANGED <<notes, now, facts>>

\* list_notes: the rows written last, as many as the limit.
NewestNotes(rows, limit) == {n \in rows : Cardinality({m \in rows : m.id > n.id}) < limit}

\* Mutant: a listing of as many notes as the ceiling allows.
NewestFew == NewestNotes(Unpinned, CountCeiling)

NotesToCompact == NewestNotes(Unpinned, ReadLimit)

\* The compactor's input, and (in the ghost) what stood unpinned then.
ReadNotes ==
    /\ compaction.phase = "gate"
    /\ compaction' = [compaction EXCEPT !.phase = "run", !.shown = Facts(NotesToCompact),
                                        !.stood = Facts(Unpinned)]
    /\ UNCHANGED <<notes, now, facts>>

\* CompactionResult: the agent's notes, which hold what it was shown.
Written == [facts : (SUBSET compaction.shown) \ {{}}, tokens : Sizes, pinned : BOOLEAN]

CompactionResults ==
    {result \in UNION {[1..k -> Written] : k \in 0..MaxCompacted} :
        /\ UNION {result[i].facts : i \in DOMAIN result} = compaction.shown
        /\ \A i, j \in DOMAIN result : i < j => result[i].facts \cap result[j].facts = {}}

RowsOfResult(result) ==
    {MintedRow(i, result[i].facts, result[i].tokens, result[i].pinned) : i \in DOMAIN result}

\* Mutant: the replacements are written whatever they cost.
AnyBudget(rows) == TRUE

WithinBudget(rows) == Tokens(rows) <= TokenCeiling

\* replace_non_pinned: the unpinned rows of now, whatever was read.
ReplaceNonPinned(rows) == (notes \ Unpinned) \cup rows

CommitCompaction(rows) ==
    /\ compaction.phase = "run" /\ WithinBudget(rows)
    /\ notes' = ReplaceNonPinned(rows)
    /\ compaction' = NoCompaction(compaction.runs)
    /\ UNCHANGED <<now, facts>>

\* The agent's run fails, or its notes are over the ceiling: none is written.
FailCompaction ==
    /\ compaction.phase # "idle"
    /\ compaction' = NoCompaction(compaction.runs)
    /\ UNCHANGED <<notes, now, facts>>

----------------------------------------------------------------------------
(* Time, fork and revert: the host's, at the end of a turn. *)

NextTurn ==
    /\ now < MaxTime /\ compaction.phase = "idle"
    /\ now' = now + 1
    /\ UNCHANGED <<notes, facts, compaction>>

\* Mutant: a copy is dated as it is written.
CopyNow(n) == [n EXCEPT !.at = now]

\* Each copy keeps its source's time, because a revert cuts on it.
Copy(n) == n

Before(cutoff) == {n \in notes : n.at < cutoff}

\* copy_notes_for_fork: the notes before the cutoff, under ids in the same
\* order.  The source keeps its own; the model follows the branch from here.
ForkNotes(cutoff) ==
    /\ compaction.phase = "idle" /\ cutoff \in 1..(now + 1)
    /\ notes' = {Copy(n) : n \in Before(cutoff)}
    /\ UNCHANGED <<now, facts, compaction>>

\* delete_notes_from: the thread goes back to before a turn.
RevertNotes(cutoff) ==
    /\ compaction.phase = "idle" /\ cutoff \in 1..now
    /\ notes' = Before(cutoff)
    /\ UNCHANGED <<now, facts, compaction>>

NotesNext ==
    \/ \E tokens \in Sizes, pinned \in BOOLEAN : Note(tokens, pinned)
    \/ \E n \in notes, tokens \in Sizes : UpdateNote(n, tokens)
    \/ \E n \in notes : DeleteNote(n)
    \/ \E n \in notes, pinned \in BOOLEAN : SetPin(n, pinned)
    \/ OpenGate \/ ReadNotes \/ FailCompaction
    \/ \E result \in CompactionResults : CommitCompaction(RowsOfResult(result))
    \/ NextTurn
    \/ \E k \in 1..(MaxTime + 1) : ForkNotes(k) \/ RevertNotes(k)

NotesSpec == NotesInit /\ [][NotesNext]_noteVars

----------------------------------------------------------------------------
(* Properties. *)

Committed == compaction.phase = "run" /\ compaction'.phase = "idle" /\ notes' # notes

\* A compaction keeps every note that is pinned when it commits, even one that
\* was pinned while the compactor wrote, and every fact that stood unpinned when
\* the compactor read and still stands when its notes are written: no note is too
\* old to be read (replace_non_pinned, notes_to_compact).
KeepsWhatStood ==
    [][Committed =>
         /\ {n \in notes : n.pinned} \subseteq notes'
         /\ compaction.stood \cap Facts(notes) \subseteq Facts(notes')]_noteVars

\* A compaction that commits closes its gate, notes written beside it and
\* notes the compactor pinned included: the next turn starts no other.
GateCloses == [][Committed => ~OverCeiling']_noteVars

\* A revert keeps the notes first written before its turn and no others, in a
\* fork as in the thread it was copied from.
RevertCuts ==
    [][\A k \in 1..now : RevertNotes(k) => notes' = {n \in notes : n.born < k}]_noteVars

\* What rewrites the notebook as a whole keeps what it must and cuts what it must.
NotesKept == KeepsWhatStood /\ GateCloses /\ RevertCuts

\* A pinned note is never merged: no replacement says what a pinned note says
\* (tools.py: pin).
PinnedNeverMerged == \A m, n \in notes : m # n => m.facts \cap n.facts = {}
=============================================================================
