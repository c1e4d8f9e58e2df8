------------------------------ MODULE Memories ------------------------------
(***************************************************************************)
(* The memories of one user: MemoryStore, TombstoneRepository,             *)
(* auto_write_memories and retrieve_relevant_memories (memory/).           *)
(*                                                                         *)
(* LangGraph's store stamps a row when it writes it and lists a namespace  *)
(* newest first.  A turn writes its candidates and another turn reads      *)
(* while the user prunes; every call of the store and of the tombstone     *)
(* index is a step of its own.                                             *)
(***************************************************************************)
EXTENDS Naturals, Sequences, FiniteSets

CONSTANTS
    Apps,           \* applications the user drives
    ListedKinds,    \* RetrievalScope.always_kinds
    RankedKinds,    \* RetrievalScope.kinds that are not always_kinds
    Keys,           \* the keys callers give
    Contents,       \* contents, told apart by their hash
    Admitted,       \* the contents RetrievalScope.admits
    TopK,           \* top_k
    AlwaysTopK,     \* always_top_k
    MaxCandidates,  \* bound on the candidates of a turn
    MaxPuts         \* bound on the memories written in a run

Kinds == ListedKinds \cup RankedKinds

ASSUME MemoriesAssumption ==
    /\ Apps # {}
    /\ ListedKinds \cap RankedKinds = {}
    /\ Admitted \subseteq Contents
    /\ {TopK, AlwaysTopK, MaxCandidates, MaxPuts} \subseteq Nat

VARIABLES
    entries,    \* the rows of the store
    tombs,      \* memory_tombstones: application, kind and content hash
    writer,     \* the turn that writes its candidates; late is history
    puts,       \* how many rows were written: the clock of their stamps
    reader,     \* the turn that retrieves
    answer      \* what the last retrieval returned, and from what

memoryVars == <<entries, tombs, writer, puts, reader, answer>>

Candidate == [kind : Kinds, key : Keys, content : Contents]
Entry == [app : Apps, kind : Kinds, key : Keys, content : Contents, auto : BOOLEAN,
          at : Nat]
Tomb == Apps \X Kinds \X Contents

MemoryTypeOK ==
    /\ entries \subseteq Entry
    /\ tombs \subseteq Tomb
    /\ writer \in [open : BOOLEAN, app : Apps, left : Seq(Candidate),
                   dead : SUBSET (Kinds \X Contents), late : SUBSET Tomb]
    /\ puts \in 0..MaxPuts
    /\ reader \in [open : BOOLEAN, app : Apps, listed : SUBSET Entry]
    /\ answer \in [app : Apps, listed : SUBSET Entry, ranked : SUBSET Entry]

MemoryInit ==
    /\ entries = {}
    /\ tombs = {}
    /\ puts = 0
    /\ LET a == CHOOSE x \in Apps : TRUE IN
          /\ writer = [open |-> FALSE, app |-> a, left |-> <<>>, dead |-> {}, late |-> {}]
          /\ reader = [open |-> FALSE, app |-> a, listed |-> {}]
          /\ answer = [app |-> a, listed |-> {}, ranked |-> {}]

-----------------------------------------------------------------------------
(* The store.  memory_namespace: an application, the user and a kind.       *)

In(e, app, kind) == e.app = app /\ e.kind = kind

\* The rows of S that fewer than n of it are newer than.
NewestOf(S, n) == {e \in S : Cardinality({f \in S : f.at > e.at}) < n}

\* put(): the row of a namespace and a key is written or replaced.
Put(app, c, auto) ==
    /\ puts < MaxPuts
    /\ puts' = puts + 1
    /\ entries' = {f \in entries : ~(In(f, app, c.kind) /\ f.key = c.key)} \cup
                  {[app |-> app, kind |-> c.kind, key |-> c.key, content |-> c.content,
                    auto |-> auto, at |-> puts']}

\* Mutant: a namespace names the user and the kind alone.
ListOfUser(app, kind, limit) == NewestOf({e \in entries : e.kind = kind}, limit)

\* list_all(): the rows of a namespace written last.
list_all(app, kind, limit) == NewestOf({e \in entries : In(e, app, kind)}, limit)

\* The model or the host keeps a memory on purpose.
Remember(app, c) ==
    /\ Put(app, c, FALSE)
    /\ UNCHANGED <<tombs, writer, reader, answer>>

-----------------------------------------------------------------------------
(* Pruning: the host marks a content and deletes rows that hold it.         *)

\* TombstoneRepository.tombstone: a mark that is there already stays.  One that
\* comes while a turn writes is late for it.
Tombstone(e) ==
    LET mark == <<e.app, e.kind, e.content>> IN
    /\ tombs' = tombs \cup {mark}
    /\ writer' = IF writer.open /\ mark \notin tombs
                 THEN [writer EXCEPT !.late = @ \cup {mark}] ELSE writer
    /\ UNCHANGED <<entries, puts, reader, answer>>

\* MemoryStore.delete.
DeleteMemory(e) ==
    /\ entries' = entries \ {e}
    /\ UNCHANGED <<tombs, writer, puts, reader, answer>>

-----------------------------------------------------------------------------
(* auto_write_memories.                                                     *)

Candidates == UNION {[1..n -> Candidate] : n \in 1..MaxCandidates}

\* existing_hashes: one read for every candidate of the turn.
StartWriting(app, cs) ==
    /\ ~writer.open
    /\ puts + Len(cs) <= MaxPuts
    /\ writer' = [open |-> TRUE, app |-> app, left |-> cs,
                  dead |-> {m \in Kinds \X Contents :
                      /\ <<app, m[1], m[2]>> \in tombs
                      /\ \E i \in DOMAIN cs : <<cs[i].kind, cs[i].content>> = m},
                  late |-> {}]
    /\ UNCHANGED <<entries, tombs, puts, reader, answer>>

Done == [writer EXCEPT !.open = FALSE, !.left = <<>>, !.dead = {}, !.late = {}]

Advanced == IF Len(writer.left) = 1 THEN Done ELSE [writer EXCEPT !.left = Tail(@)]

\* Mutant: what was found tombstoned is not looked at.
WriteAnyway ==
    LET c == Head(writer.left) IN
    /\ writer.open
    /\ writer' = Advanced
    /\ Put(writer.app, c, TRUE)
    /\ UNCHANGED <<tombs, reader, answer>>

\* One candidate: skipped when it was found tombstoned, written otherwise.
WriteNext ==
    LET c == Head(writer.left) IN
    /\ writer.open
    /\ writer' = Advanced
    /\ IF <<c.kind, c.content>> \in writer.dead
       THEN UNCHANGED <<entries, puts>>
       ELSE Put(writer.app, c, TRUE)
    /\ UNCHANGED <<tombs, reader, answer>>

\* A put raises: the candidates behind it are not written.
WriteFails ==
    /\ writer.open
    /\ writer' = Done
    /\ UNCHANGED <<entries, tombs, puts, reader, answer>>

-----------------------------------------------------------------------------
(* retrieve_relevant_memories.                                              *)

admits(e) == e.content \in Admitted

\* _listed_memories: each kind is listed inside the budget, what the scope does
\* not admit is dropped, and the newest of the rest stay.  A host that stamps a
\* memory when it writes it has the store's order for its recency.
listed_memories(app) ==
    NewestOf({e \in UNION {list_all(app, k, AlwaysTopK) : k \in ListedKinds} : admits(e)},
             AlwaysTopK)

\* The listed read is a batch of its own.
StartReading(app) ==
    /\ ~reader.open
    /\ reader' = [open |-> TRUE, app |-> app, listed |-> listed_memories(app)]
    /\ UNCHANGED <<entries, tombs, writer, puts, answer>>

per_kind == IF TopK \div 2 = 0 THEN 1 ELSE TopK \div 2

\* semantic_search: the nearest rows of a namespace; which they are is the
\* embedding's.
NearestOf(app, kind) ==
    LET all == {e \in entries : In(e, app, kind)}
    IN  {S \in SUBSET all : Cardinality(S) =
            IF Cardinality(all) < per_kind THEN Cardinality(all) ELSE per_kind}

\* The ranked kinds are searched; the hits the scope admits and the listing does
\* not hold under their key are cut to the budget.  An embedding that cannot be
\* reached finds nothing.
FinishReading(down) ==
    /\ reader.open
    /\ \E hits \in [RankedKinds -> SUBSET entries] :
          /\ \A k \in RankedKinds :
                IF down THEN hits[k] = {} ELSE hits[k] \in NearestOf(reader.app, k)
          /\ LET seen == {e.key : e \in reader.listed}
                 all  == {e \in UNION {hits[k] : k \in RankedKinds} :
                             admits(e) /\ e.key \notin seen}
             IN  \E ranked \in SUBSET all :
                    /\ Cardinality(ranked) =
                         IF Cardinality(all) < TopK THEN Cardinality(all) ELSE TopK
                    /\ answer' = [app |-> reader.app, listed |-> reader.listed,
                                  ranked |-> ranked]
    /\ reader' = [reader EXCEPT !.open = FALSE, !.listed = {}]
    /\ UNCHANGED <<entries, tombs, writer, puts>>

MemoryNext ==
    \/ \E app \in Apps, c \in Candidate : Remember(app, c)
    \/ \E e \in entries : Tombstone(e) \/ DeleteMemory(e)
    \/ \E app \in Apps, cs \in Candidates : StartWriting(app, cs)
    \/ WriteNext \/ WriteFails
    \/ \E app \in Apps : StartReading(app)
    \/ \E down \in BOOLEAN : FinishReading(down)

MemorySpec == MemoryInit /\ [][MemoryNext]_memoryVars

-----------------------------------------------------------------------------
(* Properties.                                                              *)

\* "Soft-delete marker that prevents auto-write from re-adding pruned memories":
\* what the user pruned before a turn began to write is not written back by it,
\* for any of its candidates, however many of them fail or are pruned meanwhile.
PrunedBeforeStaysGone ==
    [][\A e \in entries' \ entries :
          e.auto => <<e.app, e.kind, e.content>> \notin tombs \ writer.late]_memoryVars

\* The same of what is pruned while the turn writes.
PrunedStaysGone ==
    [][\A e \in entries' \ entries :
          e.auto => <<e.app, e.kind, e.content>> \notin tombs]_memoryVars

\* An answer is of the caller's application and of what its scope admits, no
\* memory twice, inside "the two added together", whatever is written between
\* the listing and the search.
AnswerInScope ==
    LET both == answer.listed \cup answer.ranked IN
    /\ \A e \in both : e.app = answer.app /\ admits(e)
    /\ \A e, f \in both : e.kind = f.kind /\ e.key = f.key => e = f
    /\ \A e \in answer.listed, f \in answer.ranked : e.key # f.key
    /\ Cardinality(answer.listed) <= AlwaysTopK
    /\ Cardinality(answer.ranked) <= TopK

\* The always-kinds an application's scope admits.
AdmittedListing(app) ==
    {e \in entries : e.app = app /\ e.kind \in ListedKinds /\ admits(e)}

\* "The always-kinds the scope admits, newest first, inside their budget": the
\* listing holds the newest of them.
ListingIsNewest ==
    [][\A app \in Apps : reader'.open /\ ~reader.open /\ reader'.app = app =>
          reader'.listed = NewestOf(AdmittedListing(app), AlwaysTopK)]_memoryVars

\* Rows of the always-kinds that are newer than one.
ListableNewer(app, e) ==
    {f \in entries : f.app = app /\ f.kind \in ListedKinds /\ f.at > e.at}

\* What it does promise: an admitted memory of an always-kind is left out only for
\* a budget of newer rows of the always-kinds, admitted or not.
ListingMissesForNewer ==
    [][\A app \in Apps : reader'.open /\ ~reader.open /\ reader'.app = app =>
          \A e \in AdmittedListing(app) \ reader'.listed :
             AlwaysTopK <= Cardinality(ListableNewer(app, e))]_memoryVars

=============================================================================
