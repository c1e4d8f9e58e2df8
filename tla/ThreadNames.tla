----------------------------- MODULE ThreadNames -----------------------------
(***************************************************************************)
(* The names of the threads on a user's shelf, and who may touch them:     *)
(* create, update_thread, dismiss, restore and the listings of             *)
(* persistence/repositories/conversation.py, behind the ownership helpers  *)
(* of conversation/authz.py.                                               *)
(*                                                                         *)
(* A thread belongs to a user under one application; a shelf is that pair  *)
(* with a site.  Naming a thread reads the names its shelf holds in one    *)
(* statement and writes the name in a later one.                           *)
(***************************************************************************)
EXTENDS Naturals, Sequences, FiniteSets

CONSTANTS
    ThreadIds,      \* ids of threads; an id names one thread ever
    Owners,         \* a user under an application
    Sites,
    Requests,       \* requests that run at the same time
    Bases,          \* the names requests ask for
    MaxSuffix,      \* bound on the numeric suffix of a name
    NoThread, NoShelf

Shelves == Owners \X Sites

ASSUME NamesAssumption ==
    /\ NoThread \notin ThreadIds
    /\ NoShelf \notin Shelves
    /\ MaxSuffix \in Nat

VARIABLES
    live,       \* the ids `conversations` holds
    used,       \* the ids it ever held
    shelf,      \* whose thread it is, and its site; written once
    name,
    dismissed,  \* the threads with a dismissed_at
    req,        \* what each request is about to write
    raced       \* history: pairs of threads whose namings overlapped

vars == <<live, used, shelf, name, dismissed, req, raced>>

Names == Seq(Bases \cup Nat)

Request == [op : {"idle", "create", "rename"}, thread : ThreadIds \cup {NoThread},
            shelf : Shelves \cup {NoShelf}, name : Names,
            rivals : SUBSET ThreadIds]

Idle == [op |-> "idle", thread |-> NoThread, shelf |-> NoShelf, name |-> <<>>,
         rivals |-> {}]

TypeOK ==
    /\ live \subseteq used
    /\ used \subseteq ThreadIds
    /\ shelf \in [ThreadIds -> Shelves \cup {NoShelf}]
    /\ \A t \in used : shelf[t] # NoShelf
    /\ name \in [ThreadIds -> Names]
    /\ dismissed \subseteq live
    /\ req \in [Requests -> Request]
    /\ raced \subseteq SUBSET ThreadIds

Init ==
    /\ live = {}
    /\ used = {}
    /\ shelf = [t \in ThreadIds |-> NoShelf]
    /\ name = [t \in ThreadIds |-> <<>>]
    /\ dismissed = {}
    /\ req = [r \in Requests |-> Idle]
    /\ raced = {}

-----------------------------------------------------------------------------
\* get_visible_conversation: a thread that is gone and a thread of another caller
\* are one answer.
Visible(caller, t) == t \in live /\ shelf[t][1] = caller

\* The names of a shelf, but for those of one thread.
Taken(s, except) == {name[t] : t \in {u \in live \ {except} : shelf[u] = s}}

Suffixed(want, i) == IF i = 0 THEN want ELSE Append(want, i)

\* Which of want, want (1), want (2), ... are free.  A request for which
\* MaxSuffix is too small is outside the bound and is not taken.
Free(s, except, want) ==
    {i \in 0..MaxSuffix : Suffixed(want, i) \notin Taken(s, except)}

\* Mutant: a taken name gets the first suffix.
FirstSuffix(s, except, want) == Suffixed(want, IF 0 \in Free(s, except, want) THEN 0 ELSE 1)

\* The first that is free.
deduplicate_name(s, except, want) ==
    Suffixed(want, CHOOSE i \in Free(s, except, want) :
                       \A j \in Free(s, except, want) : i <= j)

Become(r, record) == req' = [req EXCEPT ![r] = record]

\* A name is written and its request ends.  The requests that have read the names
\* of the shelf and not written theirs have a rival (history).
Named(r, t) ==
    /\ req' = [u \in Requests |->
                  IF u = r THEN Idle
                  ELSE IF req[u].op # "idle" /\ req[u].shelf = req[r].shelf
                  THEN [req[u] EXCEPT !.rivals = @ \cup {t}] ELSE req[u]]
    /\ raced' = {p \in raced : t \notin p}
                   \cup {{t, u} : u \in (req[r].rivals \cap live) \ {t}}

\* create(): the names are read.  There is an id for every creation that is open.
Create(r, s, base) ==
    /\ req[r].op = "idle"
    /\ Cardinality({u \in Requests : req[u].op = "create"})
         < Cardinality(ThreadIds \ used)
    /\ Free(s, NoThread, <<base>>) # {}
    /\ Become(r, [op |-> "create", thread |-> NoThread, shelf |-> s,
                  name |-> deduplicate_name(s, NoThread, <<base>>), rivals |-> {}])
    /\ UNCHANGED <<live, used, shelf, name, dismissed, raced>>

\* The row is inserted and committed.
Insert(r, t) ==
    /\ req[r].op = "create"
    /\ t \notin used
    /\ live' = live \cup {t}
    /\ used' = used \cup {t}
    /\ shelf' = [shelf EXCEPT ![t] = req[r].shelf]
    /\ name' = [name EXCEPT ![t] = req[r].name]
    /\ Named(r, t)
    /\ UNCHANGED dismissed

\* update_thread(): the owner's shelf and the names on it are read.  A thread that
\* went since the caller was let through takes the name as it is.
Rename(r, caller, t, base) ==
    /\ req[r].op = "idle"
    /\ t \in used
    /\ shelf[t][1] = caller
    /\ t \in live => Free(shelf[t], t, <<base>>) # {}
    /\ Become(r, [op |-> "rename", thread |-> t, shelf |-> shelf[t],
                  name |-> IF t \in live THEN deduplicate_name(shelf[t], t, <<base>>)
                           ELSE <<base>>,
                  rivals |-> {}])
    /\ UNCHANGED <<live, used, shelf, name, dismissed, raced>>

\* The update matches no row once the thread is gone.
WriteName(r) ==
    LET t == req[r].thread IN
    /\ req[r].op = "rename"
    /\ IF t \in live
       THEN name' = [name EXCEPT ![t] = req[r].name] /\ Named(r, t)
       ELSE Become(r, Idle) /\ UNCHANGED <<name, raced>>
    /\ UNCHANGED <<live, used, shelf, dismissed>>

\* delete(), as far as names go: the row goes, and its name with it.
Delete(caller, t) ==
    /\ Visible(caller, t)
    /\ live' = live \ {t}
    /\ name' = [name EXCEPT ![t] = <<>>]
    /\ dismissed' = dismissed \ {t}
    /\ raced' = {p \in raced : t \notin p}
    /\ UNCHANGED <<used, shelf, req>>

Dismiss(caller, t) ==
    /\ Visible(caller, t)
    /\ dismissed' = dismissed \cup {t}
    /\ UNCHANGED <<live, used, shelf, name, req, raced>>

Restore(caller, t) ==
    /\ Visible(caller, t)
    /\ dismissed' = dismissed \ {t}
    /\ UNCHANGED <<live, used, shelf, name, req, raced>>

Next ==
    \/ \E r \in Requests :
          \/ \E s \in Shelves, base \in Bases : Create(r, s, base)
          \/ \E t \in ThreadIds : Insert(r, t)
          \/ \E c \in Owners, t \in ThreadIds, base \in Bases : Rename(r, c, t, base)
          \/ WriteName(r)
    \/ \E c \in Owners, t \in ThreadIds : Delete(c, t) \/ Dismiss(c, t) \/ Restore(c, t)

Spec == Init /\ [][Next]_vars

-----------------------------------------------------------------------------
(* Properties.                                                              *)

\* list_active and list_dismissed: what a caller sees of a site.
Listed(caller, site) == {t \in live : shelf[t] = <<caller, site>>}

\* "A name no other thread of this user and site holds" (deduplicate_name): no
\* listing shows a name twice, dismissed threads included, for the user restores
\* them under the name they have.
NamesUnique ==
    \A c \in Owners, s \in Sites : \A t, u \in Listed(c, s) :
        t # u => name[t] # name[u]

\* NamesUnique as far as it holds: two threads of a listing have one name only when
\* each was named before the other's request wrote, so that neither could see the
\* other's name.  No index and no lock keeps the two requests apart.
NamesApart ==
    \A c \in Owners, s \in Sites : \A t, u \in Listed(c, s) :
        t # u /\ name[t] = name[u] => {t, u} \in raced

=============================================================================
