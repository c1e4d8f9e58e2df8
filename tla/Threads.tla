------------------------------- MODULE Threads -------------------------------
(***************************************************************************)
(* The threads of a deployment and the messages on them: the rows of       *)
(* `conversations` and `messages`, and the requests that fork and delete   *)
(* threads (persistence/repositories/conversation.py, message.py).  Their  *)
(* names are modelled in ThreadNames.                                      *)
(*                                                                         *)
(* Each repository method runs inside a transaction its caller commits, at *)
(* READ COMMITTED: a statement sees what was committed before it started,  *)
(* and a write waits for the row locks of other transactions.  A method of *)
(* several statements is therefore several steps, and other requests run   *)
(* between them.  What one transaction has written and not committed is    *)
(* kept in its request, with the locks that follow from it.                *)
(***************************************************************************)
EXTENDS Naturals, FiniteSets

CONSTANTS
    ThreadIds,      \* ids of threads; an id names one thread ever
    MessageIds,     \* ids of messages
    Requests,       \* transactions that run at the same time
    NoThread, NoMessage

ASSUME ThreadsAssumption == NoThread \notin ThreadIds /\ NoMessage \notin MessageIds

VARIABLES
    live,       \* the ids `conversations` holds
    used,       \* the ids it ever held
    row,        \* the columns of a thread's row
    message,    \* the rows of `messages`; one without a thread is absent
    req,        \* what each request has read and has written uncommitted
    line,       \* history: the ancestors a thread was forked under
    raced       \* history: threads forked under one already being deleted

vars == <<live, used, row, message, req, line, raced>>

Row == [parent : ThreadIds \cup {NoThread}, at : MessageIds \cup {NoMessage}]

Request == [op : {"idle", "create", "delete", "moved", "cascade"},
            thread : ThreadIds \cup {NoThread}, parent : ThreadIds \cup {NoThread},
            at : MessageIds \cup {NoMessage}, rows : SUBSET ThreadIds]

NoRow == [parent |-> NoThread, at |-> NoMessage]

Idle == [op |-> "idle", thread |-> NoThread, parent |-> NoThread, at |-> NoMessage,
         rows |-> {}]

Absent == [thread |-> NoThread, meta |-> NoThread]

TypeOK ==
    /\ live \subseteq used
    /\ used \subseteq ThreadIds
    /\ row \in [ThreadIds -> Row]
    /\ message \in [MessageIds -> [thread : ThreadIds \cup {NoThread},
                                   meta : ThreadIds \cup {NoThread}]]
    /\ req \in [Requests -> Request]
    /\ line \in [ThreadIds -> SUBSET ThreadIds]
    /\ raced \subseteq ThreadIds

Init ==
    /\ live = {}
    /\ used = {}
    /\ row = [t \in ThreadIds |-> NoRow]
    /\ message = [m \in MessageIds |-> Absent]
    /\ req = [r \in Requests |-> Idle]
    /\ line = [t \in ThreadIds |-> {}]
    /\ raced = {}

-----------------------------------------------------------------------------
(* The tree, and the locks of uncommitted writes.                           *)

Children(t) == {c \in live : row[c].parent = t}

\* The recursive query of a cascade: the least set that holds the thread and,
\* with a thread, its children.
Descendants(t) ==
    {d \in live : \A S \in SUBSET live :
        (t \in S /\ \A c \in live : row[c].parent \in S => c \in S) => d \in S}

\* The rows a request has updated, and the row its updates refer to: the foreign
\* key holds that one in place until the request commits.
Updated(r) == IF req[r].op = "moved" THEN req[r].rows ELSE {}

Pinned(r) == IF Updated(r) = {} THEN {} ELSE {req[r].parent} \ {NoThread}

\* What the next statement of a request updates and what it deletes; a deletion
\* also updates the rows ON DELETE SET NULL reaches.
Removes(r) ==
    CASE req[r].op = "moved"   -> {req[r].thread} \cap live
      [] req[r].op = "cascade" -> req[r].rows \cap live
      [] OTHER                 -> {}

Updates(r) ==
    IF req[r].op = "delete" THEN Children(req[r].thread)
    ELSE {c \in live \ Removes(r) : row[c].parent \in Removes(r)} \ Updated(r)

Blocks(u, r) ==
    /\ u # r
    /\ \/ Updates(r) \cap Updated(u) # {}
       \/ Removes(r) \cap (Updated(u) \cup Pinned(u)) # {}

Clear(r) == \A u \in Requests : ~Blocks(u, r)

Become(r, record) == req' = [req EXCEPT ![r] = record]

-----------------------------------------------------------------------------
(* Creating.                                                                *)

\* create(), opened.  A fork is a creation whose host also sets the parent
\* columns in the same transaction; it has looked its parent up before.  The ids
\* are the bound: there is one for every creation that is open.
Create(r, p, m) ==
    /\ req[r].op = "idle"
    /\ p # NoThread => p \in live
    /\ m # NoMessage => p # NoThread /\ message[m].thread = p
    /\ Cardinality({u \in Requests : req[u].op = "create"})
         < Cardinality(ThreadIds \ used)
    /\ Become(r, [Idle EXCEPT !.op = "create", !.parent = p, !.at = m])
    /\ UNCHANGED <<live, used, row, message, line, raced>>

\* A request that is past the statement that moves or collects what is under p.
Deleting(p) ==
    \E u \in Requests : \/ req[u].op = "moved" /\ req[u].thread = p
                        \/ req[u].op = "cascade" /\ p \in req[u].rows

\* The row is inserted.  A parent that is gone by now breaks the foreign key and
\* the request fails.
InsertThread(r, t) ==
    LET p == req[r].parent IN
    /\ req[r].op = "create"
    /\ t \notin used
    /\ Become(r, Idle)
    /\ \/ /\ p # NoThread => p \in live
          /\ live' = live \cup {t}
          /\ used' = used \cup {t}
          /\ row' = [row EXCEPT ![t] = [parent |-> p, at |-> req[r].at]]
          /\ line' = [line EXCEPT ![t] = IF p = NoThread THEN {} ELSE line[p] \cup {p}]
          /\ raced' = IF Deleting(p) THEN raced \cup {t} ELSE raced
       \/ /\ p # NoThread /\ p \notin live
          /\ UNCHANGED <<live, used, row, line, raced>>
    /\ UNCHANGED message

-----------------------------------------------------------------------------
(* Deleting.                                                                *)

\* delete(): the row is read for its parent.
Delete(r, t) ==
    /\ req[r].op = "idle"
    /\ t \in live
    /\ Become(r, [Idle EXCEPT !.op = "delete", !.thread = t,
                              !.parent = row[t].parent, !.at = row[t].at])
    /\ UNCHANGED <<live, used, row, message, line, raced>>

\* Mutant: the children are left to the foreign key.
MoveNothing(r) ==
    /\ req[r].op = "delete"
    /\ req' = [req EXCEPT ![r].op = "moved"]
    /\ UNCHANGED <<live, used, row, message, line, raced>>

\* The children are updated to the parent that was read.  One that is gone since
\* breaks the foreign key and the request fails.
MoveChildren(r) ==
    LET kids == Children(req[r].thread) IN
    /\ req[r].op = "delete"
    /\ Clear(r)
    /\ IF kids # {} /\ req[r].parent # NoThread /\ req[r].parent \notin live
       THEN Become(r, Idle)
       ELSE req' = [req EXCEPT ![r].op = "moved", ![r].rows = kids]
    /\ UNCHANGED <<live, used, row, message, line, raced>>

\* Mutant: a reference to a deleted thread stays.
StillLinked(t, gone) == IF t \in gone THEN NoRow ELSE row[t]

\* The rows of `gone` leave with their messages; a row that still refers to one
\* of them loses the reference.
Dropped(m, gone) == m # NoMessage /\ message[m].thread \in gone

Unlinked(t, gone) ==
    IF t \in gone
    THEN NoRow
    ELSE [row[t] EXCEPT !.parent = IF @ \in gone THEN NoThread ELSE @,
                        !.at = IF Dropped(@, gone) THEN NoMessage ELSE @]

Without(gone) ==
    /\ live' = live \ gone
    /\ message' = [m \in MessageIds |-> IF message[m].thread \in gone THEN Absent
                                        ELSE message[m]]

\* Mutant: the children become roots and take the fork point all the same.
RemoveAndDetach(r) ==
    LET gone == Removes(r) IN
    /\ req[r].op = "moved"
    /\ Clear(r)
    /\ Without(gone)
    /\ row' = [t \in ThreadIds |->
                  IF t \in req[r].rows THEN [parent |-> NoThread, at |-> req[r].at]
                  ELSE Unlinked(t, gone)]
    /\ Become(r, Idle)
    /\ UNCHANGED <<used, line, raced>>

\* The row is deleted and the request commits: the children it moved, and this.
RemoveThread(r) ==
    LET gone == Removes(r) IN
    /\ req[r].op = "moved"
    /\ Clear(r)
    /\ Without(gone)
    /\ row' = [t \in ThreadIds |->
                  IF t \in req[r].rows
                  THEN [row[t] EXCEPT !.parent = req[r].parent, !.at = req[r].at]
                  ELSE Unlinked(t, gone)]
    /\ Become(r, Idle)
    /\ UNCHANGED <<used, line, raced>>

\* delete(cascade=True): the statement collects the subtree as it is when it
\* starts, then deletes those rows once their locks are free.
Cascade(r, t) ==
    /\ req[r].op = "idle"
    /\ t \in live
    /\ Become(r, [Idle EXCEPT !.op = "cascade", !.thread = t, !.rows = Descendants(t)])
    /\ UNCHANGED <<live, used, row, message, line, raced>>

RemoveSubtree(r) ==
    LET gone == Removes(r) IN
    /\ req[r].op = "cascade"
    /\ Clear(r)
    /\ Without(gone)
    /\ row' = [t \in ThreadIds |-> Unlinked(t, gone)]
    /\ Become(r, Idle)
    /\ UNCHANGED <<used, line, raced>>

\* Requests that wait for each other: the database ends one, whose writes are
\* undone.
BreakDeadlock(r) ==
    /\ \E S \in SUBSET Requests :
          /\ r \in S
          /\ \A u \in S : (\E v \in S : Blocks(v, u)) /\ (\E v \in S : Blocks(u, v))
    /\ Become(r, Idle)
    /\ UNCHANGED <<live, used, row, message, line, raced>>

-----------------------------------------------------------------------------
(* Messages.  The metadata of a message is told apart by the thread whose   *)
(* turn wrote it; a first insert carries none.                              *)

\* insert_message(): a row that is there already is left alone.
InsertMessage(m, t) ==
    /\ t \in live
    /\ message' = IF message[m].thread = NoThread
                  THEN [message EXCEPT ![m] = [thread |-> t, meta |-> NoThread]]
                  ELSE message
    /\ UNCHANGED <<live, used, row, req, line, raced>>

\* Mutant: an upsert takes the row of another thread.
UpsertAny(m, t) ==
    /\ t \in live
    /\ message' = [message EXCEPT ![m].thread = IF @ = NoThread THEN t ELSE @,
                                  ![m].meta = t]
    /\ UNCHANGED <<live, used, row, req, line, raced>>

\* upsert_message(): a row of the same thread takes the new metadata; one of
\* another thread refuses (MessageOwnedElsewhereError).
UpsertMessage(m, t) ==
    /\ t \in live
    /\ message' = IF message[m].thread \in {NoThread, t}
                  THEN [message EXCEPT ![m] = [thread |-> t, meta |-> t]]
                  ELSE message
    /\ UNCHANGED <<live, used, row, req, line, raced>>

-----------------------------------------------------------------------------
Finish(r) ==
    \/ \E t \in ThreadIds : InsertThread(r, t)
    \/ MoveChildren(r)
    \/ RemoveThread(r)
    \/ RemoveSubtree(r)
    \/ BreakDeadlock(r)

Next ==
    \/ \E r \in Requests :
          \/ \E p \in live \cup {NoThread}, m \in MessageIds \cup {NoMessage} :
                Create(r, p, m)
          \/ \E t \in ThreadIds : Delete(r, t) \/ Cascade(r, t)
          \/ Finish(r)
    \/ \E m \in MessageIds, t \in ThreadIds : InsertMessage(m, t) \/ UpsertMessage(m, t)

Spec == Init /\ [][Next]_vars

-----------------------------------------------------------------------------
(* Properties.                                                              *)

\* The parent of a thread is a thread that exists and one it was forked under,
\* so deletions that overlap never hang a thread under a missing one nor close a
\* cycle (delete reads the parent two statements before the children that
\* received it can be seen).
ParentAbove ==
    \A t \in live : row[t].parent # NoThread => row[t].parent \in live \cap line[t]

\* The message a thread was forked at is a message of its parent, also after the
\* children of a deleted thread moved up with its fork point (delete).
ForkPoint ==
    \A t \in live : row[t].at # NoMessage =>
        /\ row[t].parent # NoThread
        /\ message[row[t].at].thread = row[t].parent

\* The nearest of a thread's ancestors that is still there.
Nearest(t) ==
    LET above == line[t] \cap live
    IN  IF above = {} THEN NoThread
        ELSE CHOOSE a \in above : above \subseteq line[a] \cup {a}

\* "Without cascade the direct children move up to the deleted node's parent":
\* however deletions overlap, a thread hangs under its nearest surviving
\* ancestor, unless it or one above it was forked under a thread whose deletion
\* had already moved or collected the children it saw.
KeepsPlace ==
    \A t \in live : (line[t] \cup {t}) \cap raced = {} => row[t].parent = Nearest(t)

\* A message holds what a turn of its own thread wrote: a retried insert and an
\* upsert that names another thread's message leave it alone.
OwnMetadata ==
    \A m \in MessageIds : message[m].meta # NoThread =>
        message[m].meta = message[m].thread

\* What one row says of another is so, whatever statements of other requests run
\* between those that read it and those that write it.
ReferencesHold == ParentAbove /\ ForkPoint /\ OwnMetadata

=============================================================================
