--------------------------- MODULE Services_proofs ---------------------------
(***************************************************************************)
(* Proofs about two services beside the runs.  The names on a shelf        *)
(* (ThreadNames): for any number of threads, requests, names and shelves,  *)
(* two threads of a listing share a name only when their namings           *)
(* overlapped.  The worker's heartbeat (Heartbeat): for every interval,    *)
(* window, delay and number of refused beats that HeartbeatAssumption      *)
(* admits, a worker that is alive is read as dead only where its beat is   *)
(* gone; the invariant bounds the age of the row by the beats that were    *)
(* refused since the last one that landed.                                 *)
(***************************************************************************)
EXTENDS ThreadNames, Heartbeat, WellFoundedInduction, TLAPS

-----------------------------------------------------------------------------
(* The name a request is given.                                             *)

\* A set of numbers that is not empty has a least one.
LEMMA LeastNat ==
    ASSUME NEW S \in SUBSET Nat, S # {}
    PROVE  \E i \in S : \A j \in S : i <= j
  <1>1. PICK i \in S : \A j \in S : <<j, i>> \notin OpToRel(<, Nat)
    BY WFMin, NatLessThanWellFounded, Zenon
  <1>2. \A j \in S : ~(j < i)
    BY <1>1, Zenon DEF OpToRel
  <1>3. \A j \in S : i <= j
    BY <1>2
  <1>4. QED
    BY <1>3

\* deduplicate_name returns a name the shelf does not hold.
LEMMA DeduplicatedIsFree ==
    ASSUME NEW s, NEW except, NEW want, Free(s, except, want) # {}
    PROVE  \E i \in Nat : /\ deduplicate_name(s, except, want) = Suffixed(want, i)
                          /\ deduplicate_name(s, except, want) \notin Taken(s, except)
  <1> DEFINE F == Free(s, except, want)
  <1>1. F \subseteq Nat
    BY NamesAssumption DEF Free
  <1>2. PICK i \in F : \A j \in F : i <= j
    BY <1>1, LeastNat
  <1> DEFINE c == CHOOSE k \in F : \A j \in F : k <= j
  <1>3. c \in F
    BY <1>2
  <1>4. deduplicate_name(s, except, want) = Suffixed(want, c)
    BY DEF deduplicate_name
  <1>5. Suffixed(want, c) \notin Taken(s, except)
    BY <1>3 DEF Free
  <1>6. QED
    BY <1>1, <1>3, <1>4, <1>5

LEMMA SuffixedTyped ==
    ASSUME NEW want \in Names, NEW i \in Nat
    PROVE  Suffixed(want, i) \in Names
  BY DEF Suffixed, Names

LEMMA BaseTyped == ASSUME NEW base \in Bases PROVE <<base>> \in Names
  BY DEF Names

-----------------------------------------------------------------------------
(* Types.                                                                   *)

LEMMA IdleTyped == Idle \in Request
  BY DEF Idle, Request, Names

LEMMA BecomeTyped ==
    ASSUME TypeOK, NEW r \in Requests, NEW x \in Request, Become(r, x)
    PROVE  req' \in [Requests -> Request]
  BY DEF TypeOK, Become

LEMMA RequestParts ==
    ASSUME TypeOK, NEW r \in Requests
    PROVE  /\ req[r].op \in {"idle", "create", "rename"}
           /\ req[r].thread \in ThreadIds \cup {NoThread}
           /\ req[r].shelf \in Shelves \cup {NoShelf}
           /\ req[r].name \in Names
           /\ req[r].rivals \subseteq ThreadIds
  BY DEF TypeOK, Request

\* A request writes the name of a thread: the others on the shelf take a rival.
LEMMA NamedTyped ==
    ASSUME TypeOK, NEW r \in Requests, NEW t \in ThreadIds, Named(r, t)
    PROVE  req' \in [Requests -> Request] /\ raced' \subseteq SUBSET ThreadIds
  <1>1. ASSUME NEW u \in Requests
        PROVE  [req[u] EXCEPT !.rivals = @ \cup {t}] \in Request
    BY DEF TypeOK, Request
  <1>2. req' \in [Requests -> Request]
    BY <1>1, IdleTyped DEF Named, TypeOK
  <1>3. \A u \in req[r].rivals : {t, u} \in SUBSET ThreadIds
    BY RequestParts
  <1>4. raced' \subseteq SUBSET ThreadIds
    BY <1>3 DEF Named, TypeOK
  <1>5. QED
    BY <1>2, <1>4

\* A request that is about to create a thread has its shelf.
Shelved == \A r \in Requests : req[r].op # "idle" => req[r].shelf \in Shelves

\* What Named leaves of each request.
LEMMA NamedParts ==
    ASSUME TypeOK, NEW r \in Requests, NEW t \in ThreadIds, Named(r, t)
    PROVE  /\ req'[r] = Idle
           /\ \A u \in Requests : u # r =>
                /\ req'[u].op = req[u].op /\ req'[u].thread = req[u].thread
                /\ req'[u].shelf = req[u].shelf /\ req'[u].name = req[u].name
                /\ req[u].rivals \subseteq req'[u].rivals
                /\ req[u].op # "idle" /\ req[u].shelf = req[r].shelf => t \in req'[u].rivals
  <1>1. \A u \in Requests : req[u] \in Request
    BY DEF TypeOK
  <1>2. ASSUME NEW x \in Request, NEW y, y = [x EXCEPT !.rivals = @ \cup {t}]
        PROVE  /\ y.op = x.op /\ y.thread = x.thread /\ y.shelf = x.shelf /\ y.name = x.name
               /\ x.rivals \subseteq y.rivals /\ t \in y.rivals
    BY <1>2 DEF Request
  <1>3. \A u \in Requests : req'[u] =
            IF u = r THEN Idle
            ELSE IF req[u].op # "idle" /\ req[u].shelf = req[r].shelf
            THEN [req[u] EXCEPT !.rivals = @ \cup {t}] ELSE req[u]
    BY DEF Named
  <1>4. ASSUME NEW u \in Requests, u # r
        PROVE  /\ req'[u].op = req[u].op /\ req'[u].thread = req[u].thread
               /\ req'[u].shelf = req[u].shelf /\ req'[u].name = req[u].name
               /\ req[u].rivals \subseteq req'[u].rivals
               /\ req[u].op # "idle" /\ req[u].shelf = req[r].shelf => t \in req'[u].rivals
    <2>1. CASE req[u].op # "idle" /\ req[u].shelf = req[r].shelf
      <3>1. req'[u] = [req[u] EXCEPT !.rivals = @ \cup {t}]
        BY <1>3, <1>4, <2>1
      <3>2. QED
        BY <1>1, <1>2, <3>1
    <2>2. CASE ~(req[u].op # "idle" /\ req[u].shelf = req[r].shelf)
      BY <1>3, <1>4, <2>2
    <2>3. QED
      BY <2>1, <2>2
  <1>5. QED
    BY <1>3, <1>4

LEMMA InitTyped == Init => TypeOK /\ Shelved
  <1> SUFFICES ASSUME Init PROVE TypeOK /\ Shelved
    OBVIOUS
  <1>1. <<>> \in Names
    BY DEF Names
  <1>2. QED
    BY <1>1, IdleTyped DEF Init, TypeOK, Shelved, Idle

LEMMA NextTyped == ASSUME TypeOK, Shelved, [Next]_vars PROVE TypeOK' /\ Shelved'
  <1>1. ASSUME NEW r \in Requests, NEW x \in Request, Become(r, x),
               x.op # "idle" => x.shelf \in Shelves
        PROVE  req' \in [Requests -> Request] /\ Shelved'
    BY <1>1, BecomeTyped DEF Become, TypeOK, Shelved
  <1>2. Idle.op = "idle"
    BY DEF Idle
  <1>3. ASSUME NEW s \in Shelves, NEW except, NEW base \in Bases,
               Free(s, except, <<base>>) # {}
        PROVE  deduplicate_name(s, except, <<base>>) \in Names
    BY <1>3, DeduplicatedIsFree, SuffixedTyped, BaseTyped
  <1>4. ASSUME NEW r \in Requests, NEW s \in Shelves, NEW base \in Bases, Create(r, s, base)
        PROVE  TypeOK' /\ Shelved'
    <2> DEFINE x == [op |-> "create", thread |-> NoThread, shelf |-> s,
                     name |-> deduplicate_name(s, NoThread, <<base>>), rivals |-> {}]
    <2>1. x \in Request /\ x.shelf \in Shelves
      BY <1>3, <1>4 DEF Request, Create
    <2>2. Become(r, x) /\ UNCHANGED <<live, used, shelf, name, dismissed, raced>>
      BY <1>4 DEF Create
    <2> HIDE DEF x
    <2>3. QED
      BY <1>1, <2>1, <2>2 DEF TypeOK
  <1>5. ASSUME NEW r \in Requests, NEW t \in ThreadIds, Insert(r, t)
        PROVE  TypeOK' /\ Shelved'
    <2>1. /\ req' \in [Requests -> Request] /\ Shelved'
          /\ raced' \subseteq SUBSET ThreadIds
      BY <1>2, <1>5, NamedTyped, NamedParts DEF Insert, Shelved
    <2>2. req[r].shelf \in Shelves /\ req[r].name \in Names
      BY <1>5, RequestParts DEF Insert, Shelved
    <2>3. /\ shelf' = [shelf EXCEPT ![t] = req[r].shelf]
          /\ name' = [name EXCEPT ![t] = req[r].name]
          /\ live' = live \cup {t} /\ used' = used \cup {t} /\ dismissed' = dismissed
      BY <1>5 DEF Insert
    <2>4. shelf' \in [ThreadIds -> Shelves \cup {NoShelf}] /\ name' \in [ThreadIds -> Names]
      BY <2>2, <2>3 DEF TypeOK
    <2>5. \A u \in used' : shelf'[u] # NoShelf
      BY <2>2, <2>3, NamesAssumption DEF TypeOK
    <2>6. QED
      BY <2>1, <2>3, <2>4, <2>5 DEF TypeOK
  <1>6. ASSUME NEW r \in Requests, NEW c \in Owners, NEW t \in ThreadIds, NEW base \in Bases,
               Rename(r, c, t, base)
        PROVE  TypeOK' /\ Shelved'
    <2> DEFINE n == IF t \in live THEN deduplicate_name(shelf[t], t, <<base>>) ELSE <<base>>
               x == [op |-> "rename", thread |-> t, shelf |-> shelf[t], name |-> n,
                     rivals |-> {}]
    <2>1. shelf[t] \in Shelves
      BY <1>6 DEF Rename, TypeOK
    <2>2. n \in Names
      BY <1>3, <1>6, <2>1, BaseTyped DEF Rename
    <2>3. Become(r, x) /\ UNCHANGED <<live, used, shelf, name, dismissed, raced>>
      BY <1>6 DEF Rename
    <2> HIDE DEF n
    <2>4. x \in Request /\ x.shelf \in Shelves
      BY <2>1, <2>2 DEF Request
    <2> HIDE DEF x
    <2>5. QED
      BY <1>1, <2>3, <2>4 DEF TypeOK
  <1>7. ASSUME NEW r \in Requests, WriteName(r)
        PROVE  TypeOK' /\ Shelved'
    <2>1. CASE req[r].thread \in live
      <3>1. req[r].thread \in ThreadIds /\ Named(r, req[r].thread)
        BY <1>7, <2>1 DEF WriteName, TypeOK
      <3>2. /\ req' \in [Requests -> Request] /\ Shelved'
            /\ raced' \subseteq SUBSET ThreadIds
        BY <1>2, <3>1, NamedTyped, NamedParts DEF Shelved
      <3>3. name' \in [ThreadIds -> Names]
        BY <1>7, <2>1, RequestParts DEF WriteName, TypeOK
      <3>4. QED
        BY <1>7, <3>2, <3>3 DEF WriteName, TypeOK
    <2>2. CASE req[r].thread \notin live
      <3>1. req' \in [Requests -> Request] /\ Shelved'
        BY <1>1, <1>2, <1>7, <2>2, IdleTyped DEF WriteName
      <3>2. QED
        BY <1>7, <2>2, <3>1 DEF WriteName, TypeOK
    <2>3. QED
      BY <2>1, <2>2
  <1>8. ASSUME NEW c \in Owners, NEW t \in ThreadIds, Delete(c, t) \/ Dismiss(c, t) \/ Restore(c, t)
        PROVE  TypeOK' /\ Shelved'
    <2>1. <<>> \in Names
      BY DEF Names
    <2>2. QED
      BY <1>8, <2>1 DEF Delete, Dismiss, Restore, Visible, TypeOK, Shelved
  <1>9. CASE UNCHANGED vars
    BY <1>9 DEF vars, TypeOK, Shelved
  <1>10. QED
    BY <1>4, <1>5, <1>6, <1>7, <1>8, <1>9 DEF Next

\* Threads, names and requests keep their types.
THEOREM TypeCorrect == Spec => []TypeOK
  BY InitTyped, NextTyped, PTL DEF Spec

-----------------------------------------------------------------------------
(* Names and their rivals.                                                  *)

\* A rename holds the shelf of its thread, which it read.
OnItsShelf ==
    \A r \in Requests : req[r].op = "rename" =>
        req[r].thread \in used /\ req[r].shelf = shelf[req[r].thread]

\* A creation has no thread yet.
Creating == \A r \in Requests : req[r].op = "create" => req[r].thread = NoThread

\* Another thread that has the name a request is about to write got it after the
\* request read the names: it is one of its rivals.
TakenByRivals ==
    \A r \in Requests : req[r].op # "idle" =>
        \A u \in live :
            /\ shelf[u] = req[r].shelf
            /\ u # req[r].thread
            /\ req[r].op = "rename" => req[r].thread \in live
            /\ name[u] = req[r].name
            => u \in req[r].rivals

\* NamesApart without the callers.
SharedByRaced ==
    \A t, u \in live : t # u /\ shelf[t] = shelf[u] /\ name[t] = name[u] => {t, u} \in raced

Inv == TypeOK /\ Shelved /\ OnItsShelf /\ Creating /\ TakenByRivals /\ SharedByRaced

\* A request starts with a name that is free.
LEMMA StartKeeps ==
    ASSUME Inv, (TypeOK /\ Shelved)', NEW r \in Requests, NEW x, Become(r, x),
           UNCHANGED <<live, used, shelf, name, dismissed, raced>>,
           x.op = "create" => x.thread = NoThread,
           x.op = "rename" => x.thread \in used /\ x.shelf = shelf[x.thread],
           \A t \in live : shelf[t] = x.shelf /\ t # x.thread
                           /\ (x.op = "rename" => x.thread \in live) => name[t] # x.name
    PROVE  Inv'
  <1>1. req'[r] = x /\ \A u \in Requests : u # r => req'[u] = req[u]
    BY DEF Become, Inv, TypeOK
  <1>2. OnItsShelf' /\ Creating'
    BY <1>1 DEF Inv, OnItsShelf, Creating
  <1>3. TakenByRivals'
    BY <1>1 DEF Inv, TakenByRivals
  <1>4. SharedByRaced'
    BY DEF Inv, SharedByRaced
  <1>5. QED
    BY <1>2, <1>3, <1>4 DEF Inv

LEMMA CreateKeeps ==
    ASSUME Inv, (TypeOK /\ Shelved)',
           NEW r \in Requests, NEW s \in Shelves, NEW base \in Bases, Create(r, s, base)
    PROVE  Inv'
  <1> DEFINE n == deduplicate_name(s, NoThread, <<base>>)
             x == [op |-> "create", thread |-> NoThread, shelf |-> s, name |-> n,
                   rivals |-> {}]
  <1>1. Become(r, x) /\ UNCHANGED <<live, used, shelf, name, dismissed, raced>>
    BY DEF Create
  <1>2. n \notin Taken(s, NoThread)
    BY DeduplicatedIsFree DEF Create
  <1>3. \A t \in live : shelf[t] = s /\ t # NoThread => name[t] # n
    BY <1>2 DEF Taken
  <1>4. x.op = "create" /\ x.thread = NoThread /\ x.shelf = s /\ x.name = n
    OBVIOUS
  <1> HIDE DEF x, n
  <1>5. QED
    BY <1>1, <1>3, <1>4, StartKeeps

LEMMA RenameKeeps ==
    ASSUME Inv, (TypeOK /\ Shelved)', NEW r \in Requests, NEW c \in Owners,
           NEW t \in ThreadIds, NEW base \in Bases, Rename(r, c, t, base)
    PROVE  Inv'
  <1> DEFINE n == IF t \in live THEN deduplicate_name(shelf[t], t, <<base>>) ELSE <<base>>
             x == [op |-> "rename", thread |-> t, shelf |-> shelf[t], name |-> n,
                   rivals |-> {}]
  <1>1. Become(r, x) /\ UNCHANGED <<live, used, shelf, name, dismissed, raced>> /\ t \in used
    BY DEF Rename
  <1>2. t \in live => n \notin Taken(shelf[t], t)
    BY DeduplicatedIsFree DEF Rename
  <1>3. \A u \in live : shelf[u] = shelf[t] /\ u # t /\ t \in live => name[u] # n
    BY <1>2 DEF Taken
  <1>4. x.op = "rename" /\ x.thread = t /\ x.shelf = shelf[t] /\ x.name = n
    OBVIOUS
  <1> HIDE DEF x, n
  <1>5. QED
    BY <1>1, <1>3, <1>4, StartKeeps

\* The pairs of a thread that is named are those with its rivals.
LEMMA NamedRaces ==
    ASSUME NEW r \in Requests, NEW t \in ThreadIds, Named(r, t)
    PROVE  /\ \A u \in req[r].rivals \cap live : u # t => {t, u} \in raced'
           /\ \A p \in raced : t \notin p => p \in raced'
  BY DEF Named

\* A request writes the name of its new thread.
LEMMA InsertKeeps ==
    ASSUME Inv, (TypeOK /\ Shelved)', NEW r \in Requests, NEW t \in ThreadIds, Insert(r, t)
    PROVE  Inv'
  <1>1. /\ req[r].op = "create" /\ t \notin used
        /\ live' = live \cup {t} /\ used' = used \cup {t}
        /\ shelf'[t] = req[r].shelf /\ name'[t] = req[r].name
        /\ \A u \in ThreadIds : u # t => shelf'[u] = shelf[u] /\ name'[u] = name[u]
        /\ Named(r, t)
    BY DEF Insert, Inv, TypeOK
  <1>2. live \subseteq used /\ used \subseteq ThreadIds /\ Idle.op = "idle"
    BY DEF Inv, TypeOK, Idle
  <1>3. /\ req'[r] = Idle
        /\ \A u \in Requests : u # r =>
             /\ req'[u].op = req[u].op /\ req'[u].thread = req[u].thread
             /\ req'[u].shelf = req[u].shelf /\ req'[u].name = req[u].name
             /\ req[u].rivals \subseteq req'[u].rivals
             /\ req[u].op # "idle" /\ req[u].shelf = req[r].shelf => t \in req'[u].rivals
    BY <1>1, NamedParts DEF Inv
  <1>4. OnItsShelf' /\ Creating'
    BY <1>1, <1>2, <1>3 DEF Inv, OnItsShelf, Creating
  <1>5. \A u \in live : shelf[u] = req[r].shelf /\ name[u] = req[r].name => {t, u} \in raced'
    <2>1. req[r].thread \notin live
      BY <1>1, <1>2, NamesAssumption DEF Inv, Creating
    <2>2. \A u \in live : shelf[u] = req[r].shelf /\ name[u] = req[r].name
                          => u \in req[r].rivals
      BY <1>1, <2>1 DEF Inv, TakenByRivals
    <2>3. QED
      BY <1>1, <1>2, <2>2, NamedRaces
  <1>6. SharedByRaced'
    <2>1. ASSUME NEW u \in live, NEW v \in live, u # v, shelf[u] = shelf[v], name[u] = name[v]
          PROVE  {u, v} \in raced'
      BY <1>1, <1>2, <2>1, NamedRaces DEF Inv, SharedByRaced
    <2>2. ASSUME NEW u \in live', NEW v \in live', u # v, shelf'[u] = shelf'[v],
                 name'[u] = name'[v]
          PROVE  {u, v} \in raced'
      <3>1. CASE u # t /\ v # t
        BY <1>1, <1>2, <2>1, <2>2, <3>1
      <3>2. CASE u = t
        BY <1>1, <1>2, <1>5, <2>2, <3>2
      <3>3. CASE v = t
        <4>1. {v, u} \in raced'
          BY <1>1, <1>2, <1>5, <2>2, <3>3
        <4>2. {u, v} = {v, u}
          OBVIOUS
        <4>3. QED
          BY <4>1, <4>2
      <3>4. QED
        BY <3>1, <3>2, <3>3
    <2>3. QED
      BY <2>2 DEF SharedByRaced
  <1>7. TakenByRivals'
    <2>1. ASSUME NEW u \in Requests, u # r, req[u].op = "rename", req[u].thread \in live'
          PROVE  req[u].thread \in live
      BY <1>1, <2>1 DEF Inv, OnItsShelf
    <2>2. QED
      BY <1>1, <1>2, <1>3, <2>1 DEF Inv, TakenByRivals
  <1>8. QED
    BY <1>4, <1>6, <1>7 DEF Inv

\* A request writes the name of a thread that stands.
LEMMA WriteKeeps ==
    ASSUME Inv, (TypeOK /\ Shelved)', NEW r \in Requests, WriteName(r),
           req[r].thread \in live
    PROVE  Inv'
  <1> DEFINE t == req[r].thread
  <1>1. /\ req[r].op = "rename" /\ UNCHANGED <<live, used, shelf, dismissed>>
        /\ \A u \in ThreadIds : u # t => name'[u] = name[u]
        /\ t \in ThreadIds /\ name'[t] = req[r].name
        /\ Named(r, t)
    BY DEF WriteName, Inv, TypeOK
  <1>2. live \subseteq used /\ used \subseteq ThreadIds /\ Idle.op = "idle"
    BY DEF Inv, TypeOK, Idle
  <1>3. req[r].shelf = shelf[t]
    BY <1>1 DEF Inv, OnItsShelf
  <1>4. /\ req'[r] = Idle
        /\ \A u \in Requests : u # r =>
             /\ req'[u].op = req[u].op /\ req'[u].thread = req[u].thread
             /\ req'[u].shelf = req[u].shelf /\ req'[u].name = req[u].name
             /\ req[u].rivals \subseteq req'[u].rivals
             /\ req[u].op # "idle" /\ req[u].shelf = req[r].shelf => t \in req'[u].rivals
    BY <1>1, NamedParts DEF Inv
  <1>5. OnItsShelf' /\ Creating'
    BY <1>1, <1>2, <1>4 DEF Inv, OnItsShelf, Creating
  <1>6. \A u \in live : u # t /\ shelf[u] = shelf[t] /\ name[u] = req[r].name
                        => {t, u} \in raced'
    <2>1. \A u \in live : u # t /\ shelf[u] = shelf[t] /\ name[u] = req[r].name
                          => u \in req[r].rivals
      BY <1>1, <1>3 DEF Inv, TakenByRivals
    <2>2. QED
      BY <1>1, <2>1, NamedRaces
  <1>7. SharedByRaced'
    <2>1. ASSUME NEW u \in live, NEW v \in live, u # v, shelf[u] = shelf[v], name'[u] = name'[v]
          PROVE  {u, v} \in raced'
      <3>1. CASE u # t /\ v # t
        <4>1. name[u] = name[v]
          BY <1>1, <1>2, <2>1, <3>1
        <4>2. {u, v} \in raced
          BY <2>1, <4>1 DEF Inv, SharedByRaced
        <4>3. QED
          BY <1>1, <3>1, <4>2, NamedRaces
      <3>2. CASE u = t
        BY <1>1, <1>2, <1>6, <2>1, <3>2
      <3>3. CASE v = t
        <4>1. {v, u} \in raced'
          BY <1>1, <1>2, <1>6, <2>1, <3>3
        <4>2. {u, v} = {v, u}
          OBVIOUS
        <4>3. QED
          BY <4>1, <4>2
      <3>4. QED
        BY <3>1, <3>2, <3>3
    <2>2. QED
      BY <1>1, <2>1 DEF SharedByRaced
  <1>8. TakenByRivals'
    <2>1. ASSUME NEW u \in Requests, u # r, req[u].op # "idle", NEW v \in live,
                 shelf[v] = req[u].shelf, v # req[u].thread,
                 req[u].op = "rename" => req[u].thread \in live, name'[v] = req[u].name
          PROVE  v \in req'[u].rivals
      <3>1. CASE v = t
        BY <1>3, <1>4, <2>1, <3>1
      <3>2. CASE v # t
        <4>1. name[v] = req[u].name
          BY <1>1, <1>2, <2>1, <3>2
        <4>2. v \in req[u].rivals
          BY <2>1, <4>1 DEF Inv, TakenByRivals
        <4>3. QED
          BY <1>4, <2>1, <4>2
      <3>3. QED
        BY <3>1, <3>2
    <2>2. QED
      BY <1>1, <1>2, <1>4, <2>1 DEF TakenByRivals
  <1>9. QED
    BY <1>5, <1>7, <1>8 DEF Inv

\* A request whose thread went writes nothing.
LEMMA NothingWrittenKeeps ==
    ASSUME Inv, (TypeOK /\ Shelved)', NEW r \in Requests, WriteName(r),
           req[r].thread \notin live
    PROVE  Inv'
  <1>1. /\ UNCHANGED <<live, used, shelf, name, dismissed, raced>>
        /\ req'[r] = Idle /\ \A u \in Requests : u # r => req'[u] = req[u]
        /\ Idle.op = "idle"
    BY DEF WriteName, Become, Inv, TypeOK, Idle
  <1>2. QED
    BY <1>1 DEF Inv, OnItsShelf, Creating, TakenByRivals, SharedByRaced

\* Threads that go and threads that are put aside take nothing.
LEMMA ShelfKeeps ==
    ASSUME Inv, (TypeOK /\ Shelved)', NEW c \in Owners, NEW t \in ThreadIds,
           Delete(c, t) \/ Dismiss(c, t) \/ Restore(c, t)
    PROVE  Inv'
  <1>1. CASE Delete(c, t)
    <2>1. /\ live' = live \ {t} /\ UNCHANGED <<used, shelf, req>>
          /\ \A u \in ThreadIds : u # t => name'[u] = name[u]
          /\ \A p \in raced : t \notin p => p \in raced'
      BY <1>1 DEF Delete, Inv, TypeOK
    <2>2. live \subseteq ThreadIds
      BY DEF Inv, TypeOK
    <2>3. OnItsShelf' /\ Creating'
      BY <2>1 DEF Inv, OnItsShelf, Creating
    <2>4. TakenByRivals'
      BY <2>1, <2>2 DEF Inv, TakenByRivals
    <2>5. SharedByRaced'
      BY <2>1, <2>2 DEF Inv, SharedByRaced
    <2>6. QED
      BY <2>3, <2>4, <2>5 DEF Inv
  <1>2. CASE Dismiss(c, t) \/ Restore(c, t)
    BY <1>2 DEF Dismiss, Restore, Inv, OnItsShelf, Creating, TakenByRivals, SharedByRaced
  <1>3. QED
    BY <1>1, <1>2

\* No listing of a caller shows a name twice, but for threads that were named at
\* the same time: "A name no other thread of this user and site holds", as far as
\* two statements can keep it.
THEOREM NamesApartAlways == Spec => []NamesApart
  <1>1. Init => Inv
    <2> SUFFICES ASSUME Init PROVE Inv
      OBVIOUS
    <2>1. \A r \in Requests : req[r].op = "idle"
      BY DEF Init, Idle
    <2>2. QED
      BY <2>1, InitTyped DEF Init, Inv, OnItsShelf, Creating, TakenByRivals, SharedByRaced
  <1>2. Inv /\ [Next]_vars => Inv'
    <2> SUFFICES ASSUME Inv, [Next]_vars PROVE Inv'
      OBVIOUS
    <2>1. (TypeOK /\ Shelved)'
      BY NextTyped DEF Inv
    <2>2. ASSUME NEW r \in Requests, NEW s \in Shelves, NEW base \in Bases, Create(r, s, base)
          PROVE  Inv'
      BY <2>1, <2>2, CreateKeeps
    <2>3. ASSUME NEW r \in Requests, NEW t \in ThreadIds, Insert(r, t)
          PROVE  Inv'
      BY <2>1, <2>3, InsertKeeps
    <2>4. ASSUME NEW r \in Requests, NEW c \in Owners, NEW t \in ThreadIds,
                 NEW base \in Bases, Rename(r, c, t, base)
          PROVE  Inv'
      BY <2>1, <2>4, RenameKeeps
    <2>5. ASSUME NEW r \in Requests, WriteName(r)
          PROVE  Inv'
      BY <2>1, <2>5, WriteKeeps, NothingWrittenKeeps
    <2>6. ASSUME NEW c \in Owners, NEW t \in ThreadIds,
                 Delete(c, t) \/ Dismiss(c, t) \/ Restore(c, t)
          PROVE  Inv'
      BY <2>1, <2>6, ShelfKeeps
    <2>7. CASE UNCHANGED vars
      BY <2>7 DEF vars, Inv, TypeOK, Shelved, OnItsShelf, Creating, TakenByRivals,
         SharedByRaced
    <2>8. QED
      BY <2>2, <2>3, <2>4, <2>5, <2>6, <2>7 DEF Next
  <1>3. Inv => NamesApart
    BY DEF Inv, SharedByRaced, NamesApart, Listed
  <1>4. QED
    BY <1>1, <1>2, <1>3, PTL DEF Spec

-----------------------------------------------------------------------------
(* Heartbeat.                                                               *)

\* A beat that is refused costs the interval before it and its write.
Cycle == Interval + Delay

\* The age of the row of a worker that runs, while no more beats were refused than
\* the window has room for and the thread lives.
Young ==
    worker = "running" /\ lost <= MaxLost =>
        /\ beat # "ended"
        /\ beat = "waiting" => age <= lost * Cycle + elapsed
        /\ beat = "writing" => age <= lost * Cycle + Interval + elapsed

\* A step of the beat takes no longer than it may.
OnTime ==
    /\ beat = "waiting" => elapsed <= Interval
    /\ beat = "writing" => elapsed <= Delay

Starting == worker = "starting" => beat = "waiting"

\* The thread ends only where the worker does.
Ending ==
    /\ stopping => worker = "stopped"
    /\ beat = "ended" => worker \in {"stopped", "killed"}

BeatInv == BeatTypeOK /\ Young /\ OnTime /\ Starting /\ Ending

LEMMA CycleNat == Cycle \in Nat /\ MaxLost \in Nat /\ Interval \in Nat /\ Delay \in Nat
  BY HeartbeatAssumption DEF Cycle

\* One more refused beat is one more cycle.
LEMMA OneMore ==
    ASSUME NEW n \in Nat
    PROVE  n * Cycle \in Nat /\ (n + 1) * Cycle = n * Cycle + Interval + Delay
  BY CycleNat DEF Cycle

\* As many as may be refused fit the window.
LEMMA FitsWindow ==
    ASSUME NEW n \in 0..MaxLost
    PROVE  n * Cycle + Interval + Delay <= Window
  <1>1. n \in Nat /\ MaxLost \in Nat /\ n <= MaxLost
    BY CycleNat
  <1>2. \A a, b, c \in Nat : a <= b => a * c <= b * c
    OBVIOUS
  <1>3. n * Cycle <= MaxLost * Cycle
    BY <1>1, <1>2, CycleNat
  <1>4. (MaxLost + 1) * Cycle <= Window
    BY HeartbeatAssumption DEF Cycle
  <1>5. QED
    BY <1>1, <1>3, <1>4, OneMore, CycleNat, HeartbeatAssumption

\* While the thread lives and no more beats were refused than there is room for, the
\* row of a worker that runs is inside the window.
LEMMA YoungInWindow ==
    ASSUME BeatInv, worker = "running", beat # "died", lost <= MaxLost
    PROVE  age <= Window
  <1>1. lost * Cycle + Interval + Delay <= Window
    <2>1. lost \in 0..MaxLost
      BY CycleNat DEF BeatInv, BeatTypeOK
    <2>2. QED
      BY <2>1, FitsWindow
  <1>2. /\ lost * Cycle \in Nat /\ Interval \in Nat /\ Delay \in Nat /\ Window \in Nat
        /\ elapsed \in Nat /\ age \in Nat
    BY OneMore, CycleNat, HeartbeatAssumption DEF BeatInv, BeatTypeOK
  <1>3. age <= lost * Cycle + Interval + Delay
    <2>1. CASE beat = "waiting"
      BY <1>2, <2>1 DEF BeatInv, Young, OnTime
    <2>2. CASE beat = "writing"
      BY <1>2, <2>2 DEF BeatInv, Young, OnTime
    <2>3. QED
      BY <2>1, <2>2 DEF BeatInv, BeatTypeOK, Ending
  <1>4. QED
    BY <1>1, <1>2, <1>3

LEMMA InitInv == BeatInit => BeatInv
  <1> SUFFICES ASSUME BeatInit PROVE BeatInv
    OBVIOUS
  <1>1. BeatTypeOK
    <2>1. elapsed \in Nat /\ lost \in 0..(MaxLost + 1) /\ age \in Nat
      BY CycleNat DEF BeatInit
    <2>2. blocked \in BOOLEAN /\ stopping \in BOOLEAN /\ released \in BOOLEAN
      BY Zenon DEF BeatInit
    <2>3. QED
      BY <2>1, <2>2 DEF BeatInit, BeatTypeOK
  <1>2. Young /\ Starting /\ Ending
    BY DEF BeatInit, Young, Starting, Ending
  <1>3. OnTime
    BY CycleNat DEF BeatInit, OnTime
  <1>4. QED
    BY <1>1, <1>2, <1>3 DEF BeatInv

LEMMA NextInv == ASSUME BeatInv, [BeatNext]_beatVars PROVE BeatInv'
  <1> USE DEF BeatInv, BeatTypeOK, Young, OnTime, Starting, Ending
  <1>0. /\ BeatTypeOK /\ Young /\ OnTime /\ Starting /\ Ending
        /\ lost * Cycle \in Nat /\ Interval \in Nat /\ Delay \in Nat /\ elapsed \in Nat
        /\ age \in Nat /\ lost \in Nat /\ MaxLost \in Nat
    BY OneMore, CycleNat
  <1>1. CASE Register
    BY <1>0, <1>1 DEF Register
  <1>2. CASE HoldLoop
    BY <1>0, <1>2 DEF HoldLoop
  <1>3. CASE TryBeat
    BY <1>0, <1>3 DEF TryBeat
  <1>4. CASE BeatLands
    <2>1. 0 * Cycle = 0
      BY CycleNat
    <2>2. QED
      BY <1>0, <1>4, <2>1 DEF BeatLands
  <1>5. CASE BeatFails
    <2>1. lost <= MaxLost => lost' * Cycle = lost * Cycle + Interval + Delay
      BY <1>0, <1>5, OneMore DEF BeatFails
    <2>2. lost' \in 0..(MaxLost + 1) /\ (lost' <= MaxLost => lost <= MaxLost)
      BY <1>0, <1>5 DEF BeatFails
    <2>3. QED
      BY <1>0, <1>5, <2>1, <2>2 DEF BeatFails
  <1>6. CASE BeatRaises
    BY <1>0, <1>6 DEF BeatRaises
  <1>7. CASE Stop
    BY <1>0, <1>7 DEF Stop
  <1>8. CASE EndBeat
    BY <1>0, <1>8 DEF EndBeat
  <1>9. CASE Kill
    BY <1>0, <1>9 DEF Kill
  <1>10. CASE Tick
    <2>1. BeatTypeOK' /\ OnTime' /\ Starting' /\ Ending'
      BY <1>0, <1>10 DEF Tick, Due
    <2>2. Young'
      <3>1. SUFFICES ASSUME worker' = "running", lost' <= MaxLost
                     PROVE  Young'
        OBVIOUS
      <3>2. /\ UNCHANGED <<worker, beat, stopping, lost>>
            /\ beat \notin {"ended", "died"} => elapsed' = elapsed + 1
            /\ age' <= age + 1
        BY <1>0, <1>10, <3>1 DEF Tick
      <3>3. age' \in Nat /\ elapsed' \in Nat
        BY <2>1
      <3>4. QED
        BY <1>0, <3>1, <3>2, <3>3
    <2>3. QED
      BY <2>1, <2>2
  <1>11. CASE Sweep
    BY <1>0, <1>11 DEF Sweep
  <1>12. CASE UNCHANGED beatVars
    BY <1>0, <1>12 DEF beatVars
  <1>13. QED
    BY <1>1, <1>2, <1>3, <1>4, <1>5, <1>6, <1>7, <1>8, <1>9, <1>10, <1>11, <1>12 DEF BeatNext

\* Only the sweep releases, and where the thread lives and no more beats were refused
\* than there is room for, only a worker that was killed.
LEMMA ReleaseStep ==
    ASSUME BeatInv, [BeatNext]_beatVars, released' # released
    PROVE  worker = "killed" \/ beat = "died" \/ lost > MaxLost
  <1>1. Sweep
    BY DEF BeatNext, beatVars, Register, HoldLoop, TryBeat, BeatLands, BeatFails, BeatRaises,
           Stop, EndBeat, Kill, Tick
  <1>2. age > Window /\ worker \in {"running", "killed"} /\ Window \in Nat
    BY <1>1, HeartbeatAssumption DEF Sweep
  <1>3. lost \in Nat /\ MaxLost \in Nat /\ age \in Nat
    BY CycleNat DEF BeatInv, BeatTypeOK
  <1>4. QED
    BY <1>2, <1>3, YoungInWindow

\* The sweep never takes the jobs of a worker that is alive, though a job holds its
\* loop and the database refuses beats, unless its beat is gone (LiveIsNotDead), for
\* every setting.
THEOREM LiveIsNeverDead == BeatSpec => LiveIsNotDead
  <1>1. BeatInv /\ [BeatNext]_beatVars
            => [released' # released => \/ worker = "killed"
                                        \/ beat = "died"
                                        \/ lost > MaxLost]_beatVars
    BY ReleaseStep
  <1>2. QED
    BY <1>1, InitInv, NextInv, PTL DEF BeatSpec, LiveIsNotDead

=============================================================================
